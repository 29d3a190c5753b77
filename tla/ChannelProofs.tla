---------------------------- MODULE ChannelProofs -----------------------------
(***************************************************************************)
(* Theorems about Channel, for every set of threads and every capacity.    *)
(***************************************************************************)
EXTENDS Channel, FiniteSetTheorems, SequenceTheorems, TLAPS

LEMMA ModRange ==
  ASSUME NEW N \in Nat \ {0}, NEW x \in Nat
  PROVE  x % N \in 0 .. N - 1
  OBVIOUS

LEMMA InitTypeOK == Init => TypeOK
  BY ChannelAssumption DEF Init, TypeOK, PC

LEMMA StepTypeOK == TypeOK /\ [Next]_vars => TypeOK'
<1> USE DEF TypeOK, PC, Goto, ring
<1> SUFFICES ASSUME TypeOK, [Next]_vars PROVE TypeOK'
  OBVIOUS
<1>0. CASE UNCHANGED vars
  BY <1>0 DEF vars
<1>1. ASSUME NEW t \in Thread, CallSend(t) PROVE TypeOK'
  BY <1>1, ChannelAssumption DEF CallSend
<1>2. ASSUME NEW t \in Thread, CallRecv(t) PROVE TypeOK'
  BY <1>2, ChannelAssumption DEF CallRecv
<1>3. ASSUME NEW t \in Thread, Lock(t) PROVE TypeOK'
  BY <1>3 DEF Lock
<1>4. ASSUME NEW t \in Thread, Wait(t) PROVE TypeOK'
  BY <1>4 DEF Wait
<1>5. ASSUME NEW t \in Thread, Enqueue(t) PROVE TypeOK'
  BY <1>5, ChannelAssumption, ModRange DEF Enqueue, Blocked, Advance
<1>6. ASSUME NEW t \in Thread, Dequeue(t) PROVE TypeOK'
  BY <1>6, ChannelAssumption, ModRange DEF Dequeue, Blocked, Advance
<1>7. ASSUME NEW t \in Thread, Signal(t) PROVE TypeOK'
  BY <1>7 DEF Signal, Sleepers
<1>8. ASSUME NEW t \in Thread, GiveUp(t) PROVE TypeOK'
  BY <1>8 DEF GiveUp
<1>9. ASSUME NEW t \in Thread, Unlock(t) PROVE TypeOK'
  BY <1>9 DEF Unlock
<1>10. ASSUME NEW t \in Thread, Return(t) PROVE TypeOK'
  BY <1>10 DEF Return
<1>11. ASSUME NEW t \in Thread, SpuriousWake(t) \/ TimeOut(t) PROVE TypeOK'
  BY <1>11 DEF SpuriousWake, TimeOut
<1> QED
  BY <1>0, <1>1, <1>2, <1>3, <1>4, <1>5, <1>6, <1>7, <1>8, <1>9, <1>10, <1>11
  DEF Next, Step

(* Every field of the channel and every thread stays in its range: in      *)
(* particular the indices stay inside the ring and count within 0 .. Cap.  *)
THEOREM TypeCorrect == Spec => []TypeOK
  BY InitTypeOK, StepTypeOK, PTL DEF Spec
-------------------------------------------------------------------------------
LEMMA StepMutualExclusion ==
  TypeOK /\ MutualExclusion /\ [Next]_vars => MutualExclusion'
<1> USE DEF TypeOK, MutualExclusion, Critical, Goto
<1> SUFFICES ASSUME TypeOK, MutualExclusion, [Next]_vars PROVE MutualExclusion'
  OBVIOUS
<1>0. CASE UNCHANGED vars
  BY <1>0 DEF vars
<1>1. ASSUME NEW t \in Thread, CallSend(t) \/ CallRecv(t) PROVE MutualExclusion'
  BY <1>1 DEF CallSend, CallRecv
<1>2. ASSUME NEW t \in Thread, Lock(t) \/ GiveUp(t) PROVE MutualExclusion'
  BY <1>2, ChannelAssumption DEF Lock, GiveUp
<1>3. ASSUME NEW t \in Thread, Wait(t) \/ Unlock(t) PROVE MutualExclusion'
  BY <1>3, ChannelAssumption DEF Wait, Unlock
<1>4. ASSUME NEW t \in Thread, Enqueue(t) \/ Dequeue(t) PROVE MutualExclusion'
  BY <1>4 DEF Enqueue, Dequeue
<1>5. ASSUME NEW t \in Thread, Signal(t) PROVE MutualExclusion'
  BY <1>5 DEF Signal, Sleepers
<1>6. ASSUME NEW t \in Thread, Return(t) \/ SpuriousWake(t) \/ TimeOut(t)
      PROVE MutualExclusion'
  BY <1>6 DEF Return, SpuriousWake, TimeOut
<1> QED
  BY <1>0, <1>1, <1>2, <1>3, <1>4, <1>5, <1>6 DEF Next, Step

(* Only the holder of the mutex is between its acquisition and release. *)
THEOREM MutexHeld == Spec => []MutualExclusion
<1>1. Init => MutualExclusion
  BY ChannelAssumption DEF Init, MutualExclusion, Critical
<1> QED
  BY <1>1, TypeCorrect, StepMutualExclusion, PTL DEF Spec
-------------------------------------------------------------------------------
(* An index that goes at most once around the ring, without %. *)
Wrap(i) == IF i < Cap THEN i ELSE i - Cap

LEMMA ModWrap == \A h \in 0 .. Cap - 1, c \in 0 .. Cap : (h + c) % Cap = Wrap(h + c)
<1>1. Cap \in Nat \ {0}
  BY ChannelAssumption
<1> QED
  BY ONLY <1>1 DEF Wrap

LEMMA AdvanceWrap == \A i \in 0 .. Cap - 1 : Advance(i) = Wrap(i + 1)
<1>1. 1 \in 0 .. Cap
  BY ChannelAssumption
<1> QED
  BY <1>1, ModWrap, Zenon DEF Advance

LEMMA RingWrap == TypeOK => (RingConsistent <=> tail = Wrap(head + count))
  BY ModWrap, Zenon DEF TypeOK, RingConsistent

LEMMA StepRingConsistent ==
  TypeOK /\ RingConsistent /\ [Next]_vars => RingConsistent'
<1> SUFFICES ASSUME TypeOK, RingConsistent, [Next]_vars PROVE RingConsistent'
  OBVIOUS
<1>0. TypeOK'
  BY StepTypeOK
<1>1. tail = Wrap(head + count)
  BY RingWrap
<1>2. SUFFICES tail' = Wrap(head' + count')
  BY <1>0, ModWrap, Zenon DEF TypeOK, RingConsistent
<1>3. ASSUME NEW t \in Thread, Enqueue(t) PROVE tail' = Wrap(head' + count')
  <2>1. tail' = Wrap(tail + 1)
    BY <1>3, AdvanceWrap DEF Enqueue, TypeOK
  <2> QED
    BY <1>1, <1>3, <2>1, ChannelAssumption DEF Enqueue, Blocked, TypeOK, Wrap
<1>4. ASSUME NEW t \in Thread, Dequeue(t) PROVE tail' = Wrap(head' + count')
  <2>1. head' = Wrap(head + 1)
    BY <1>4, AdvanceWrap DEF Dequeue, TypeOK
  <2> QED
    BY <1>1, <1>4, <2>1, ChannelAssumption DEF Dequeue, Blocked, TypeOK, Wrap
<1>5. ASSUME UNCHANGED ring PROVE tail' = Wrap(head' + count')
  BY <1>1, <1>5 DEF ring
<1> QED
  BY <1>3, <1>4, <1>5 DEF Next, Step, vars, ring, CallSend, CallRecv, Lock, Wait,
     Signal, GiveUp, Unlock, Return, SpuriousWake, TimeOut

(* head, tail and count agree, over any number of turns around the ring. *)
THEOREM RingAgrees == Spec => []RingConsistent
<1>1. Init => RingConsistent
  BY ChannelAssumption DEF Init, RingConsistent
<1> QED
  BY <1>1, TypeCorrect, StepRingConsistent, PTL DEF Spec
-------------------------------------------------------------------------------
(* As long as every call blocks, no wait returns nonzero. *)
Untimed == \A t \in Thread : ~timed[t] /\ pc[t] # "giveup"

LEMMA StepUntimed ==
  ASSUME Timeouts = {FALSE}
  PROVE  TypeOK /\ Untimed /\ [Next]_vars => Untimed'
<1> USE DEF TypeOK, Untimed, Goto
<1> SUFFICES ASSUME TypeOK, Untimed, [Next]_vars PROVE Untimed'
  OBVIOUS
<1>0. CASE UNCHANGED vars
  BY <1>0 DEF vars
<1>1. ASSUME NEW t \in Thread, CallSend(t) \/ CallRecv(t) PROVE Untimed'
  BY <1>1 DEF CallSend, CallRecv
<1>2. ASSUME NEW t \in Thread, Lock(t) \/ Wait(t) \/ Enqueue(t) \/ Dequeue(t)
      PROVE  Untimed'
  BY <1>2 DEF Lock, Wait, Enqueue, Dequeue
<1>3. ASSUME NEW t \in Thread, Signal(t) PROVE Untimed'
  BY <1>3 DEF Signal, Sleepers
<1>4. ASSUME NEW t \in Thread, Unlock(t) \/ Return(t) \/ SpuriousWake(t)
      PROVE  Untimed'
  BY <1>4 DEF Unlock, Return, SpuriousWake
<1>5. ASSUME NEW t \in Thread, GiveUp(t) \/ TimeOut(t) PROVE Untimed'
  BY <1>5 DEF GiveUp, TimeOut
<1> QED
  BY <1>0, <1>1, <1>2, <1>3, <1>4, <1>5 DEF Next, Step

LEMMA HelpersFinite ==
  ASSUME NEW o
  PROVE  /\ IsFiniteSet(Helpers(o)) /\ Cardinality(Helpers(o)) \in Nat
  BY ThreadsFinite, FS_Subset, FS_CardinalityType DEF Helpers

(* The effect of each kind of step on what is available to a role and on   *)
(* the helpers that will use it.                                           *)
LEMMA StepNoLostWakeup ==
  ASSUME TypeOK, Untimed, NoLostWakeup, [Next]_vars,
         NEW o \in {"send", "recv"}, Sleepers(o)' # {}
  PROVE  Available(o)' <= Cardinality(Helpers(o))'
<1> DEFINE H == Helpers(o)
           H2 == Helpers(o)'
<1> USE DEF TypeOK, Goto
<1>1. /\ IsFiniteSet(H) /\ Cardinality(H) \in Nat
      /\ IsFiniteSet(H2) /\ Cardinality(H2) \in Nat
  <2>1. H2 \subseteq Thread
    BY DEF Helpers
  <2> QED
    BY <2>1, HelpersFinite, ThreadsFinite, FS_Subset, FS_CardinalityType
<1>2. Available(o) \in Nat
  BY ChannelAssumption DEF Available
<1>3. SUFFICES Available(o)' <= Cardinality(H2)
  OBVIOUS
<1> HIDE DEF H, H2
<1>4. ASSUME Available(o)' <= Available(o), Sleepers(o) # {}, H \subseteq H2
      PROVE  Available(o)' <= Cardinality(H2)
  <2>1. Cardinality(H) <= Cardinality(H2)
    BY <1>1, <1>4, FS_Subset
  <2>2. Available(o) <= Cardinality(H)
    BY <1>4 DEF NoLostWakeup, H
  <2>3. Available(o)' \in Int
    BY ChannelAssumption, StepTypeOK DEF Available
  <2> QED
    BY <1>1, <1>2, <1>4, <2>1, <2>2, <2>3
<1>5. CASE UNCHANGED vars
  <2>1. Available(o)' = Available(o) /\ Sleepers(o)' = Sleepers(o) /\ H2 = H
    BY <1>5 DEF vars, Available, Sleepers, Helpers, H, H2
  <2> QED
    BY <1>2, <1>4, <2>1
<1>6. ASSUME NEW t \in Thread,
             \/ CallSend(t) \/ CallRecv(t) \/ Lock(t) \/ Unlock(t) \/ Return(t)
             \/ SpuriousWake(t)
      PROVE  Available(o)' <= Cardinality(H2)
  <2>1. Available(o)' = Available(o)
    BY <1>6 DEF CallSend, CallRecv, Lock, Unlock, Return, SpuriousWake,
                Available, ring
  <2>2. Sleepers(o)' \subseteq Sleepers(o)
    BY <1>6 DEF CallSend, CallRecv, Lock, Unlock, Return, SpuriousWake, Sleepers
  <2>3. H \subseteq H2
    BY <1>6 DEF CallSend, CallRecv, Lock, Unlock, Return, SpuriousWake,
                Helpers, Other, H, H2
  <2> QED
    BY <1>2, <1>4, <2>1, <2>2, <2>3
<1>7. ASSUME NEW t \in Thread, Wait(t)
      PROVE  Available(o)' <= Cardinality(H2)
  <2>1. Available(o)' = Available(o)
    BY <1>7 DEF Wait, Available, ring
  <2>2. CASE op[t] = o
    BY <1>1, <1>7, <2>1, <2>2, ChannelAssumption DEF Wait, Blocked, Available
  <2>3. CASE op[t] # o
    <3>1. Sleepers(o)' = Sleepers(o)
      BY <1>7, <2>3 DEF Wait, Sleepers
    <3>2. H \subseteq H2
      BY <1>7, <2>3 DEF Wait, Helpers, H, H2
    <3> QED
      BY <1>2, <1>4, <2>1, <3>1, <3>2
  <2> QED
    BY <2>2, <2>3
<1>8. ASSUME NEW t \in Thread, Enqueue(t) \/ Dequeue(t)
      PROVE  Available(o)' <= Cardinality(H2)
  <2>1. Sleepers(o) # {}
    BY <1>8 DEF Enqueue, Dequeue, Sleepers
  <2>2. Available(o) <= Cardinality(H)
    BY <2>1 DEF NoLostWakeup, H
  <2>3. CASE op[t] = o
    <3>1. Available(o)' = Available(o) - 1
      BY <1>8, <2>3, ChannelAssumption DEF Enqueue, Dequeue, Available
    <3>2. t \in H /\ H2 = H \ {t}
      BY <1>8, <2>3 DEF Enqueue, Dequeue, Helpers, Other, H, H2
    <3>3. Cardinality(H2) = Cardinality(H) - 1
      BY <1>1, <3>2, FS_RemoveElement
    <3> QED
      BY <1>1, <1>2, <2>2, <3>1, <3>3
  <2>4. CASE op[t] # o
    <3>1. Available(o)' = Available(o) + 1
      BY <1>8, <2>4, ChannelAssumption DEF Enqueue, Dequeue, Available
    <3>2. t \notin H /\ H2 = H \cup {t}
      BY <1>8, <2>4 DEF Enqueue, Dequeue, Helpers, Other, H, H2
    <3>3. Cardinality(H2) = Cardinality(H) + 1
      BY <1>1, <3>2, FS_AddElement
    <3> QED
      BY <1>1, <1>2, <2>2, <3>1, <3>3
  <2> QED
    BY <2>3, <2>4
<1>9. ASSUME NEW t \in Thread, Signal(t)
      PROVE  Available(o)' <= Cardinality(H2)
  <2>1. Available(o)' = Available(o)
    BY <1>9 DEF Signal, Available, ring
  <2>2. CASE op[t] = o
    <3>1. Sleepers(o)' \subseteq Sleepers(o)
      BY <1>9 DEF Signal, Sleepers
    <3>2. H \subseteq H2
      BY <1>9, <2>2 DEF Signal, Sleepers, Helpers, Other, Untimed, H, H2
    <3> QED
      BY <1>2, <1>4, <2>1, <3>1, <3>2
  <2>3. CASE op[t] # o
    <3>1. Other(op[t]) = o
      BY <2>3 DEF Other
    <3>2. Sleepers(o) # {}
      BY <1>9, <3>1 DEF Signal, Sleepers
    <3>3. PICK w \in Sleepers(o) : pc' = [pc EXCEPT ![t] = "unlock", ![w] = "lock"]
      BY <1>9, <3>1, <3>2 DEF Signal, Untimed, Sleepers
    <3>4. op' = op /\ pc[t] = "signal"
      BY <1>9 DEF Signal
    <3>5. t \in H /\ w \notin H /\ w # t /\ H2 = (H \ {t}) \cup {w}
      BY <2>3, <3>3, <3>4 DEF Helpers, Sleepers, Other, H, H2
    <3>6. /\ IsFiniteSet(H \ {t}) /\ Cardinality(H \ {t}) = Cardinality(H) - 1
      BY <1>1, <3>5, FS_RemoveElement
    <3>7. Cardinality(H2) = Cardinality(H \ {t}) + 1
      BY <3>5, <3>6, FS_AddElement
    <3> QED
      BY <1>1, <1>2, <2>1, <3>2, <3>6, <3>7 DEF NoLostWakeup, H
  <2> QED
    BY <2>2, <2>3
<1> QED
  BY <1>5, <1>6, <1>7, <1>8, <1>9 DEF Next, Step, Untimed, GiveUp, TimeOut

(* With blocking calls, one pthread_cond_signal per message moved is       *)
(* enough: no receiver (sender) is left asleep beside a message (a free    *)
(* slot) that no other receiver (sender) is about to take.                 *)
THEOREM WakeupsNotLost ==
  ASSUME Timeouts = {FALSE} PROVE Spec => []NoLostWakeup
<1>1. Init => Untimed /\ NoLostWakeup
  BY DEF Init, Untimed, NoLostWakeup, Sleepers
<1>2. TypeOK /\ Untimed /\ NoLostWakeup /\ [Next]_vars => NoLostWakeup'
  BY StepNoLostWakeup DEF NoLostWakeup
<1> QED
  BY <1>1, <1>2, TypeCorrect, StepUntimed, PTL DEF Spec

(* A channel never has senders and receivers asleep on it at once with     *)
(* nobody awake to move a message.                                         *)
THEOREM NeverStandoff ==
  ASSUME Timeouts = {FALSE} PROVE Spec => []NoStandoff
<1>1. TypeOK /\ NoLostWakeup => NoStandoff
  <2> SUFFICES ASSUME TypeOK, NoLostWakeup, ~NoStandoff PROVE FALSE
    OBVIOUS
  <2>1. Helpers("send") = {} /\ Helpers("recv") = {}
    BY DEF NoStandoff, Helpers
  <2>2. Available("send") <= 0 /\ Available("recv") <= 0
    BY <2>1, FS_EmptySet DEF NoLostWakeup, NoStandoff
  <2> QED
    BY <2>2, ChannelAssumption DEF Available, TypeOK
<1> QED
  BY <1>1, TypeCorrect, WakeupsNotLost, PTL
-------------------------------------------------------------------------------
(* The ring read from head on, without %. *)
LEMMA SlotWrap ==
  ASSUME TypeOK
  PROVE  \A i \in 0 .. Cap - 1 : Slot(i) = Wrap(head + i) /\ Slot(i) \in 0 .. Cap - 1
<1>1. head \in 0 .. Cap - 1 /\ \A i \in 0 .. Cap - 1 : i \in 0 .. Cap
  BY ChannelAssumption DEF TypeOK
<1>2. \A i \in 0 .. Cap - 1 : Slot(i) = Wrap(head + i)
  BY <1>1, ModWrap, Zenon DEF Slot
<1> QED
  BY <1>1, <1>2, ChannelAssumption DEF Wrap

LEMMA SlotWrapNext ==
  ASSUME TypeOK'
  PROVE  \A i \in 0 .. Cap - 1 : Slot(i)' = Wrap(head' + i)
<1>1. head' \in 0 .. Cap - 1 /\ \A i \in 0 .. Cap - 1 : i \in 0 .. Cap
  BY ChannelAssumption DEF TypeOK
<1> QED
  BY <1>1, ModWrap, Zenon DEF Slot

LEMMA TailWrap ==
  ASSUME TypeOK, RingConsistent
  PROVE  tail = Wrap(head + count)
  BY RingWrap

LEMMA ContentsSeq ==
  ASSUME TypeOK
  PROVE  /\ Contents \in Seq(Box \cup {NoBox})
         /\ Len(Contents) = count
         /\ \A i \in 1 .. count : Contents[i] = buf[Wrap(head + (i - 1))]
<1>1. \A i \in 1 .. count : i - 1 \in 0 .. Cap - 1
  BY ChannelAssumption DEF TypeOK
<1>2. \A i \in 1 .. count : /\ Slot(i - 1) = Wrap(head + (i - 1))
                            /\ Slot(i - 1) \in 0 .. Cap - 1
  BY <1>1, SlotWrap
<1>3. count \in Nat
  BY ChannelAssumption DEF TypeOK
<1> QED
  BY <1>2, <1>3 DEF Contents, TypeOK

LEMMA ContentsSeqNext ==
  ASSUME TypeOK'
  PROVE  /\ Contents' = [i \in 1 .. count' |-> buf'[Wrap(head' + (i - 1))]]
<1>1. \A i \in 1 .. count' : i - 1 \in 0 .. Cap - 1
  BY ChannelAssumption DEF TypeOK
<1>2. \A i \in 1 .. count' : Slot(i - 1)' = Wrap(head' + (i - 1))
  BY <1>1, SlotWrapNext
<1> QED
  BY <1>2 DEF Contents

LEMMA EnqueueAppends ==
  ASSUME TypeOK, TypeOK', RingConsistent, NEW t \in Thread, Enqueue(t)
  PROVE  /\ Contents' = Append(Contents, box[t]) /\ Len(Contents) < Cap
         /\ \A i \in 1 .. count : Contents'[i] = Contents[i]
         /\ Contents'[count + 1] = box[t]
<1>1. /\ head \in 0 .. Cap - 1 /\ count \in 0 .. Cap - 1
      /\ head' = head /\ count' = count + 1
      /\ buf' = [buf EXCEPT ![tail] = box[t]]
      /\ buf \in [0 .. Cap - 1 -> Box \cup {NoBox}] /\ tail \in 0 .. Cap - 1
  BY ChannelAssumption DEF Enqueue, Blocked, TypeOK
<1>2. tail = Wrap(head + count)
  BY TailWrap
<1>3. \A i \in 1 .. count : /\ Wrap(head + (i - 1)) \in 0 .. Cap - 1
                            /\ Wrap(head + (i - 1)) # tail
  BY <1>1, <1>2, ChannelAssumption DEF Wrap
<1>4. \A i \in 1 .. count : buf'[Wrap(head + (i - 1))] = Contents[i]
  BY <1>1, <1>3, ContentsSeq
<1>5. buf'[Wrap(head + ((count + 1) - 1))] = box[t]
  <2>1. (count + 1) - 1 = count
    BY <1>1
  <2> QED
    BY <1>1, <1>2, <2>1
<1>6. Contents' = [i \in 1 .. count + 1 |-> buf'[Wrap(head + (i - 1))]]
  BY <1>1, ContentsSeqNext
<1>7. box[t] \in Box \cup {NoBox}
  BY DEF TypeOK
<1> DEFINE s == Append(Contents, box[t])
<1>8. /\ Len(s) = count + 1 /\ s[count + 1] = box[t]
      /\ \A i \in 1 .. count : s[i] = Contents[i]
      /\ s = [i \in 1 .. count + 1 |-> s[i]]
  BY <1>1, <1>7, ContentsSeq
<1>9. \A i \in 1 .. count + 1 : buf'[Wrap(head + (i - 1))] = s[i]
  <2>1. \A i \in 1 .. count + 1 : i \in 1 .. count \/ i = count + 1
    BY <1>1
  <2> HIDE DEF s
  <2> QED
    BY <1>4, <1>5, <1>8, <2>1
<1>10. Contents' = s
  <2> HIDE DEF s
  <2> QED
    BY <1>6, <1>8, <1>9
<1>11. Len(Contents) < Cap
  BY <1>1, ContentsSeq, ChannelAssumption
<1>12. /\ \A i \in 1 .. count : Contents'[i] = Contents[i]
       /\ Contents'[count + 1] = box[t]
  <2>1. 1 .. count \subseteq 1 .. count + 1 /\ count + 1 \in 1 .. count + 1
    BY <1>1
  <2> QED
    BY <1>4, <1>5, <1>6, <2>1
<1> QED
  BY <1>10, <1>11, <1>12

LEMMA DequeueTakes ==
  ASSUME TypeOK, TypeOK', RingConsistent, NEW t \in Thread, Dequeue(t)
  PROVE  /\ Contents # << >>
         /\ Contents' = Tail(Contents)
         /\ buf[head] = Head(Contents)
         /\ buf[head] = Contents[1]
         /\ \A i \in 1 .. count - 1 : Contents'[i] = Contents[i + 1]
<1>1. /\ head \in 0 .. Cap - 1 /\ count \in 1 .. Cap
      /\ head' = Advance(head) /\ count' = count - 1 /\ buf' = buf
  BY ChannelAssumption DEF Dequeue, Blocked, TypeOK
<1>2. head' = Wrap(head + 1)
  BY <1>1, AdvanceWrap
<1>3. \A i \in 1 .. count - 1 : Wrap(head' + (i - 1)) = Wrap(head + ((i + 1) - 1))
  BY <1>1, <1>2, ChannelAssumption DEF Wrap
<1>4. \A i \in 1 .. count - 1 : buf'[Wrap(head' + (i - 1))] = Contents[i + 1]
  <2>1. \A i \in 1 .. count - 1 : i + 1 \in 1 .. count
    BY <1>1
  <2>2. \A i \in 1 .. count : Contents[i] = buf[Wrap(head + (i - 1))]
    BY ContentsSeq
  <2> SUFFICES ASSUME NEW i \in 1 .. count - 1
               PROVE  buf'[Wrap(head' + (i - 1))] = Contents[i + 1]
    OBVIOUS
  <2>3. Contents[i + 1] = buf[Wrap(head + ((i + 1) - 1))]
    BY <2>1, <2>2, Zenon
  <2>4. Wrap(head' + (i - 1)) = Wrap(head + ((i + 1) - 1))
    BY <1>3, Zenon
  <2> QED
    BY <1>1, <2>3, <2>4, Zenon
<1>5. Contents' = [i \in 1 .. count - 1 |-> buf'[Wrap(head' + (i - 1))]]
  BY <1>1, ContentsSeqNext
<1>6. Contents[1] = buf[head]
  <2>1. Wrap(head + (1 - 1)) = head
    BY <1>1, ChannelAssumption DEF Wrap
  <2> QED
    BY <1>1, <2>1, ContentsSeq
<1>7. Contents # << >> /\ Head(Contents) = Contents[1]
  BY <1>1, ContentsSeq
<1> DEFINE s == Tail(Contents)
<1>8. s = [i \in 1 .. count - 1 |-> Contents[i + 1]]
  <2>1. /\ s \in Seq(Box \cup {NoBox}) /\ Len(s) = Len(Contents) - 1
        /\ \A i \in 1 .. Len(s) : s[i] = Contents[i + 1]
    BY <1>7, ContentsSeq, HeadTailProperties
  <2>2. Len(s) = count - 1
    BY <2>1, ContentsSeq
  <2> HIDE DEF s
  <2>3. s = [i \in 1 .. Len(s) |-> s[i]]
    BY <2>1
  <2> QED
    BY <2>1, <2>2, <2>3
<1>9. Contents' = s
  <2> HIDE DEF s
  <2> QED
    BY <1>4, <1>5, <1>8
<1> QED
  BY <1>4, <1>5, <1>6, <1>7, <1>9
-------------------------------------------------------------------------------
Phases == [t \in Thread |-> Phase(t)]

(* Only a call with a finite timeout gives up. *)
GiveUpTimed == \A t \in Thread : pc[t] = "giveup" => timed[t]

LEMMA StepGiveUpTimed ==
  TypeOK /\ GiveUpTimed /\ [Next]_vars => GiveUpTimed'
<1> USE DEF TypeOK, GiveUpTimed, Goto
<1> SUFFICES ASSUME TypeOK, GiveUpTimed, [Next]_vars PROVE GiveUpTimed'
  OBVIOUS
<1>0. CASE UNCHANGED vars
  BY <1>0 DEF vars
<1>1. ASSUME NEW t \in Thread, CallSend(t) \/ CallRecv(t) PROVE GiveUpTimed'
  BY <1>1 DEF CallSend, CallRecv
<1>2. ASSUME NEW t \in Thread, Lock(t) \/ Wait(t) \/ Enqueue(t) \/ Dequeue(t)
      PROVE  GiveUpTimed'
  BY <1>2 DEF Lock, Wait, Enqueue, Dequeue
<1>3. ASSUME NEW t \in Thread, Signal(t) PROVE GiveUpTimed'
  BY <1>3 DEF Signal, Sleepers
<1>4. ASSUME NEW t \in Thread, Unlock(t) \/ Return(t) \/ SpuriousWake(t)
      PROVE  GiveUpTimed'
  BY <1>4 DEF Unlock, Return, SpuriousWake
<1>5. ASSUME NEW t \in Thread, GiveUp(t) \/ TimeOut(t) PROVE GiveUpTimed'
  BY <1>5 DEF GiveUp, TimeOut
<1> QED
  BY <1>0, <1>1, <1>2, <1>3, <1>4, <1>5 DEF Next, Step

LEMMA StepRefines ==
  ASSUME TypeOK, TypeOK', RingConsistent, GiveUpTimed, [Next]_vars
  PROVE  [BQ!Next]_(BQ!qvars)
<1> DEFINE Q == <<Contents, Phases, box, timed>>
<1> SUFFICES ASSUME Next PROVE BQ!Next \/ Q' = Q
  BY DEF vars, BQ!qvars, Contents, Slot, Phases, Phase
<1>1. ASSUME NEW t \in Thread, CallSend(t) PROVE BQ!Next
  <2>1. PICK b \in Box, k \in BOOLEAN :
           /\ box' = [box EXCEPT ![t] = b] /\ timed' = [timed EXCEPT ![t] = k]
    BY <1>1, ChannelAssumption DEF CallSend
  <2>2. Phases[t] = "idle" /\ Phases' = [Phases EXCEPT ![t] = "sending"]
    BY <1>1 DEF CallSend, TypeOK, Phases, Phase, Goto
  <2>3. Contents' = Contents
    BY <1>1 DEF CallSend, ring, Contents, Slot
  <2>4. BQ!InvokeSend(t, b, k)
    BY <2>1, <2>2, <2>3 DEF BQ!InvokeSend, Phases
  <2> QED
    BY <2>4 DEF BQ!Next
<1>2. ASSUME NEW t \in Thread, CallRecv(t) PROVE BQ!Next
  <2>1. PICK k \in BOOLEAN : timed' = [timed EXCEPT ![t] = k]
    BY <1>2, ChannelAssumption DEF CallRecv
  <2>2. Phases[t] = "idle" /\ Phases' = [Phases EXCEPT ![t] = "receiving"]
    BY <1>2 DEF CallRecv, TypeOK, Phases, Phase, Goto
  <2>3. Contents' = Contents /\ box' = box
    BY <1>2 DEF CallRecv, ring, Contents, Slot
  <2>4. BQ!InvokeRecv(t, k)
    BY <2>1, <2>2, <2>3 DEF BQ!InvokeRecv, Phases
  <2> QED
    BY <2>4 DEF BQ!Next
<1>3. ASSUME NEW t \in Thread, Enqueue(t) PROVE BQ!Next
  <2>1. Phases[t] = "sending" /\ Phases' = [Phases EXCEPT ![t] = "done"]
    BY <1>3 DEF Enqueue, TypeOK, Phases, Phase, Goto
  <2>2. Contents' = Append(Contents, box[t]) /\ Len(Contents) < Cap
    BY <1>3, EnqueueAppends
  <2>3. box' = box /\ timed' = timed
    BY <1>3 DEF Enqueue
  <2>4. BQ!Put(t)
    BY <2>1, <2>2, <2>3 DEF BQ!Put, Phases
  <2> QED
    BY <2>4 DEF BQ!Next
<1>4. ASSUME NEW t \in Thread, Dequeue(t) PROVE BQ!Next
  <2>1. Phases[t] = "receiving" /\ Phases' = [Phases EXCEPT ![t] = "done"]
    BY <1>4 DEF Dequeue, TypeOK, Phases, Phase, Goto
  <2>2. /\ Contents # << >> /\ Contents' = Tail(Contents)
        /\ buf[head] = Head(Contents)
    BY <1>4, DequeueTakes
  <2>3. box' = [box EXCEPT ![t] = buf[head]] /\ timed' = timed
    BY <1>4 DEF Dequeue
  <2>4. BQ!Take(t)
    BY <2>1, <2>2, <2>3 DEF BQ!Take, Phases
  <2> QED
    BY <2>4 DEF BQ!Next
<1>5. ASSUME NEW t \in Thread, GiveUp(t), timed[t] PROVE BQ!Next
  <2>1. /\ Phases[t] \in {"sending", "receiving"}
        /\ Phases' = [Phases EXCEPT ![t] = "done"]
    BY <1>5 DEF GiveUp, TypeOK, Phases, Phase, Goto
  <2>2. Contents' = Contents /\ timed' = timed
    BY <1>5 DEF GiveUp, ring, Contents, Slot
  <2>3. box' = [box EXCEPT ![t] = NoBox]
    BY <1>5 DEF GiveUp
  <2>4. BQ!GiveUp(t)
    BY <1>5, <2>1, <2>2, <2>3 DEF BQ!GiveUp, Phases
  <2> QED
    BY <2>4 DEF BQ!Next
<1>6. ASSUME NEW t \in Thread, Return(t) PROVE BQ!Next
  <2>1. Phases[t] = "done" /\ Phases' = [Phases EXCEPT ![t] = "idle"]
    BY <1>6 DEF Return, TypeOK, Phases, Phase, Goto
  <2>2. Contents' = Contents
    BY <1>6 DEF Return, ring, Contents, Slot
  <2>3. BQ!Return(t)
    BY <1>6, <2>1, <2>2 DEF Return, BQ!Return, Phases
  <2> QED
    BY <2>3 DEF BQ!Next
<1>7. ASSUME NEW t \in Thread,
             \/ Lock(t) \/ Wait(t) \/ Signal(t) \/ Unlock(t) \/ SpuriousWake(t)
             \/ TimeOut(t)
      PROVE  Q' = Q
  <2>1. Contents' = Contents /\ box' = box /\ timed' = timed
    BY <1>7 DEF Lock, Wait, Signal, Unlock, SpuriousWake, TimeOut, ring,
                Contents, Slot
  <2>2. Phases' = Phases
    BY <1>7 DEF Lock, Wait, Signal, Unlock, SpuriousWake, TimeOut, TypeOK, PC,
                Phases, Phase, Goto, Sleepers
  <2> QED
    BY <2>1, <2>2
<1> QED
  BY <1>1, <1>2, <1>3, <1>4, <1>5, <1>6, <1>7
  DEF Next, Step, GiveUpTimed, GiveUp

(* The channel is a bounded queue, whatever the number of threads, the     *)
(* capacity and the timeouts: no message is lost, invented, duplicated or  *)
(* overtaken, and only calls with a finite timeout fail.                   *)
THEOREM ChannelIsBoundedQueue == Spec => ImplementsBoundedQueue
<1>1. Init => BQ!Init
  BY ChannelAssumption DEF Init, BQ!Init, Contents, Phase
<1>2. Init => GiveUpTimed
  BY DEF Init, GiveUpTimed
<1>3. TypeOK /\ TypeOK' /\ RingConsistent /\ GiveUpTimed /\ [Next]_vars
        => [BQ!Next]_(BQ!qvars)
  BY StepRefines
<1> QED
  BY <1>1, <1>2, <1>3, TypeCorrect, RingAgrees, StepGiveUpTimed, PTL
  DEF Spec, ImplementsBoundedQueue, BQ!Spec
-------------------------------------------------------------------------------
(* A thread outside of a call has no box, and a receiver none before it    *)
(* takes one out.                                                          *)
BoxWhenDone == \A t \in Thread :
  /\ pc[t] = "idle" => box[t] = NoBox
  /\ op[t] = "recv" /\ pc[t] \in {"lock", "test", "wait", "giveup"} => box[t] = NoBox

LEMMA StepBoxWhenDone ==
  TypeOK /\ BoxWhenDone /\ [Next]_vars => BoxWhenDone'
<1> USE DEF TypeOK, BoxWhenDone, Goto
<1> SUFFICES ASSUME TypeOK, BoxWhenDone, [Next]_vars PROVE BoxWhenDone'
  OBVIOUS
<1>0. CASE UNCHANGED vars
  BY <1>0 DEF vars
<1>1. ASSUME NEW t \in Thread, CallSend(t) \/ CallRecv(t) PROVE BoxWhenDone'
  BY <1>1 DEF CallSend, CallRecv
<1>2. ASSUME NEW t \in Thread, Lock(t) \/ Wait(t) \/ Enqueue(t) \/ Dequeue(t)
      PROVE  BoxWhenDone'
  BY <1>2 DEF Lock, Wait, Enqueue, Dequeue
<1>3. ASSUME NEW t \in Thread, Signal(t) PROVE BoxWhenDone'
  BY <1>3 DEF Signal, Sleepers
<1>4. ASSUME NEW t \in Thread, Unlock(t) \/ Return(t) \/ SpuriousWake(t)
      PROVE  BoxWhenDone'
  BY <1>4 DEF Unlock, Return, SpuriousWake
<1>5. ASSUME NEW t \in Thread, GiveUp(t) \/ TimeOut(t) PROVE BoxWhenDone'
  BY <1>5 DEF GiveUp, TimeOut
<1> QED
  BY <1>0, <1>1, <1>2, <1>3, <1>4, <1>5 DEF Next, Step

LEMMA StepOneOwner ==
  ASSUME TypeOK, TypeOK', RingConsistent, BoxWhenDone, OneOwner, [Next]_vars
  PROVE  OneOwner'
<1> USE DEF TypeOK
(* Steps after which nobody holds more than before. *)
<1>1. ASSUME Contents' = Contents, count' = count, live' = live,
             \A t \in Thread : Holds(t)' => Holds(t) /\ box'[t] = box[t]
      PROVE  OneOwner'
  BY <1>1 DEF OneOwner
<1>2. ASSUME UNCHANGED ring
      PROVE  Contents' = Contents /\ count' = count
  BY <1>2 DEF ring, Contents, Slot
<1>3. CASE UNCHANGED vars
  BY <1>1, <1>2, <1>3 DEF vars, ring, Holds
<1>4. ASSUME NEW t \in Thread, CallSend(t) PROVE OneOwner'
  <2>1. PICK b \in Box \ live : live' = live \cup {b} /\ box' = [box EXCEPT ![t] = b]
    BY <1>4 DEF CallSend
  <2>2. Contents' = Contents /\ count' = count
    BY <1>2, <1>4 DEF CallSend
  <2>3. \A u \in Thread \ {t} : Holds(u)' <=> Holds(u)
    BY <1>4, <2>1 DEF CallSend, Holds, Goto
  <2> QED
    BY <2>1, <2>2, <2>3 DEF OneOwner
<1>5. ASSUME NEW t \in Thread, CallRecv(t) PROVE OneOwner'
  <2>1. \A u \in Thread : Holds(u)' => Holds(u) /\ box'[u] = box[u]
    BY <1>5 DEF CallRecv, Holds, Goto, BoxWhenDone
  <2> QED
    BY <1>1, <1>2, <1>5, <2>1 DEF CallRecv
<1>6. ASSUME NEW t \in Thread,
             \/ Lock(t) \/ Wait(t) \/ Unlock(t) \/ SpuriousWake(t) \/ TimeOut(t)
             \/ GiveUp(t)
      PROVE  OneOwner'
  <2>1. \A u \in Thread : Holds(u)' => Holds(u) /\ box'[u] = box[u]
    BY <1>6 DEF Lock, Wait, Unlock, SpuriousWake, TimeOut, GiveUp, Holds, Goto
  <2> QED
    BY <1>1, <1>2, <1>6, <2>1 DEF Lock, Wait, Unlock, SpuriousWake, TimeOut, GiveUp
<1>7. ASSUME NEW t \in Thread, Signal(t) PROVE OneOwner'
  <2>1. \A u \in Thread : Holds(u)' => Holds(u) /\ box'[u] = box[u]
    BY <1>7 DEF Signal, Sleepers, Holds, Goto
  <2> QED
    BY <1>1, <1>2, <1>7, <2>1 DEF Signal
<1>8. ASSUME NEW t \in Thread, Enqueue(t) PROVE OneOwner'
  <2>1. /\ Holds(t) /\ ~Holds(t)'
        /\ box' = box /\ live' = live /\ count' = count + 1 /\ count \in Nat
        /\ \A u \in Thread \ {t} : Holds(u)' <=> Holds(u)
    BY <1>8, ChannelAssumption DEF Enqueue, Holds, Goto
  <2>2. /\ \A i \in 1 .. count : Contents'[i] = Contents[i]
        /\ Contents'[count + 1] = box[t]
    BY <1>8, EnqueueAppends
  <2>3. \A i \in 1 .. count' : i \in 1 .. count \/ i = count + 1
    BY <2>1
  <2>4. \A i \in 1 .. count : box[t] # Contents[i] /\ Contents[i] \in live
    BY <2>1 DEF OneOwner
  <2>5. \A i \in 1 .. count' : Contents'[i] \in live'
    BY <2>1, <2>2, <2>3, <2>4 DEF OneOwner
  <2>6. \A u \in Thread : Holds(u)' => Holds(u) /\ u # t /\ box'[u] = box[u]
    BY <2>1
  <2>7. \A i, j \in 1 .. count' : Contents'[i] = Contents'[j] => i = j
    BY <2>2, <2>3, <2>4 DEF OneOwner
  <2>8. \A u \in Thread, i \in 1 .. count' : Holds(u)' => box'[u] # Contents'[i]
    BY <2>1, <2>2, <2>3, <2>6 DEF OneOwner
  <2> QED
    BY <2>1, <2>5, <2>6, <2>7, <2>8 DEF OneOwner
<1>9. ASSUME NEW t \in Thread, Dequeue(t) PROVE OneOwner'
  <2>1. /\ live' = live /\ count' = count - 1 /\ count \in Nat \ {0}
        /\ box' = [box EXCEPT ![t] = buf[head]]
        /\ \A u \in Thread \ {t} : Holds(u)' <=> Holds(u)
    BY <1>9, ChannelAssumption DEF Dequeue, Blocked, Holds, Goto
  <2>2. buf[head] = Contents[1]
    BY <1>9, DequeueTakes
  <2>3. \A i \in 1 .. count' : Contents'[i] = Contents[i + 1]
    BY <1>9, <2>1, DequeueTakes
  <2>4. 1 \in 1 .. count /\ \A i \in 1 .. count' : i + 1 \in 1 .. count /\ i + 1 # 1
    BY <2>1
  <2>5. \A i \in 1 .. count' : Contents'[i] \in live'
    BY <2>1, <2>3, <2>4 DEF OneOwner
  <2>6. \A i, j \in 1 .. count' : Contents'[i] = Contents'[j] => i = j
    <3>1. \A i, j \in 1 .. count : Contents[i] = Contents[j] => i = j
      BY DEF OneOwner
    <3> SUFFICES ASSUME NEW i \in 1 .. count', NEW j \in 1 .. count',
                        Contents[i + 1] = Contents[j + 1]
                 PROVE  i = j
      BY <2>3
    <3>2. i + 1 = j + 1
      BY <2>4, <3>1, Zenon
    <3> QED
      BY ONLY <2>1, <3>2
  <2>7. \A i \in 1 .. count' : Contents'[i] # Contents[1]
    <3>1. \A i, j \in 1 .. count : Contents[i] = Contents[j] => i = j
      BY DEF OneOwner
    <3> SUFFICES ASSUME NEW i \in 1 .. count' PROVE Contents[i + 1] # Contents[1]
      BY <2>3
    <3>2. i + 1 \in 1 .. count /\ 1 \in 1 .. count /\ i + 1 # 1
      BY <2>4
    <3> QED
      BY <3>1, <3>2, Zenon
  <2>8. Contents[1] \in live
    BY <2>4 DEF OneOwner
  <2>9. \A u \in Thread \ {t} : Holds(u) => box[u] # Contents[1]
    BY <2>4 DEF OneOwner
  <2>10. box'[t] = Contents[1] /\ \A u \in Thread \ {t} : box'[u] = box[u]
    BY <2>1, <2>2
  <2>11. \A u \in Thread : Holds(u)' => box'[u] \in live'
    BY <2>1, <2>8, <2>10 DEF OneOwner
  <2>12. \A u \in Thread \ {t} : Holds(u)' => box'[u] # box'[t]
    BY <2>1, <2>9, <2>10
  <2>13. \A u, v \in Thread : Holds(u)' /\ Holds(v)' /\ box'[u] = box'[v] => u = v
    BY <2>1, <2>10, <2>12 DEF OneOwner
  <2>14. \A u \in Thread, i \in 1 .. count' : Holds(u)' => box'[u] # Contents'[i]
    <3>1. \A u \in Thread, i \in 1 .. count : Holds(u) => box[u] # Contents[i]
      BY DEF OneOwner
    <3>2. \A u \in Thread \ {t} : Holds(u)' <=> Holds(u)
      BY <2>1
    <3> SUFFICES ASSUME NEW u \in Thread, NEW i \in 1 .. count', Holds(u)'
                 PROVE  box'[u] # Contents'[i]
      OBVIOUS
    <3>3. CASE u = t
      BY <2>7, <2>10, <3>3, Zenon
    <3>4. CASE u # t
      <4>1. Holds(u) /\ i + 1 \in 1 .. count
        BY <2>4, <3>2, <3>4
      <4>2. box[u] # Contents[i + 1]
        BY <3>1, <4>1
      <4>3. box'[u] = box[u] /\ Contents'[i] = Contents[i + 1]
        BY <2>3, <2>10, <3>4
      <4> QED
        BY <4>2, <4>3
    <3> QED
      BY <3>3, <3>4
  <2> QED
    BY <2>5, <2>6, <2>11, <2>13, <2>14 DEF OneOwner
<1>10. ASSUME NEW t \in Thread, Return(t) PROVE OneOwner'
  <2>1. Contents' = Contents /\ count' = count
    BY <1>2, <1>10 DEF Return
  <2>2. ~Holds(t)' /\ \A u \in Thread \ {t} : Holds(u)' <=> Holds(u)
    BY <1>10 DEF Return, Holds, Goto
  <2>3. box' = [box EXCEPT ![t] = NoBox]
    BY <1>10 DEF Return
  <2>4. CASE op[t] = "recv" /\ box[t] # NoBox
    BY <1>10, <2>1, <2>2, <2>3, <2>4 DEF Return, OneOwner, Holds
  <2>5. CASE ~(op[t] = "recv" /\ box[t] # NoBox)
    <3>1. live' = live
      BY <1>10, <2>5, ChannelAssumption DEF Return
    <3> QED
      BY <2>1, <2>2, <2>3, <3>1 DEF OneOwner
  <2> QED
    BY <2>4, <2>5
<1> QED
  BY <1>3, <1>4, <1>5, <1>6, <1>7, <1>8, <1>9, <1>10 DEF Next, Step

(* However calls, wake-ups and time-outs interleave, rt_recv frees a box   *)
(* that is allocated and that no other thread or slot refers to.           *)
THEOREM BoxesHaveOneOwner == Spec => []OneOwner
<1>1. Init => BoxWhenDone /\ OneOwner
  BY DEF Init, BoxWhenDone, OneOwner, Holds
<1>2. TypeOK /\ TypeOK' /\ RingConsistent /\ BoxWhenDone /\ OneOwner /\ [Next]_vars
        => OneOwner'
  BY StepOneOwner
<1> QED
  BY <1>1, <1>2, TypeCorrect, RingAgrees, StepBoxWhenDone, PTL DEF Spec

LEMMA StepNoLeak ==
  ASSUME TypeOK, TypeOK', RingConsistent, BoxWhenDone, Untimed, NoLeak, [Next]_vars
  PROVE  NoLeak'
<1> USE DEF TypeOK
(* Steps after which everybody holds what he held before. *)
<1>1. ASSUME Contents' = Contents, count' = count, live' \subseteq live,
             \A t \in Thread :
                Holds(t) /\ box[t] \in live' => Holds(t)' /\ box'[t] = box[t]
      PROVE  NoLeak'
  BY <1>1 DEF NoLeak
<1>2. ASSUME UNCHANGED ring
      PROVE  Contents' = Contents /\ count' = count
  BY <1>2 DEF ring, Contents, Slot
<1>3. CASE UNCHANGED vars
  BY <1>1, <1>2, <1>3 DEF vars, ring, Holds
<1>4. ASSUME NEW t \in Thread, CallSend(t) PROVE NoLeak'
  <2>1. PICK b \in Box \ live : live' = live \cup {b} /\ box' = [box EXCEPT ![t] = b]
    BY <1>4 DEF CallSend
  <2>2. Contents' = Contents /\ count' = count
    BY <1>2, <1>4 DEF CallSend
  <2>3. Holds(t)' /\ box'[t] = b
    BY <1>4, <2>1 DEF CallSend, Holds, Goto
  <2>4. \A u \in Thread : u # t => (Holds(u)' <=> Holds(u)) /\ box'[u] = box[u]
    BY <1>4, <2>1 DEF CallSend, Holds, Goto
  <2>5. box[t] = NoBox
    BY <1>4 DEF CallSend, BoxWhenDone
  <2>6. NoBox \notin live
    BY ChannelAssumption
  <2> QED
    BY <2>1, <2>2, <2>3, <2>4, <2>5, <2>6 DEF NoLeak
<1>5. ASSUME NEW t \in Thread,
             \/ CallRecv(t) \/ Lock(t) \/ Wait(t) \/ Unlock(t) \/ SpuriousWake(t)
      PROVE  NoLeak'
  <2>1. \A u \in Thread : Holds(u) => Holds(u)' /\ box'[u] = box[u]
    BY <1>5 DEF CallRecv, Lock, Wait, Unlock, SpuriousWake, Holds, Goto
  <2>2. live' = live /\ UNCHANGED ring
    BY <1>5 DEF CallRecv, Lock, Wait, Unlock, SpuriousWake
  <2> QED
    BY <1>1, <1>2, <2>1, <2>2
<1>6. ASSUME NEW t \in Thread, Signal(t) PROVE NoLeak'
  <2>1. \A u \in Thread : Holds(u) => Holds(u)' /\ box'[u] = box[u]
    BY <1>6 DEF Signal, Sleepers, Holds, Goto, Untimed
  <2>2. live' = live /\ UNCHANGED ring
    BY <1>6 DEF Signal
  <2> QED
    BY <1>1, <1>2, <2>1, <2>2
<1>7. ASSUME NEW t \in Thread, Enqueue(t) PROVE NoLeak'
  <2>1. /\ box' = box /\ live' = live /\ count' = count + 1 /\ count \in Nat
        /\ \A u \in Thread : u # t => (Holds(u)' <=> Holds(u))
    BY <1>7, ChannelAssumption DEF Enqueue, Holds, Goto
  <2>2. /\ \A i \in 1 .. count : Contents'[i] = Contents[i]
        /\ Contents'[count + 1] = box[t]
    BY <1>7, EnqueueAppends
  <2>3. 1 .. count \subseteq 1 .. count' /\ count + 1 \in 1 .. count'
    BY <2>1
  <2>4. SUFFICES ASSUME NEW b \in live
                 PROVE  \/ \E i \in 1 .. count' : Contents'[i] = b
                        \/ \E u \in Thread : Holds(u)' /\ box'[u] = b
    BY <2>1 DEF NoLeak
  <2>5. CASE \E i \in 1 .. count : Contents[i] = b
    BY <2>2, <2>3, <2>5
  <2>6. CASE \E u \in Thread : Holds(u) /\ box[u] = b
    BY <2>1, <2>2, <2>3, <2>6
  <2> QED
    BY <2>5, <2>6 DEF NoLeak
<1>8. ASSUME NEW t \in Thread, Dequeue(t) PROVE NoLeak'
  <2>1. /\ live' = live /\ count' = count - 1 /\ count \in Nat \ {0}
        /\ box' = [box EXCEPT ![t] = buf[head]]
        /\ \A u \in Thread : u # t => (Holds(u)' <=> Holds(u))
    BY <1>8, ChannelAssumption DEF Dequeue, Blocked, Holds, Goto
  <2>2. /\ buf[head] = Contents[1]
        /\ \A i \in 1 .. count' : Contents'[i] = Contents[i + 1]
    BY <1>8, <2>1, DequeueTakes
  <2>3. ~Holds(t) /\ (Holds(t)' <=> buf[head] # NoBox)
    BY <1>8, <2>1 DEF Dequeue, Holds, BoxWhenDone
  <2>4. SUFFICES ASSUME NEW b \in live
                 PROVE  \/ \E i \in 1 .. count' : Contents'[i] = b
                        \/ \E u \in Thread : Holds(u)' /\ box'[u] = b
    BY <2>1 DEF NoLeak
  <2>5. ASSUME NEW i \in 1 .. count, Contents[i] = b
        PROVE  \/ \E j \in 1 .. count' : Contents'[j] = b
               \/ \E u \in Thread : Holds(u)' /\ box'[u] = b
    <3>1. CASE i = 1
      BY <2>1, <2>2, <2>3, <2>5, <3>1, ChannelAssumption
    <3>2. CASE i # 1
      <4>1. i - 1 \in 1 .. count' /\ (i - 1) + 1 = i
        BY <2>1, <3>2
      <4> QED
        BY <2>2, <2>5, <4>1
    <3> QED
      BY <3>1, <3>2
  <2>6. CASE \E u \in Thread : Holds(u) /\ box[u] = b
    BY <2>1, <2>3, <2>6
  <2> QED
    BY <2>5, <2>6 DEF NoLeak
<1>9. ASSUME NEW t \in Thread, Return(t) PROVE NoLeak'
  <2>1. Contents' = Contents /\ count' = count
    BY <1>2, <1>9 DEF Return
  <2>2. \A u \in Thread : u # t => (Holds(u)' <=> Holds(u)) /\ box'[u] = box[u]
    BY <1>9 DEF Return, Holds, Goto
  <2>3. live' \subseteq live /\ (Holds(t) => box[t] \notin live')
    BY <1>9 DEF Return, Holds
  <2> QED
    BY <1>1, <2>1, <2>2, <2>3
<1> QED
  BY <1>3, <1>4, <1>5, <1>6, <1>7, <1>8, <1>9 DEF Next, Step, Untimed, GiveUp, TimeOut

(* With blocking calls no box is lost on the way: each is in a call of     *)
(* send, in the ring, or with the receiver that will free it.              *)
THEOREM NoBoxLeaks == ASSUME Timeouts = {FALSE} PROVE Spec => []NoLeak
<1>1. Init => BoxWhenDone /\ Untimed /\ NoLeak
  BY DEF Init, BoxWhenDone, Untimed, NoLeak
<1>2. /\ TypeOK /\ TypeOK' /\ RingConsistent /\ BoxWhenDone /\ Untimed /\ NoLeak
      /\ [Next]_vars
      => NoLeak'
  BY StepNoLeak
<1> QED
  BY <1>1, <1>2, TypeCorrect, RingAgrees, StepBoxWhenDone, StepUntimed, PTL DEF Spec
===============================================================================

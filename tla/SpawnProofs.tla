------------------------------ MODULE SpawnProofs ------------------------------
(***************************************************************************)
(* Theorems about Spawn, for every finite set of workers, for programs     *)
(* that wait and programs that do not, and whether or not threads can fail *)
(* to be created.                                                          *)
(***************************************************************************)
EXTENDS Spawn, FiniteSetTheorems, TLAPS

LEMMA StepTypeOK == TypeOK /\ [Next]_vars => TypeOK'
<1> USE DEF TypeOK, Places, Resource, Goto, At
<1> SUFFICES ASSUME TypeOK, [Next]_vars PROVE TypeOK'
  OBVIOUS
<1>0. CASE UNCHANGED vars
  BY <1>0 DEF vars
<1>1. ASSUME NEW w \in Worker, SpawnArgs(w) PROVE TypeOK'
  BY <1>1 DEF SpawnArgs
<1>2. ASSUME NEW w \in Worker, CreateOk(w) \/ CreateFails(w) PROVE TypeOK'
  BY <1>2 DEF CreateOk, CreateFails
<1>3. CASE Recv
  BY <1>3 DEF Recv
<1>4. CASE MainReturns \/ ArenaFree \/ Exit
  BY <1>4 DEF MainReturns, ArenaFree, Exit
<1>5. CASE VmFree
  BY <1>5 DEF VmFree
<1>6. ASSUME NEW w \in Worker, WorkerStep(w) PROVE TypeOK'
  BY <1>6 DEF WorkerStep, Tramp, Enter, Send, Unwind, FreeArg
<1> QED
  BY <1>0, <1>1, <1>2, <1>3, <1>4, <1>5, <1>6 DEF Next, MainStep

(* The state of a program and its workers stays in its range. *)
THEOREM SpawnTypeCorrect == Spec => []TypeOK
<1>1. Init => TypeOK
  BY SpawnAssumption DEF Init, TypeOK, Places
<1> QED
  BY <1>1, StepTypeOK, PTL DEF Spec
-------------------------------------------------------------------------------
(* While rt_spawn is between the allocation of the two blocks and the      *)
(* return of pthread_create, both are there; and a thread past tramp has   *)
(* freed its TrampArg.                                                     *)
Handover ==
  /\ \A w \in Worker : spawning = w =>
        thread[w] = "unborn" /\ targ[w] = "live" /\ sarg[w] = "live"
  /\ \A w \in Worker : thread[w] \in {"call", "body", "sent", "returned"} =>
        targ[w] = "freed"

LEMMA StepArgs ==
  TypeOK /\ Handover /\ ArgsHandedOver /\ [Next]_vars
    => Handover' /\ ArgsHandedOver'
<1> USE DEF TypeOK, Handover, ArgsHandedOver, Goto, At
<1> SUFFICES ASSUME TypeOK, Handover, ArgsHandedOver, [Next]_vars
             PROVE  Handover' /\ ArgsHandedOver'
  OBVIOUS
<1>0. CASE UNCHANGED vars
  BY <1>0 DEF vars
<1>1. ASSUME NEW w \in Worker, SpawnArgs(w) PROVE Handover' /\ ArgsHandedOver'
  BY <1>1 DEF SpawnArgs
<1>2. ASSUME NEW w \in Worker, CreateOk(w) PROVE Handover' /\ ArgsHandedOver'
  BY <1>2, SpawnAssumption DEF CreateOk, None
<1>3. ASSUME NEW w \in Worker, CreateFails(w) PROVE Handover' /\ ArgsHandedOver'
  BY <1>3, SpawnAssumption DEF CreateFails, None
<1>4. CASE Recv \/ MainReturns \/ VmFree \/ ArenaFree \/ Exit
  BY <1>4 DEF Recv, MainReturns, VmFree, ArenaFree, Exit
<1>5. ASSUME NEW w \in Worker, Tramp(w) PROVE Handover' /\ ArgsHandedOver'
  BY <1>5 DEF Tramp
<1>6. ASSUME NEW w \in Worker, Enter(w) \/ Send(w) \/ Unwind(w)
      PROVE  Handover' /\ ArgsHandedOver'
  BY <1>6 DEF Enter, Send, Unwind
<1>7. ASSUME NEW w \in Worker, FreeArg(w) PROVE Handover' /\ ArgsHandedOver'
  BY <1>7 DEF FreeArg
<1> QED
  BY <1>0, <1>1, <1>2, <1>3, <1>4, <1>5, <1>6, <1>7 DEF Next, MainStep, WorkerStep

(* rt_spawn and the new thread hand both argument blocks over, whichever   *)
(* of them runs first: no block is read after its free, and an ended       *)
(* thread has left none behind.                                            *)
THEOREM ArgumentsHandedOver == Spec => []ArgsHandedOver
<1>1. Init => Handover /\ ArgsHandedOver
  BY SpawnAssumption DEF Init, None, Handover, ArgsHandedOver
<1> QED
  BY <1>1, SpawnTypeCorrect, StepArgs, PTL DEF Spec
-------------------------------------------------------------------------------
(* main receives no more than was sent, and when it waits it returns only  *)
(* after a message for every worker.                                       *)
Received ==
  /\ received <= Cardinality(sent)
  /\ waits /\ main # "run" => received = Cardinality(Worker)

LEMMA SentFinite ==
  ASSUME TypeOK
  PROVE  /\ IsFiniteSet(sent) /\ Cardinality(sent) \in Nat
         /\ Cardinality(sent) <= Cardinality(Worker)
         /\ Cardinality(sent) = Cardinality(Worker) => sent = Worker
  BY SpawnAssumption, FS_Subset, FS_CardinalityType DEF TypeOK

LEMMA StepReceived == TypeOK /\ Received /\ [Next]_vars => Received'
<1> USE DEF TypeOK, Received
<1> SUFFICES ASSUME TypeOK, Received, [Next]_vars PROVE Received'
  OBVIOUS
<1>0. CASE UNCHANGED vars
  BY <1>0 DEF vars
<1>1. ASSUME NEW w \in Worker, SpawnArgs(w) \/ CreateOk(w) \/ CreateFails(w)
      PROVE  Received'
  BY <1>1 DEF SpawnArgs, CreateOk, CreateFails
<1>2. CASE Recv
  <2>1. Cardinality(sent) \in Nat
    BY SentFinite
  <2>2. sent' = sent /\ main' = main /\ main = "run"
    BY <1>2 DEF Recv
  <2>3. received + 1 <= Cardinality(sent) /\ received' = received + 1
    BY <1>2, <2>1 DEF Recv
  <2>4. received' <= Cardinality(sent')
    BY <2>2, <2>3
  <2>5. ~(main' # "run")
    BY <2>2
  <2> QED
    BY <2>4, <2>5
<1>3. CASE MainReturns \/ VmFree \/ ArenaFree \/ Exit
  BY <1>3 DEF MainReturns, VmFree, ArenaFree, Exit
<1>4. ASSUME NEW w \in Worker, Send(w) PROVE Received'
  <2>1. Cardinality(sent) <= Cardinality(sent \cup {w}) /\ Cardinality(sent \cup {w}) \in Nat
    <3>1. IsFiniteSet(sent) /\ Cardinality(sent) \in Nat
      BY SentFinite
    <3>2. Cardinality(sent \cup {w}) =
             IF w \in sent THEN Cardinality(sent) ELSE Cardinality(sent) + 1
      BY <3>1, FS_AddElement
    <3> QED
      BY ONLY <3>1, <3>2
  <2> QED
    BY <1>4, <2>1, SentFinite DEF Send
<1>5. ASSUME NEW w \in Worker, Tramp(w) \/ Enter(w) \/ Unwind(w) \/ FreeArg(w)
      PROVE  Received'
  BY <1>5 DEF Tramp, Enter, Unwind, FreeArg
<1> QED
  BY <1>0, <1>1, <1>2, <1>3, <1>4, <1>5 DEF Next, MainStep, WorkerStep

(* cmd_run starts to free the interpreter of a program that waits only     *)
(* after every worker has sent its message.                                *)
THEOREM SendsBeforeTeardown == Spec => []TeardownAfterSends
<1>1. Init => Received
  BY FS_EmptySet DEF Init, Received
<1>2. TypeOK /\ Received => TeardownAfterSends
  <2> SUFFICES ASSUME TypeOK, Received, waits, main # "run" PROVE sent = Worker
    BY DEF TeardownAfterSends
  <2>1. Cardinality(Worker) \in Nat
    BY SpawnAssumption, FS_CardinalityType
  <2> QED
    BY <2>1, SentFinite DEF Received, TypeOK
<1> QED
  BY <1>1, <1>2, SpawnTypeCorrect, StepReceived, PTL DEF Spec
===============================================================================

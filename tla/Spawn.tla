-------------------------------- MODULE Spawn ---------------------------------
(***************************************************************************)
(* Threads and the end of the program: rt_spawn and spawn_tramp            *)
(* (src/runtime.c), rt_thread_spawn and tramp (src/thread.c), the calls a  *)
(* worker makes on the interpreter (vm_call_closure, src/eval.c), and      *)
(* cmd_run (src/main.c), which frees the interpreter when main returns.    *)
(*                                                                         *)
(* The program is the shape of examples/threads.sq: main spawns the        *)
(* workers, each worker sends one message on a channel and ends, and main  *)
(* returns after it has received one message per worker (waits) or at any  *)
(* time (~waits).  The channel is Channel's: here only how many messages   *)
(* were sent and received, no worker blocking on a full ring.              *)
(***************************************************************************)
EXTENDS Naturals, FiniteSets

CONSTANTS Worker,
          Waits,          \* the kinds of main: TRUE for one that waits
          CreateMayFail   \* pthread_create may fail

ASSUME SpawnAssumption ==
  /\ IsFiniteSet(Worker) /\ "none" \notin Worker
  /\ Waits \subseteq BOOLEAN /\ CreateMayFail \in BOOLEAN

(* What cmd_run frees, in its order: vm_free frees the objects of the GC,  *)
(* the global environment and the VM; arena_free the AST.                  *)
Resource == {"objects", "env", "vm", "ast"}

VARIABLES main,       \* where the main thread is
          spawning,   \* the worker rt_spawn is at, or None
          thread,     \* where each worker is
          targ, sarg, \* its TrampArg and its SpawnArg: "none", "live", "freed"
          sent,       \* the workers whose message is in the channel, or was
          received,   \* how many messages main has received
          freed,      \* the resources that cmd_run has freed
          waits       \* main receives from every worker before it returns

None == "none"
vars == <<main, spawning, thread, targ, sarg, sent, received, freed, waits>>

Init == /\ main = "run"
        /\ spawning = None
        /\ thread = [w \in Worker |-> "unborn"]
        /\ targ = [w \in Worker |-> "none"]
        /\ sarg = [w \in Worker |-> "none"]
        /\ sent = {}
        /\ received = 0
        /\ freed = {}
        /\ waits \in Waits

At(w, l) == main # "exited" /\ thread[w] = l
Goto(w, l) == thread' = [thread EXCEPT ![w] = l]
-------------------------------------------------------------------------------
(* rt_spawn and rt_thread_spawn, up to pthread_create *)
SpawnArgs(w) ==
  /\ main = "run" /\ spawning = None
  /\ At(w, "unborn")
  /\ spawning' = w
  /\ sarg' = [sarg EXCEPT ![w] = "live"]
  /\ targ' = [targ EXCEPT ![w] = "live"]
  /\ UNCHANGED <<main, thread, sent, received, freed, waits>>

(* Seeded fault: the spawner frees the TrampArg on success too. *)
Bug_SpawnerFrees(w) ==
  /\ spawning = w
  /\ spawning' = None
  /\ Goto(w, "start")
  /\ targ' = [targ EXCEPT ![w] = "freed"]
  /\ UNCHANGED <<main, sarg, sent, received, freed, waits>>

CreateOk(w) ==
  /\ spawning = w
  /\ spawning' = None
  /\ Goto(w, "start")
  /\ UNCHANGED <<main, targ, sarg, sent, received, freed, waits>>

(* pthread_create fails: rt_thread_spawn frees ta and t and returns NULL,  *)
(* which rt_spawn ignores; the SpawnArg stays allocated.                   *)
CreateFails(w) ==
  /\ CreateMayFail
  /\ spawning = w
  /\ spawning' = None
  /\ Goto(w, "failed")
  /\ targ' = [targ EXCEPT ![w] = "freed"]
  /\ UNCHANGED <<main, sarg, sent, received, freed, waits>>

(* tramp: copy fn and arg out of the TrampArg, free it *)
Tramp(w) ==
  /\ At(w, "start")
  /\ targ' = [targ EXCEPT ![w] = "freed"]
  /\ Goto(w, "call")
  /\ UNCHANGED <<main, spawning, sarg, sent, received, freed, waits>>

(* spawn_tramp: vm_call_closure_noargs(sa->vm, sa->clos) up to the body *)
Enter(w) ==
  /\ At(w, "call")
  /\ Goto(w, "body")
  /\ UNCHANGED <<main, spawning, targ, sarg, sent, received, freed, waits>>

(* Seeded fault: the message is dropped. *)
Bug_SendLost(w) ==
  /\ At(w, "body")
  /\ Goto(w, "sent")
  /\ UNCHANGED <<main, spawning, targ, sarg, sent, received, freed, waits>>

(* The body evaluates [send c v] *)
Send(w) ==
  /\ At(w, "body")
  /\ sent' = sent \cup {w}
  /\ Goto(w, "sent")
  /\ UNCHANGED <<main, spawning, targ, sarg, received, freed, waits>>

(* Back in vm_call_closure: the loop over the body looks for another form *)
Unwind(w) ==
  /\ At(w, "sent")
  /\ Goto(w, "returned")
  /\ UNCHANGED <<main, spawning, targ, sarg, sent, received, freed, waits>>

(* free(sa), and the thread ends *)
FreeArg(w) ==
  /\ At(w, "returned")
  /\ sarg' = [sarg EXCEPT ![w] = "freed"]
  /\ Goto(w, "ended")
  /\ UNCHANGED <<main, spawning, targ, sent, received, freed, waits>>
-------------------------------------------------------------------------------
(* Seeded fault: recv does not wait for a message. *)
Bug_RecvNoWait ==
  /\ main = "run" /\ spawning = None
  /\ received < Cardinality(Worker)
  /\ received' = received + 1
  /\ UNCHANGED <<main, spawning, thread, targ, sarg, sent, freed, waits>>

(* main evaluates [recv c] *)
Recv ==
  /\ main = "run" /\ spawning = None
  /\ received < Cardinality(sent)
  /\ received' = received + 1
  /\ UNCHANGED <<main, spawning, thread, targ, sarg, sent, freed, waits>>

(* main has spawned its workers and returns to cmd_run *)
MainReturns ==
  /\ main = "run" /\ spawning = None
  /\ \A w \in Worker : thread[w] # "unborn"
  /\ waits => received = Cardinality(Worker)
  /\ main' = "vm_free"
  /\ UNCHANGED <<spawning, thread, targ, sarg, sent, received, freed, waits>>

(* vm_free: gc_free_all, env_free(global_env), free(vm) *)
VmFree ==
  /\ main = "vm_free"
  /\ IF "objects" \notin freed THEN freed' = freed \cup {"objects"}
     ELSE IF "env" \notin freed THEN freed' = freed \cup {"env"}
     ELSE freed' = freed \cup {"vm"}
  /\ main' = IF "vm" \in freed' THEN "arena_free" ELSE main
  /\ UNCHANGED <<spawning, thread, targ, sarg, sent, received, waits>>

ArenaFree ==
  /\ main = "arena_free"
  /\ freed' = freed \cup {"ast"}
  /\ main' = "return"
  /\ UNCHANGED <<spawning, thread, targ, sarg, sent, received, waits>>

(* return rc from cmd_run: the process ends, with every thread in it *)
Exit ==
  /\ main = "return"
  /\ main' = "exited"
  /\ UNCHANGED <<spawning, thread, targ, sarg, sent, received, freed, waits>>

MainStep == \/ \E w \in Worker : SpawnArgs(w) \/ CreateOk(w) \/ CreateFails(w)
            \/ Recv \/ MainReturns \/ VmFree \/ ArenaFree \/ Exit

WorkerStep(w) == Tramp(w) \/ Enter(w) \/ Send(w) \/ Unwind(w) \/ FreeArg(w)

Next == MainStep \/ \E w \in Worker : WorkerStep(w)

Spec == Init /\ [][Next]_vars

(* The operating system runs every thread that can run. *)
FairSpec == Spec /\ WF_vars(MainStep) /\ \A w \in Worker : WF_vars(WorkerStep(w))
-------------------------------------------------------------------------------
Places == {"unborn", "failed", "start", "call", "body", "sent", "returned", "ended"}

TypeOK == /\ main \in {"run", "vm_free", "arena_free", "return", "exited"}
          /\ spawning \in Worker \cup {None}
          /\ thread \in [Worker -> Places]
          /\ targ \in [Worker -> {"none", "live", "freed"}]
          /\ sarg \in [Worker -> {"none", "live", "freed"}]
          /\ sent \subseteq Worker
          /\ received \in Nat
          /\ freed \subseteq Resource
          /\ waits \in BOOLEAN

(* The two argument blocks change hands once: each is there while the new  *)
(* thread still reads it, whichever of the two threads runs first, and a   *)
(* worker that has ended leaves neither behind.                            *)
ArgsHandedOver == \A w \in Worker :
  /\ thread[w] = "start" => targ[w] = "live"
  /\ thread[w] \in {"start", "call", "body", "sent", "returned"} => sarg[w] = "live"
  /\ thread[w] = "ended" => targ[w] = "freed" /\ sarg[w] = "freed"

(* A program that receives from all its workers is torn down only after    *)
(* every message was sent.                                                 *)
TeardownAfterSends == waits /\ main # "run" => sent = Worker

(* Unless a thread could not be created, the program ends. *)
ProgramEnds == <>(main = "exited") \/ <>(\E w \in Worker : thread[w] = "failed")
===============================================================================

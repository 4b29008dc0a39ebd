----------------------------- MODULE SampleWork -----------------------------
(***************************************************************************)
(* The deferred-work samples: kernel_app/work_queue/hwork_queue.c, whose   *)
(* init queues one work that its exit flushes, and                         *)
(* kernel_app/tasklet/htasklet.c, which does the same with a tasklet.  The *)
(* worker and the softirq run next to insmod and rmmod.                    *)
(***************************************************************************)
VARIABLES
  wq,         \* where init or exit of hwork_queue is
  mem,        \* the memory test_wq points to
  work,       \* real_work: "idle", "queued" or "running"
  tk,         \* the same for htasklet
  tasklet     \* my_tasklet

workVars    == <<wq, mem, work>>
taskletVars == <<tk, tasklet>>
vars        == <<workVars, taskletVars>>

Init == /\ wq = "absent" /\ mem = "none" /\ work = "idle"
        /\ tk = "absent" /\ tasklet = "idle"

(* hwqueue_init: a failed kmalloc is not noticed, and INIT_WORK then       *)
(* writes through a null pointer.                                          *)
InsmodWork ==
  /\ wq = "absent"
  /\ \/ wq' = "init" /\ mem' = "allocated"
     \/ wq' = "oops" /\ mem' = "none"
  /\ UNCHANGED <<work, taskletVars>>

QueueWork ==
  /\ wq = "init" /\ wq' = "live"
  /\ work' = "queued"
  /\ UNCHANGED <<mem, taskletVars>>

(* thread_function, which sleeps before it reads arg *)
WorkStarts == work = "queued" /\ work' = "running"
              /\ UNCHANGED <<wq, mem, taskletVars>>
WorkEnds   == work = "running" /\ work' = "idle"
              /\ UNCHANGED <<wq, mem, taskletVars>>

(* hwqueue_exit *)
RmmodWork ==
  wq = "live" /\ wq' = "flush" /\ UNCHANGED <<mem, work, taskletVars>>

Flushed == work = "idle"

FlushWork ==
  /\ wq = "flush" /\ Flushed /\ wq' = "free"
  /\ UNCHANGED <<mem, work, taskletVars>>

FreeWork ==
  /\ wq = "free" /\ wq' = "absent"
  /\ mem' = "freed"
  /\ UNCHANGED <<work, taskletVars>>

(* htasklet_init and htasklet_exit: tasklet_kill waits for the tasklet. *)
InsmodTasklet == /\ tk = "absent" /\ tk' = "live" /\ tasklet' = "queued"
                 /\ UNCHANGED workVars
TaskletStarts == /\ tasklet = "queued" /\ tasklet' = "running"
                 /\ UNCHANGED <<tk, workVars>>
TaskletEnds   == /\ tasklet = "running" /\ tasklet' = "idle"
                 /\ UNCHANGED <<tk, workVars>>
RmmodTasklet  == /\ tk = "live" /\ tk' = "kill"
                 /\ UNCHANGED <<tasklet, workVars>>
KillTasklet   == /\ tk = "kill" /\ tasklet = "idle" /\ tk' = "absent"
                 /\ UNCHANGED <<tasklet, workVars>>

KernelStep == \/ QueueWork \/ WorkStarts \/ WorkEnds \/ FlushWork \/ FreeWork
              \/ TaskletStarts \/ TaskletEnds \/ KillTasklet

Next == KernelStep \/ InsmodWork \/ RmmodWork \/ InsmodTasklet \/ RmmodTasklet

(* The worker, the softirq and the waits of exit make progress. *)
Fairness ==
  /\ WF_vars(QueueWork) /\ WF_vars(WorkStarts) /\ WF_vars(WorkEnds)
  /\ WF_vars(FlushWork) /\ WF_vars(FreeWork)
  /\ WF_vars(TaskletStarts) /\ WF_vars(TaskletEnds) /\ WF_vars(KillTasklet)
-----------------------------------------------------------------------------
TypeOK ==
  /\ wq \in {"absent", "init", "live", "flush", "free", "oops"}
  /\ mem \in {"none", "allocated", "freed"}
  /\ work \in {"idle", "queued", "running"}
  /\ tk \in {"absent", "live", "kill"}
  /\ tasklet \in {"idle", "queued", "running"}

(* Work that is queued or running has its memory and its code. *)
NoStaleUse ==
  /\ work # "idle" => wq # "absent" /\ mem = "allocated"
  /\ tasklet # "idle" => tk # "absent"

(* Both exits return. *)
ExitsReturn ==
  (wq = "flush" ~> wq = "absent") /\ (tk = "kill" ~> tk = "absent")
=============================================================================

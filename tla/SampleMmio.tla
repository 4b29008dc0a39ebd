----------------------------- MODULE SampleMmio -----------------------------
(***************************************************************************)
(* The mmio sample (kernel_app/mmio/bmmio.c): init maps a physical address *)
(* and starts a thread that reads it, one that writes it, or both; exit    *)
(* stops them.  Both look at the module parameters addr and rw_flag, which *)
(* root may write while the module is loaded.                              *)
(*                                                                         *)
(* mmio_virt_addr is never unmapped, and once something has gone through a *)
(* bad pointer ("oops") nothing is said of what follows.                   *)
(***************************************************************************)
EXTENDS Integers

CONSTANTS
  Addrs,        \* addresses considered, 0 among them
  FixedMode     \* TRUE: no write to a parameter changes what exit looks at

VARIABLES
  mod,          \* where init or exit is
  addr, rw_flag,
  io,           \* mmio_virt_addr: "none", "mapped" or "null"
  pointer,      \* rd_thread and wr_thread point to a thread
  thread,       \* the thread itself
  stop          \* kthread_should_stop

vars == <<mod, addr, rw_flag, io, pointer, thread, stop>>

RW == {"rd", "wr"}
Creating(t) == IF t = "rd" THEN "create rd" ELSE "create wr"
Stopping(t) == IF t = "rd" THEN "stop rd" ELSE "stop wr"
Bit(t, flag) == IF t = "rd" THEN flag % 2 = 1 ELSE flag \div 2 = 1

Init ==
  /\ mod = "absent" /\ addr = 0 /\ rw_flag = 3 /\ io = "none"
  /\ pointer = [t \in RW |-> FALSE]
  /\ thread = [t \in RW |-> "none"] /\ stop = [t \in RW |-> FALSE]

Go(from, to) == mod = from /\ mod' = to

(* insmod, with parameters; the module's data are as in Init. *)
Insmod ==
  /\ Go("absent", "init")
  /\ addr' \in Addrs /\ rw_flag' \in 0..3
  /\ io' = "none" /\ pointer' = [t \in RW |-> FALSE]
  /\ UNCHANGED <<thread, stop>>

InitNoAddr ==
  /\ Go("init", "live") /\ addr = 0
  /\ UNCHANGED <<addr, rw_flag, io, pointer, thread, stop>>

(* ioremap may fail, which is not tested. *)
Ioremap ==
  /\ Go("init", "create rd") /\ addr # 0
  /\ io' \in {"mapped", "null"}
  /\ UNCHANGED <<addr, rw_flag, pointer, thread, stop>>

(* kthread_create returns a thread, or an error pointer, which is not NULL *)
(* and is woken all the same.                                              *)
After(t) == IF t = "rd" THEN "create wr" ELSE "live"

Create(t) ==
  /\ mod = Creating(t)
  /\ \/ /\ Bit(t, rw_flag)
        /\ pointer' = [pointer EXCEPT ![t] = TRUE]
        /\ \/ /\ mod' = After(t)
              /\ thread' = [thread EXCEPT ![t] = "new"]
              /\ stop' = [stop EXCEPT ![t] = FALSE]
           \/ mod' = "oops" /\ UNCHANGED <<thread, stop>>
     \/ /\ ~Bit(t, rw_flag) /\ mod' = After(t)
        /\ UNCHANGED <<pointer, thread, stop>>
  /\ UNCHANGED <<addr, rw_flag, io>>

(* rd_fn and wr_fn: they loop over the mapped word until they are stopped. *)
Run(t) ==
  /\ thread[t] = "new" /\ ~stop[t]
  /\ thread' = [thread EXCEPT ![t] = "running"]
  /\ UNCHANGED <<mod, addr, rw_flag, io, pointer, stop>>

Access(t) ==
  /\ thread[t] = "running" /\ io = "null"
  /\ mod' = "oops" /\ thread' = [thread EXCEPT ![t] = "none"]
  /\ UNCHANGED <<addr, rw_flag, io, pointer, stop>>

End(t) ==
  /\ thread[t] \in {"new", "running"} /\ stop[t]
  /\ thread' = [thread EXCEPT ![t] = "none"]
  /\ UNCHANGED <<mod, addr, rw_flag, io, pointer, stop>>

(* Root writes /sys/module/.../parameters. *)
SameMode(a, f) == f = rw_flag /\ (a = 0 <=> addr = 0)

WriteParams ==
  /\ mod = "live"
  /\ addr' \in Addrs /\ rw_flag' \in 0..3
  /\ FixedMode => SameMode(addr', rw_flag')
  /\ UNCHANGED <<mod, io, pointer, thread, stop>>

(* mmio_test_exit *)
Rmmod ==
  /\ Go("live", IF addr = 0 THEN "absent" ELSE "stop rd")
  /\ UNCHANGED <<addr, rw_flag, io, pointer, thread, stop>>

(* kthread_stop, of a pointer that may be NULL, waits for the thread. *)
OneStop(t)  == "absent"                \* mutant: the write thread is left
BothStop(t) == IF t = "rd" THEN "stop wr" ELSE "absent"

StopSkipped(t) ==
  /\ mod = Stopping(t) /\ ~Bit(t, rw_flag)
  /\ mod' = BothStop(t)
  /\ UNCHANGED <<addr, rw_flag, io, pointer, thread, stop>>

Other(t) == IF t = "rd" THEN "wr" ELSE "rd"
StopOther(t) == [stop EXCEPT ![Other(t)] = TRUE]   \* mutant: the wrong pointer
StopThis(t)  == [stop EXCEPT ![t] = TRUE]

KthreadStop(t) ==
  /\ mod = Stopping(t) /\ Bit(t, rw_flag) /\ ~stop[t]
  /\ \/ pointer[t] /\ stop' = StopThis(t) /\ UNCHANGED mod
     \/ ~pointer[t] /\ mod' = "oops" /\ UNCHANGED stop
  /\ UNCHANGED <<addr, rw_flag, io, pointer, thread>>

Stopped(t) ==
  /\ mod = Stopping(t) /\ stop[t] /\ thread[t] = "none"
  /\ mod' = BothStop(t)
  /\ UNCHANGED <<addr, rw_flag, io, pointer, thread, stop>>

ThreadStep(t) == Run(t) \/ Access(t) \/ End(t)
ModStep == \/ InitNoAddr \/ Ioremap
           \/ \E t \in RW : Create(t) \/ StopSkipped(t) \/ KthreadStop(t)
                            \/ Stopped(t)

Next == \/ mod # "oops" /\ (ModStep \/ \E t \in RW : ThreadStep(t))
        \/ Insmod \/ WriteParams \/ Rmmod

(* Kernel threads run. *)
Fairness == WF_vars(ModStep) /\ \A t \in RW : WF_vars(mod # "oops" /\ End(t))
-----------------------------------------------------------------------------
TypeOK ==
  /\ mod \in {"absent", "init", "create rd", "create wr", "live", "stop rd",
              "stop wr", "oops"}
  /\ addr \in Addrs /\ rw_flag \in 0..3
  /\ io \in {"none", "mapped", "null"}
  /\ pointer \in [RW -> BOOLEAN] /\ stop \in [RW -> BOOLEAN]
  /\ thread \in [RW -> {"none", "new", "running"}]

(* No thread outlives the module whose code it runs. *)
NoStaleUse == mod = "absent" => \A t \in RW : thread[t] = "none"

(* Exit returns, or dies. *)
ExitsReturn == mod \in {"stop rd", "stop wr"} ~> mod \in {"absent", "oops"}
=============================================================================

------------------------------- MODULE VfioMsi -------------------------------
(***************************************************************************)
(* MSI and MSI-X delivery of one open vfio-pci device                      *)
(* (kernel_app/lock/vfio_pci_intrs.c, lines 239-402 and 497-546).          *)
(*                                                                         *)
(* igate makes the SET_IRQS calls one thread; what runs beside it is the   *)
(* interrupt handler of every vector.  A call works through a block of     *)
(* vectors, one vfio_msi_set_vector_signal after the other, each of which  *)
(* can fail half way.                                                      *)
(***************************************************************************)
EXTENDS Integers, FiniteSets

CONSTANTS
  EventFds,     \* eventfds the user can install
  NoFd,         \* fd = -1 on the way in, a NULL trigger in ctx[]
  MaxVectors,   \* vectors the device has (vfio_pci_get_irq_count)
  NoIntxKinds,  \* values of vdev->nointx considered
  PartialKinds  \* values of nointx for which the platform may grant fewer
                \* vectors than asked for

ASSUME MsiAssumption == /\ NoFd \notin EventFds
                        /\ MaxVectors \in Nat \ {0}
                        /\ NoIntxKinds \subseteq BOOLEAN
                        /\ PartialKinds \subseteq BOOLEAN

Vectors == 0..MaxVectors - 1
Fds     == EventFds \union {NoFd}
Modes   == {"msi", "msix"}

VARIABLES
  nointx,     \* vdev->nointx: INTx is hidden and DisINTx must stay set
  disintx,    \* PCI_COMMAND_INTX_DISABLE in the physical device
  vectors,    \* vectors allocated from the interrupt core
  action,     \* action[v]: the eventfd vfio_msihandler is requested with
  running,    \* running[v]: the eventfd its running handler will signal
  irq_type, num_ctx, msi_qmax,
  trigger,    \* ctx[v].trigger
  producer,   \* ctx[v].producer is registered with irq bypass
  refs,       \* eventfd_ctx references the driver holds
  pc, phase,  \* where the SET_IRQS call is, and in which loop
  j,          \* the vector that loop is at
  call,       \* its arguments, and the triggers it found
  ret,        \* what vfio_msi_set_block returns
  signalled   \* eventfds signalled and not yet read by the user

hwVars  == <<nointx, disintx, vectors>>
irqVars == <<action, running>>
devVars == <<irq_type, num_ctx, msi_qmax>>
ctxVars == <<trigger, producer, refs>>
pcVars  == <<pc, phase, j, call, ret>>
vars    == <<hwVars, irqVars, devVars, ctxVars, pcVars, signalled>>

NoCall == [start |-> 0, count |-> 0, fds |-> <<>>, fresh |-> FALSE,
           before |-> [v \in Vectors |-> NoFd]]

Init ==
  /\ nointx \in NoIntxKinds /\ disintx = nointx
  /\ vectors = 0
  /\ action = [v \in Vectors |-> NoFd] /\ running = [v \in Vectors |-> NoFd]
  /\ irq_type = "none" /\ num_ctx = 0 /\ msi_qmax = 0
  /\ trigger = [v \in Vectors |-> NoFd]
  /\ producer = [v \in Vectors |-> FALSE]
  /\ refs = [fd \in EventFds |-> 0]
  /\ pc = "idle" /\ phase = "install" /\ j = 0 /\ call = NoCall /\ ret = "ok"
  /\ signalled = {}

-----------------------------------------------------------------------------
(* The most significant bit set in n, counted from 1 (the kernel's fls). *)
fls[n \in Nat] == IF n = 0 THEN 0 ELSE 1 + fls[n \div 2]

Qmax(nvec)      == fls[nvec * 2 - 1] - 1

(* vfio_pci_set_msi_trigger with DATA_EVENTFD, device in no mode:          *)
(* vfio_msi_enable gets all vectors, then vfio_msi_set_block is called.  A *)
(* count of 0 passes the ioctl's validation and is refused by set_block.   *)
EnableMode(index, start, count, fds) ==
  /\ pc = "idle" /\ irq_type = "none"
  /\ start + count > 0
  /\ vectors' = start + count /\ disintx' = TRUE
  /\ num_ctx' = start + count /\ irq_type' = index
  /\ msi_qmax' = IF index = "msi" THEN Qmax(start + count) ELSE msi_qmax
  /\ call' = [start |-> start, count |-> count, fds |-> fds, fresh |-> TRUE,
              before |-> trigger]
  /\ phase' = "install" /\ j' = start
  /\ pc' = IF count = 0 THEN "return" ELSE "free"
  /\ ret' = IF count = 0 THEN "fail" ELSE "ok"
  /\ UNCHANGED <<nointx, irqVars, ctxVars, signalled>>

(* pci_alloc_irq_vectors grants some: they are given back, and the call    *)
(* returns their number.  The MSI shutdown path clears DisINTx.            *)
EnablePartial ==
  /\ nointx \in PartialKinds /\ MaxVectors > 1
  /\ pc = "idle" /\ irq_type = "none"
  /\ disintx' = FALSE
  /\ UNCHANGED <<nointx, vectors, irqVars, devVars, ctxVars, pcVars, signalled>>

(* vfio_msi_set_block on a device already in the mode *)
SetBlock(start, count, fds) ==
  /\ pc = "idle" /\ irq_type \in Modes
  /\ start < num_ctx /\ start + count <= num_ctx
  /\ call' = [start |-> start, count |-> count, fds |-> fds, fresh |-> FALSE,
              before |-> trigger]
  /\ phase' = "install" /\ j' = start /\ ret' = "ok"
  /\ pc' = IF count = 0 THEN "return" ELSE "free"
  /\ UNCHANGED <<hwVars, irqVars, devVars, ctxVars, signalled>>

(* vfio_msi_disable, from SET_IRQS with count 0 or from vfio_pci_disable:  *)
(* set_block(0, num_ctx, NULL), then the vectors and the mode.             *)
StartDisable ==
  /\ pc = "idle" /\ irq_type \in Modes
  /\ phase' = "teardown" /\ j' = 0 /\ pc' = "free"
  /\ UNCHANGED <<hwVars, irqVars, devVars, ctxVars, call, ret, signalled>>

(* Loopback, DATA_NONE or DATA_BOOL: the chosen vectors with a trigger *)
Loopback(chosen) ==
  /\ pc = "idle" /\ irq_type \in Modes
  /\ chosen \subseteq 0..num_ctx - 1
  /\ signalled' = signalled \union ({trigger[v] : v \in chosen} \ {NoFd})
  /\ UNCHANGED <<hwVars, irqVars, devVars, ctxVars, pcVars>>

-----------------------------------------------------------------------------
(* vfio_msi_set_vector_signal(j, Fd) *)

Fd == IF phase = "install" THEN call.fds[j - call.start + 1] ELSE NoFd

SameVector == j                       \* mutant: the loop does not advance
NextVector == j + 1

UndoPastStart == j >= call.start      \* mutant: one vector too many
MoreToUndo    == j > call.start

SpareLast == j + 2 < num_ctx          \* mutant: one vector too few
MoreToTearDown == j + 1 < num_ctx

(* It has returned 0: the enclosing loop goes on, or ends. *)
Goto(more, next, end) ==
  IF more THEN j' = next /\ pc' = "free" ELSE j' = j /\ pc' = end

Succeed ==
  \/ /\ phase = "install"
     /\ Goto(j + 1 < call.start + call.count, NextVector, "return")
  \/ /\ phase = "undo"
     /\ Goto(MoreToUndo, j - 1, "return")
  \/ /\ phase = "teardown"
     /\ Goto(MoreToTearDown, j + 1, "free_vectors")

(* It has failed: set_block takes down what it has set up, the failing     *)
(* vector included.                                                        *)
FailKeepsBlock == phase' = phase /\ ret' = "fail" /\ j' = j /\ pc' = "return"
    \* mutant: no rollback
Fail == phase' = "undo" /\ ret' = "fail" /\ j' = j /\ pc' = "free"

SkipFree ==
  /\ pc = "free" /\ trigger[j] = NoFd
  /\ pc' = "get"
  /\ UNCHANGED <<hwVars, irqVars, devVars, ctxVars, phase, j, call, ret,
                 signalled>>

(* free_irq takes the handler off the vector ... *)
NotFreed == action                    \* mutant: free_irq is not called
Freed    == [action EXCEPT ![j] = NoFd]

FreeIrq ==
  /\ pc = "free" /\ trigger[j] # NoFd
  /\ action' = Freed
  /\ pc' = "sync"
  /\ UNCHANGED <<hwVars, running, devVars, ctxVars, phase, j, call, ret,
                 signalled>>

(* ... and returns when it no longer runs. *)
HandlerDone == running[j] = NoFd

Synchronize ==
  /\ pc = "sync" /\ HandlerDone
  /\ pc' = "put"
  /\ UNCHANGED <<hwVars, irqVars, devVars, ctxVars, phase, j, call, ret,
                 signalled>>

ForgetReference(fd) == refs           \* mutant: the eventfd is not put
DropReference(fd) == [refs EXCEPT ![fd] = @ - 1]

PutTrigger ==
  /\ pc = "put"
  /\ producer' = [producer EXCEPT ![j] = FALSE]
  /\ refs' = DropReference(trigger[j])
  /\ trigger' = [trigger EXCEPT ![j] = NoFd]
  /\ pc' = "get"
  /\ UNCHANGED <<hwVars, irqVars, devVars, phase, j, call, ret, signalled>>

DisableOnly ==
  /\ pc = "get" /\ Fd = NoFd
  /\ Succeed
  /\ UNCHANGED <<hwVars, irqVars, devVars, ctxVars, phase, call, ret,
                 signalled>>

(* kasprintf or eventfd_ctx_fdget fails *)
GetFails ==
  /\ pc = "get" /\ Fd # NoFd
  /\ Fail
  /\ UNCHANGED <<hwVars, irqVars, devVars, ctxVars, call, signalled>>

GetTrigger ==
  /\ pc = "get" /\ Fd # NoFd
  /\ refs' = [refs EXCEPT ![Fd] = @ + 1]
  /\ pc' = "request"
  /\ UNCHANGED <<hwVars, irqVars, devVars, trigger, producer, phase, j, call,
                 ret, signalled>>

RequestIrq ==
  /\ pc = "request"
  /\ action' = [action EXCEPT ![j] = Fd]
  /\ pc' = "register"
  /\ UNCHANGED <<hwVars, running, devVars, ctxVars, phase, j, call, ret,
                 signalled>>

RequestFails ==
  /\ pc = "request"
  /\ refs' = DropReference(Fd)
  /\ Fail
  /\ UNCHANGED <<hwVars, irqVars, devVars, trigger, producer, call, signalled>>

(* A failed bypass registration is only logged. *)
RegisterProducer ==
  /\ pc = "register"
  /\ \E registered \in BOOLEAN :
       producer' = [producer EXCEPT ![j] = registered]
  /\ trigger' = [trigger EXCEPT ![j] = Fd]
  /\ Succeed
  /\ UNCHANGED <<hwVars, irqVars, devVars, refs, phase, call, ret, signalled>>

-----------------------------------------------------------------------------
(* The end of a call: a block that failed right after vfio_msi_enable      *)
(* takes the device out of the mode again.                                 *)
ReturnToUser ==
  /\ pc = "return" /\ ~(ret = "fail" /\ call.fresh)
  /\ pc' = "idle" /\ call' = NoCall /\ phase' = "install" /\ j' = 0
  /\ ret' = "ok"
  /\ UNCHANGED <<hwVars, irqVars, devVars, ctxVars, signalled>>

ReturnToDisable ==
  /\ pc = "return" /\ ret = "fail" /\ call.fresh
  /\ phase' = "teardown" /\ j' = 0 /\ pc' = "free"
  /\ UNCHANGED <<hwVars, irqVars, devVars, ctxVars, call, ret, signalled>>

(* pci_free_irq_vectors, which clears DisINTx on its way ... *)
FreeVectors ==
  /\ pc = "free_vectors"
  /\ vectors' = 0 /\ disintx' = FALSE
  /\ pc' = "leave"
  /\ UNCHANGED <<nointx, irqVars, devVars, ctxVars, phase, j, call, ret,
                 signalled>>

(* ... so a NoINTx device gets it back, and the mode is left. *)
IntxNotRestored == disintx            \* mutant: vdev->nointx is not looked at
IntxRestored    == nointx \/ disintx

LeaveMode ==
  /\ pc = "leave"
  /\ disintx' = IntxRestored
  /\ irq_type' = "none" /\ num_ctx' = 0
  /\ pc' = "idle" /\ call' = NoCall /\ phase' = "install" /\ j' = 0
  /\ ret' = "ok"
  /\ UNCHANGED <<nointx, vectors, irqVars, msi_qmax, ctxVars, signalled>>

-----------------------------------------------------------------------------
(* vfio_msihandler *)

Interrupt(v) ==
  /\ v < vectors /\ action[v] # NoFd /\ running[v] = NoFd
  /\ running' = [running EXCEPT ![v] = action[v]]
  /\ UNCHANGED <<hwVars, action, devVars, ctxVars, pcVars, signalled>>

HandlerSignals(v) ==
  /\ running[v] # NoFd
  /\ signalled' = signalled \union {running[v]}
  /\ running' = [running EXCEPT ![v] = NoFd]
  /\ UNCHANGED <<hwVars, action, devVars, ctxVars, pcVars>>

UserReads ==
  /\ signalled # {}
  /\ signalled' = {}
  /\ UNCHANGED <<hwVars, irqVars, devVars, ctxVars, pcVars>>

-----------------------------------------------------------------------------
(* One vector at a time, and the end of the call *)
VectorStep == \/ SkipFree \/ FreeIrq \/ Synchronize \/ PutTrigger
              \/ DisableOnly \/ GetFails \/ GetTrigger
              \/ RequestIrq \/ RequestFails \/ RegisterProducer
EndStep    == ReturnToUser \/ ReturnToDisable \/ FreeVectors \/ LeaveMode

StartEventfds ==
  \E start \in Vectors : \E count \in 0..MaxVectors - start :
    \E fds \in [1..count -> Fds] :
      \/ SetBlock(start, count, fds)
      \/ \E index \in Modes : EnableMode(index, start, count, fds)

Next == \/ StartEventfds \/ EnablePartial \/ StartDisable
        \/ \E chosen \in SUBSET Vectors : Loopback(chosen)
        \/ VectorStep \/ EndStep
        \/ \E v \in Vectors : Interrupt(v) \/ HandlerSignals(v)
        \/ UserReads

Spec == Init /\ [][Next]_vars

(* A call keeps running, and a handler that was entered returns. *)
FairSpec == /\ Spec
            /\ WF_vars(VectorStep) /\ WF_vars(EndStep)
            /\ \A v \in Vectors : WF_vars(HandlerSignals(v))

-----------------------------------------------------------------------------
(* The values of every variable but msi_qmax *)
Ranges ==
  /\ nointx \in NoIntxKinds /\ disintx \in BOOLEAN
  /\ vectors \in 0..MaxVectors
  /\ action \in [Vectors -> Fds] /\ running \in [Vectors -> Fds]
  /\ irq_type \in Modes \union {"none"}
  /\ num_ctx \in 0..MaxVectors
  /\ trigger \in [Vectors -> Fds] /\ producer \in [Vectors -> BOOLEAN]
  /\ refs \in [EventFds -> Nat]
  /\ pc \in {"idle", "free", "sync", "put", "get", "request", "register",
             "return", "free_vectors", "leave"}
  /\ phase \in {"install", "undo", "teardown"}
  /\ j \in Vectors
  /\ call.start \in Vectors /\ call.count \in 0..MaxVectors - call.start
  /\ call.fds \in [1..call.count -> Fds] /\ call.fresh \in BOOLEAN
  /\ call.before \in [Vectors -> Fds]
  /\ ret \in {"ok", "fail"}
  /\ signalled \subseteq EventFds

(* The smallest power of two that covers n vectors *)
Covers(qmax, n) == n <= 2 ^ qmax /\ (qmax > 0 => 2 ^ (qmax - 1) < n)

(* Every variable keeps to its values; the loops of set_block and disable  *)
(* stay within ctx[], no eventfd is put more often than it was got, and    *)
(* the virtual MSI capability shows the smallest power of two that covers  *)
(* the vectors (vfio_pci_intrs.c:276-281).                                 *)
TypeOK ==
  /\ Ranges
  /\ msi_qmax \in Nat
  /\ irq_type = "msi" => Covers(msi_qmax, num_ctx)

(* The references held on an eventfd are exactly those of the vectors it   *)
(* triggers, plus the one a vector being set up has taken: no path of      *)
(* set_vector_signal, set_block's rollback or disable leaks or over-puts.  *)
InHand(fd) == IF pc \in {"request", "register"} /\ Fd = fd THEN 1 ELSE 0

ReferencesBalance ==
  \A fd \in EventFds :
    refs[fd] = Cardinality({v \in Vectors : trigger[v] = fd}) + InHand(fd)

(* A handler only ever signals an eventfd the driver still holds.          *)
SignalsLiveEventfd ==
  \A v \in Vectors : running[v] # NoFd => refs[running[v]] > 0

(* set_block is all or nothing.  When it succeeds the block triggers what  *)
(* was asked for; when it fails no vector of the block has a new trigger;  *)
(* a vector outside the block never changes.                               *)
Block == call.start .. call.start + call.count - 1

BlockAllOrNothing ==
  pc = "return" =>
    /\ \A v \in Vectors \ Block : trigger[v] = call.before[v]
    /\ ret = "ok" => \A v \in Block : trigger[v] = call.fds[v - call.start + 1]
    /\ ret = "fail" => \A v \in Block : trigger[v] \in {NoFd, call.before[v]}
    /\ action = trigger

(* Between calls a NoINTx device has DisINTx set (vfio_pci.c:189-191,      *)
(* vfio_pci_intrs.c:392-397).                                              *)
NoIntxStaysDisabled == nointx /\ pc = "idle" => disintx

(* Every call returns, however its vectors fail and its handlers run.      *)
CallsReturn == pc # "idle" ~> pc = "idle"

-----------------------------------------------------------------------------
(* MSI and MSI-X implement the interrupt life cycle. *)
Life == INSTANCE IrqLifecycle
          WITH NoMode <- "none", mode <- irq_type,
               handlers <- {v \in Vectors : action[v] # NoFd}

LifeSpec == Life!AbsSpec
=============================================================================

--------------------------- MODULE VfioIntxProofs ---------------------------
(***************************************************************************)
(* VfioIntx for every set of eventfds, both kinds of device and every user. *)
(***************************************************************************)
EXTENDS VfioIntx, TLAPS

(* The places a step can lead to, and the threads, by name. *)
LEMMA StepNames ==
  /\ Steps = {"idle", "oops", "mask", "mask_intx", "mask_other", "unmask",
              "unmask_intx", "unmask_other", "send", "signal", "irq",
              "en_hw", "en_type", "sig_free", "sig_put", "sig_get", "sig_req",
              "sig_relock", "dis_fd", "dis_type", "dis_free"}
  /\ "ioctl" \in Threads /\ "config" \in Threads
  /\ "virqfd" \in Threads /\ "irq" \in Threads
BY DEF Steps, Threads

(* A move of one thread to a known place keeps pc well typed. *)
LEMMA GoType ==
  ASSUME pc \in [Threads -> Steps], NEW t, NEW from, NEW to \in Steps,
         Go(t, from, to)
  PROVE  pc' \in [Threads -> Steps]
BY DEF Go

(* disable_irq and enable_irq keep the nesting within its bound. *)
LEMMA DepthBound ==
  ASSUME depth \in 0..MaxDepth
  PROVE  Deeper \in 0..MaxDepth /\ Shallower \in 0..MaxDepth
BY IntxAssumption DEF Deeper, Shallower

(* Every variable of the INTx path keeps its type. *)
THEOREM TypeCorrect == Spec => []TypeOK
<1>1. Init => TypeOK
  <2>. SUFFICES ASSUME Init PROVE TypeOK
    OBVIOUS
  <2>1. pc \in [Threads -> Steps]
    BY StepNames DEF Init
  <2>2. depth \in 0..MaxDepth
    BY IntxAssumption DEF Init
  <2>. QED
    BY <2>1, <2>2 DEF Init, TypeOK, Fds
<1>2. TypeOK /\ [Next]_vars => TypeOK'
  <2>. SUFFICES ASSUME TypeOK, [Next]_vars PROVE TypeOK'
    OBVIOUS
  <2>. USE DEF TypeOK, devVars, hwVars, ctxVars, callVars, userVars
  <2>1. ASSUME NEW t \in Threads, MaskLock(t) PROVE TypeOK'
    BY <2>1, GoType, StepNames DEF MaskLock
  <2>2. ASSUME NEW t \in Threads, MaskOther(t) PROVE TypeOK'
    BY <2>2, GoType, StepNames DEF MaskOther
  <2>3. ASSUME NEW t \in Threads, MaskIntx(t) PROVE TypeOK'
    BY <2>3, GoType, StepNames, DepthBound DEF MaskIntx
  <2>4. ASSUME NEW t \in Threads, UnmaskLock(t) PROVE TypeOK'
    BY <2>4, GoType, StepNames DEF UnmaskLock
  <2>5. ASSUME NEW t \in Threads, UnmaskOther(t) PROVE TypeOK'
    BY <2>5, GoType, StepNames DEF UnmaskOther
  <2>6. ASSUME NEW t \in Threads, UnmaskIntx(t) PROVE TypeOK'
    BY <2>6, GoType, StepNames, DepthBound DEF UnmaskIntx
  <2>7. ASSUME NEW t \in Threads, UnmaskPending(t) PROVE TypeOK'
    BY <2>7, GoType, StepNames DEF UnmaskPending, AfterPending
  <2>8. ASSUME NEW t \in Threads, SendCheck(t) PROVE TypeOK'
    BY <2>8, GoType, StepNames DEF SendCheck
  <2>9. ASSUME NEW t \in Threads, Signal(t) PROVE TypeOK'
    <3>1. pc' \in [Threads -> Steps]
      BY <2>9, GoType, StepNames DEF Signal
    <3>2. pending' \subseteq EventFds
      BY <2>9 DEF Signal, HasTrigger, Fds
    <3>. QED BY <2>9, <3>1, <3>2 DEF Signal
  <2>10. CASE IrqHandled
    BY <2>10, GoType, StepNames, DepthBound DEF IrqHandled
  <2>11. CASE IrqNone
    BY <2>11, GoType, StepNames DEF IrqNone
  <2>12. CASE EnableHw
    BY <2>12, GoType, StepNames DEF EnableHw, DisIntxRestored
  <2>13. CASE EnableType
    BY <2>13, GoType, StepNames DEF EnableType
  <2>14. CASE SigFree
    BY <2>14, GoType, StepNames DEF SigFree, ActionFreed
  <2>15. CASE SigPut
    <3>1. pc' \in [Threads -> Steps]
      BY <2>15, GoType, StepNames DEF SigPut
    <3>. QED BY <2>15, <3>1 DEF SigPut, Fds
  <2>16. CASE SigDisableOnly
    BY <2>16, GoType, StepNames DEF SigDisableOnly, AfterSignal
  <2>17. CASE SigNoTrigger
    BY <2>17, GoType, StepNames DEF SigNoTrigger, AfterError
  <2>18. CASE SigGet
    BY <2>18, GoType, StepNames DEF SigGet
  <2>19. CASE SigRequest
    BY <2>19, GoType, StepNames, IntxAssumption DEF SigRequest
  <2>20. CASE SigRequestFails
    <3>1. pc' \in [Threads -> Steps]
      BY <2>20, GoType, StepNames DEF SigRequestFails, AfterError
    <3>. QED BY <2>20, <3>1 DEF SigRequestFails, Fds
  <2>21. CASE SigRelock
    BY <2>21, GoType, StepNames, DepthBound DEF SigRelock
  <2>22. CASE DisableFd
    BY <2>22, GoType, StepNames DEF DisableFd, VirqfdFlushed, Fds
  <2>23. CASE DisableType
    BY <2>23, GoType, StepNames DEF DisableType
  <2>24. CASE DisableFree
    BY <2>24, GoType, StepNames DEF DisableFree
  <2>25. ASSUME NEW fd \in Fds, EnableAlloc(fd) PROVE TypeOK'
    BY <2>25, GoType, StepNames DEF EnableAlloc, Call, Fds
  <2>26. ASSUME NEW fd \in Fds, StartSetSignal(fd) PROVE TypeOK'
    BY <2>26, GoType, StepNames DEF StartSetSignal, Call
  <2>27. CASE StartDisable
    BY <2>27, GoType, StepNames DEF StartDisable, Call
  <2>28. CASE StartMask
    BY <2>28, GoType, StepNames DEF StartMask, Call
  <2>29. CASE StartUnmask
    BY <2>29, GoType, StepNames DEF StartUnmask, Call
  <2>30. CASE StartLoopback
    BY <2>30, GoType, StepNames DEF StartLoopback, Call
  <2>31. CASE VirqfdEnable
    BY <2>31, GoType, StepNames DEF VirqfdEnable, Call
  <2>32. CASE VirqfdDisable
    BY <2>32, GoType, StepNames DEF VirqfdDisable, Call, VirqfdFlushed
  <2>33. CASE IrqEnter
    BY <2>33, GoType, StepNames DEF IrqEnter
  <2>34. CASE VirqfdWake
    BY <2>34, GoType, StepNames DEF VirqfdWake
  <2>35. CASE ConfigWrite
    BY <2>35, GoType, StepNames DEF ConfigWrite
  <2>36. CASE DeviceAssert
    BY <2>36, GoType, StepNames DEF DeviceAssert
  <2>37. CASE UserService
    BY <2>37, GoType, StepNames DEF UserService
  <2>38. CASE Dead \/ UNCHANGED vars
    BY <2>38, GoType, StepNames DEF Dead, vars
  <2>. QED
    BY <2>1, <2>2, <2>3, <2>4, <2>5, <2>6, <2>7, <2>8, <2>9, <2>10, <2>11,
       <2>12, <2>13, <2>14, <2>15, <2>16, <2>17, <2>18, <2>19, <2>20, <2>21,
       <2>22, <2>23, <2>24, <2>25, <2>26, <2>27, <2>28, <2>29, <2>30, <2>31,
       <2>32, <2>33, <2>34, <2>35, <2>36, <2>37, <2>38
       DEF Next, Kernel, MaskStep, UnmaskStep, SendStep, IrqStep, EnableStep,
           SignalStep, DisableStep, StartConfig, StartCall
<1>. QED
  BY <1>1, <1>2, PTL DEF Spec

(* The order in which enable, set_signal and disable build up and take     *)
(* down the interrupt context is inductive.                                *)
THEOREM ContextCorrect == Spec => []ContextInv
<1>1. Init => ContextInv
  BY DEF Init, ContextInv, HandlerPinsContext, VirqfdPinsContext, IoctlPlaces,
         IsIntx, Threads
<1>2. TypeOK /\ ContextInv /\ [Next]_vars => ContextInv'
  <2>. SUFFICES ASSUME TypeOK, ContextInv, [Next]_vars PROVE ContextInv'
    OBVIOUS
  <2>. USE DEF ContextInv, HandlerPinsContext, VirqfdPinsContext,
           IoctlPlaces, TypeOK, IsIntx, Go, Fds, Threads,
           devVars, hwVars, ctxVars, callVars, userVars
  <2>1. ASSUME NEW t \in Threads, MaskLock(t) PROVE ContextInv'
    BY <2>1 DEF MaskLock
  <2>2. ASSUME NEW t \in Threads, MaskOther(t) PROVE ContextInv'
    BY <2>2 DEF MaskOther
  <2>3. ASSUME NEW t \in Threads, MaskIntx(t) PROVE ContextInv'
    BY <2>3 DEF MaskIntx
  <2>4. ASSUME NEW t \in Threads, UnmaskLock(t) PROVE ContextInv'
    BY <2>4 DEF UnmaskLock
  <2>5. ASSUME NEW t \in Threads, UnmaskOther(t) PROVE ContextInv'
    BY <2>5 DEF UnmaskOther
  <2>6. ASSUME NEW t \in Threads, UnmaskIntx(t) PROVE ContextInv'
    BY <2>6 DEF UnmaskIntx
  <2>7. ASSUME NEW t \in Threads, UnmaskPending(t) PROVE ContextInv'
    BY <2>7 DEF UnmaskPending, AfterPending
  <2>8. ASSUME NEW t \in Threads, SendCheck(t) PROVE ContextInv'
    BY <2>8 DEF SendCheck
  <2>9. ASSUME NEW t \in Threads, Signal(t) PROVE ContextInv'
    BY <2>9 DEF Signal, HasTrigger
  <2>10. CASE IrqHandled
    BY <2>10 DEF IrqHandled
  <2>11. CASE IrqNone
    BY <2>11 DEF IrqNone
  <2>12. CASE EnableHw
    BY <2>12 DEF EnableHw, DisIntxRestored
  <2>13. CASE EnableType
    BY <2>13 DEF EnableType
  <2>14. CASE SigFree
    BY <2>14 DEF SigFree, ActionFreed
  <2>15. CASE SigPut
    BY <2>15 DEF SigPut
  <2>16. CASE SigDisableOnly
    BY <2>16 DEF SigDisableOnly, AfterSignal
  <2>17. CASE SigNoTrigger
    BY <2>17 DEF SigNoTrigger, AfterError
  <2>18. CASE SigGet
    BY <2>18 DEF SigGet
  <2>19. CASE SigRequest
    BY <2>19 DEF SigRequest
  <2>20. CASE SigRequestFails
    BY <2>20 DEF SigRequestFails, AfterError
  <2>21. CASE SigRelock
    BY <2>21 DEF SigRelock
  <2>22. CASE DisableFd
    BY <2>22 DEF DisableFd, VirqfdFlushed
  <2>23. CASE DisableType
    BY <2>23 DEF DisableType
  <2>24. CASE DisableFree
    BY <2>24 DEF DisableFree
  <2>25. ASSUME NEW fd \in Fds, EnableAlloc(fd) PROVE ContextInv'
    BY <2>25 DEF EnableAlloc, Call
  <2>26. ASSUME NEW fd \in Fds, StartSetSignal(fd) PROVE ContextInv'
    BY <2>26 DEF StartSetSignal, Call
  <2>27. CASE StartDisable
    BY <2>27 DEF StartDisable, Call
  <2>28. CASE StartMask
    BY <2>28 DEF StartMask, Call
  <2>29. CASE StartUnmask
    BY <2>29 DEF StartUnmask, Call
  <2>30. CASE StartLoopback
    BY <2>30 DEF StartLoopback, Call
  <2>31. CASE VirqfdEnable
    BY <2>31 DEF VirqfdEnable, Call
  <2>32. CASE VirqfdDisable
    BY <2>32 DEF VirqfdDisable, Call, VirqfdFlushed
  <2>33. CASE IrqEnter
    BY <2>33 DEF IrqEnter
  <2>34. CASE VirqfdWake
    BY <2>34 DEF VirqfdWake
  <2>35. CASE ConfigWrite
    BY <2>35 DEF ConfigWrite
  <2>36. CASE DeviceAssert
    BY <2>36 DEF DeviceAssert
  <2>37. CASE UserService
    BY <2>37 DEF UserService
  <2>38. CASE Dead \/ UNCHANGED vars
    BY <2>38 DEF Dead, vars
  <2>. QED
    BY <2>1, <2>2, <2>3, <2>4, <2>5, <2>6, <2>7, <2>8, <2>9, <2>10, <2>11,
       <2>12, <2>13, <2>14, <2>15, <2>16, <2>17, <2>18, <2>19, <2>20, <2>21,
       <2>22, <2>23, <2>24, <2>25, <2>26, <2>27, <2>28, <2>29, <2>30, <2>31,
       <2>32, <2>33, <2>34, <2>35, <2>36, <2>37, <2>38
       DEF Next, Kernel, MaskStep, UnmaskStep, SendStep, IrqStep, EnableStep,
           SignalStep, DisableStep, StartConfig, StartCall
<1>. QED
  BY <1>1, <1>2, TypeCorrect, PTL DEF Spec

(* Neither asynchronous callback ever runs on a context that is not live,  *)
(* whatever ioctls, config writes and interrupts overlap.                  *)
THEOREM CallbacksSafe == Spec => []CallbacksSeeLiveContext
<1>1. ContextInv => CallbacksSeeLiveContext
  BY DEF ContextInv, HandlerPinsContext, VirqfdPinsContext,
         CallbacksSeeLiveContext
<1>. QED
  BY <1>1, ContextCorrect, PTL

(* INTx implements the interrupt life cycle: the mode changes only with no *)
(* handler installed, and a handler is installed only in INTx mode.        *)
THEOREM ImplementsLifecycle == Spec => LifeSpec
<1>. USE DEF Life!absVars
<1>1. Init => Life!AbsInit
  BY DEF Init, Life!AbsInit
<1>2. TypeOK /\ ContextInv /\ [Next]_vars => [Life!AbsNext]_(Life!absVars)
  <2>. SUFFICES ASSUME TypeOK, ContextInv, Next
                PROVE  Life!AbsNext \/ UNCHANGED Life!absVars
    BY DEF vars, hwVars
  <2>1. CASE EnableType
    <3>1. Life!Select("intx")
      BY <2>1 DEF EnableType, Life!Select, ContextInv, IoctlPlaces,
                  HandlerPinsContext, TypeOK, IsIntx, Go, hwVars
    <3>. QED BY <3>1 DEF Life!AbsNext
  <2>2. CASE SigRequest
    <3>1. Life!Install(0)
      BY <2>2 DEF SigRequest, Life!Install, ContextInv, IoctlPlaces, IsIntx, Go
    <3>. QED BY <3>1 DEF Life!AbsNext
  <2>3. CASE SigFree
    <3>1. CASE action /\ ~action'
      <4>1. Life!Uninstall(0)
        BY <2>3, <3>1 DEF SigFree, Life!Uninstall
      <4>. QED BY <4>1 DEF Life!AbsNext
    <3>2. CASE action' = action
      BY <2>3, <3>2 DEF SigFree
    <3>. QED
      BY <2>3, <3>1, <3>2 DEF SigFree, ActionFreed, TypeOK
  <2>4. CASE DisableType
    <3>1. Life!Leave
      BY <2>4 DEF DisableType, Life!Leave, ContextInv, IoctlPlaces,
                  HandlerPinsContext, IsIntx, Go, hwVars
    <3>. QED BY <3>1 DEF Life!AbsNext
  <2>5. ASSUME NEW t \in Threads, MaskStep(t) \/ UnmaskStep(t) \/ SendStep(t)
        PROVE  UNCHANGED <<irq_type, action>>
    <3>1. CASE MaskStep(t)
      BY <3>1 DEF MaskStep, MaskLock, MaskOther, MaskIntx, hwVars
    <3>2. CASE UnmaskStep(t)
      BY <3>2 DEF UnmaskStep, UnmaskLock, UnmaskOther, UnmaskIntx,
                  UnmaskPending, hwVars
    <3>3. CASE SendStep(t)
      BY <3>3 DEF SendStep, SendCheck, Signal, hwVars
    <3>. QED BY <2>5, <3>1, <3>2, <3>3
  <2>6. CASE IrqEnter \/ IrqStep \/ EnableHw
    BY <2>6 DEF IrqEnter, IrqStep, IrqHandled, IrqNone, EnableHw, hwVars
  <2>7. CASE SigPut \/ SigDisableOnly \/ SigNoTrigger \/ SigGet
             \/ SigRequestFails \/ SigRelock
    BY <2>7 DEF SigPut, SigDisableOnly, SigNoTrigger, SigGet, SigRequestFails,
                SigRelock, hwVars
  <2>8. CASE DisableFd \/ DisableFree
    BY <2>8 DEF DisableFd, DisableFree, hwVars
  <2>9. CASE StartConfig \/ StartCall
    BY <2>9 DEF StartConfig, EnableAlloc, StartSetSignal, StartCall,
                StartDisable, StartMask, StartUnmask, StartLoopback,
                VirqfdEnable, VirqfdDisable, hwVars
  <2>10. CASE VirqfdWake \/ ConfigWrite \/ DeviceAssert \/ UserService \/ Dead
    BY <2>10 DEF VirqfdWake, ConfigWrite, DeviceAssert, UserService, Dead,
                 vars, hwVars
  <2>. QED
    BY <2>1, <2>2, <2>3, <2>4, <2>5, <2>6, <2>7, <2>8, <2>9, <2>10
       DEF Next, Kernel, EnableStep, SignalStep, DisableStep
<1>. QED
  BY <1>1, <1>2, TypeCorrect, ContextCorrect, PTL
     DEF Spec, LifeSpec, Life!AbsSpec

-----------------------------------------------------------------------------
(* A user that writes config space only between its ioctls.  The section   *)
(* under irqlock then finds the mode its test found, and DisINTx is what   *)
(* ctx[0].masked says from the moment vfio_intx_enable has programmed it,  *)
(* before the mode is published.                                           *)
SerialInv ==
  /\ pc["ioctl"] = "idle" \/ pc["config"] = "idle"
  /\ pc["irq"] \in {"idle", "irq", "send", "signal", "oops"}
  /\ \A t \in Threads :
       /\ pc[t] \in {"mask_intx", "unmask_intx"} => IsIntx
       /\ pc[t] \in {"mask_other", "unmask_other"} => ~IsIntx
  /\ IsIntx \/ pc["ioctl"] = "en_type" => disintx = masked

(* The physical mask of a DisINTx device is what ctx[0].masked says, for a *)
(* serial user and however its calls, the unmask eventfd and the interrupt *)
(* handler overlap.                                                        *)
THEOREM MaskFollowsVirtual ==
  ASSUME SerialUser, FALSE \notin PciKinds
  PROVE  Spec => []PhysicalFollowsVirtual
<1>1. Init => SerialInv
  BY DEF Init, SerialInv, IsIntx, Threads
<1>2. TypeOK /\ ContextInv /\ SerialInv /\ [Next]_vars => SerialInv'
  <2>. SUFFICES ASSUME TypeOK, ContextInv, SerialInv, [Next]_vars
                PROVE  SerialInv'
    OBVIOUS
  <2>0. /\ pci_2_3 = TRUE /\ disintx \in BOOLEAN /\ masked \in BOOLEAN
        /\ virq_disabled \in BOOLEAN
        /\ pc \in [Threads -> Steps]
        /\ IsIntx => ctx
        /\ pc["virqfd"] # "idle" => IsIntx
        /\ pc["irq"] # "idle" => IsIntx
        /\ pc["ioctl"] \in {"en_hw", "en_type"} => ~IsIntx
        /\ pc["ioctl"] \in {"dis_fd", "sig_free", "sig_put", "sig_get",
                            "sig_req", "sig_relock", "dis_type"} => IsIntx
        /\ pc["ioctl"] = "dis_type" => pc["virqfd"] = "idle"
    BY IntxAssumption
       DEF TypeOK, ContextInv, IoctlPlaces, HandlerPinsContext,
           VirqfdPinsContext
  <2>. USE <2>0 DEF SerialInv, IsIntx, Go, Threads,
                    devVars, hwVars, ctxVars, callVars, userVars
  <2>1. ASSUME NEW t \in Threads, MaskLock(t) PROVE SerialInv'
    BY <2>1 DEF MaskLock
  <2>2. ASSUME NEW t \in Threads, MaskOther(t) PROVE SerialInv'
    BY <2>2 DEF MaskOther
  <2>3. ASSUME NEW t \in Threads, MaskIntx(t) PROVE SerialInv'
    <3>1. irq_type' = irq_type /\ irq_type = "intx" /\ disintx = masked
      BY <2>3 DEF MaskIntx
    <3>2. disintx' = masked'
      <4>1. CASE masked = TRUE
        BY <2>3, <3>1, <4>1 DEF MaskIntx, MaskedRead
      <4>2. CASE masked = FALSE
        BY <2>3, <4>2 DEF MaskIntx, MaskedRead
      <4>. QED BY <4>1, <4>2
    <3>. QED BY <2>3, <3>1, <3>2 DEF MaskIntx
  <2>4. ASSUME NEW t \in Threads, UnmaskLock(t) PROVE SerialInv'
    BY <2>4 DEF UnmaskLock
  <2>5. ASSUME NEW t \in Threads, UnmaskOther(t) PROVE SerialInv'
    BY <2>5 DEF UnmaskOther
  <2>6. ASSUME NEW t \in Threads, UnmaskIntx(t) PROVE SerialInv'
    <3>1. irq_type' = irq_type /\ irq_type = "intx" /\ disintx = masked
      BY <2>6 DEF UnmaskIntx
    <3>2. disintx' = masked'
      BY <2>6, <3>1 DEF UnmaskIntx
    <3>. QED BY <2>6, <3>1, <3>2 DEF UnmaskIntx
  <2>7. ASSUME NEW t \in Threads, UnmaskPending(t) PROVE SerialInv'
    <3>1. irq_type' = irq_type /\ irq_type = "intx" /\ disintx = masked
      BY <2>7 DEF UnmaskPending
    <3>2. disintx' = disintx /\ masked' = TRUE /\ TRUE \in MaskedRead
      BY <2>7 DEF UnmaskPending
    <3>3. masked = TRUE
      <4>1. MaskedRead = {masked}
        BY <3>1 DEF MaskedRead
      <4>. QED BY <3>2, <4>1
    <3>. QED BY <2>7, <3>1, <3>2, <3>3 DEF UnmaskPending, AfterPending
  <2>8. ASSUME NEW t \in Threads, SendCheck(t) PROVE SerialInv'
    BY <2>8 DEF SendCheck
  <2>9. ASSUME NEW t \in Threads, Signal(t) PROVE SerialInv'
    BY <2>9 DEF Signal, HasTrigger
  <2>10. CASE IrqHandled
    <3>1. disintx' = TRUE /\ masked' = TRUE
      BY <2>10 DEF IrqHandled
    <3>2. /\ pc' = [pc EXCEPT !["irq"] = "send"] /\ irq_type' = irq_type
      BY <2>10 DEF IrqHandled
    <3>. QED BY <3>1, <3>2
  <2>11. CASE IrqNone
    BY <2>11 DEF IrqNone
  <2>12. CASE EnableHw
    BY <2>12 DEF EnableHw, DisIntxRestored
  <2>13. CASE EnableType
    BY <2>13 DEF EnableType
  <2>14. CASE SigFree
    BY <2>14 DEF SigFree, ActionFreed
  <2>15. CASE SigPut
    BY <2>15 DEF SigPut
  <2>16. CASE SigDisableOnly
    BY <2>16 DEF SigDisableOnly, AfterSignal
  <2>17. CASE SigNoTrigger
    BY <2>17 DEF SigNoTrigger, AfterError
  <2>18. CASE SigGet
    BY <2>18 DEF SigGet
  <2>19. CASE SigRequest
    BY <2>19 DEF SigRequest
  <2>20. CASE SigRequestFails
    BY <2>20 DEF SigRequestFails, AfterError
  <2>21. CASE SigRelock
    BY <2>21 DEF SigRelock
  <2>22. CASE DisableFd
    BY <2>22 DEF DisableFd, VirqfdFlushed
  <2>23. CASE DisableType
    BY <2>23 DEF DisableType
  <2>24. CASE DisableFree
    BY <2>24 DEF DisableFree
  <2>25. ASSUME NEW fd \in Fds, EnableAlloc(fd) PROVE SerialInv'
    BY <2>25 DEF EnableAlloc, Call
  <2>26. ASSUME NEW fd \in Fds, StartSetSignal(fd) PROVE SerialInv'
    BY <2>26 DEF StartSetSignal, Call
  <2>27. CASE StartDisable
    BY <2>27 DEF StartDisable, Call
  <2>28. CASE StartMask
    BY <2>28 DEF StartMask, Call
  <2>29. CASE StartUnmask
    BY <2>29 DEF StartUnmask, Call
  <2>30. CASE StartLoopback
    BY <2>30 DEF StartLoopback, Call
  <2>31. CASE VirqfdEnable
    BY <2>31 DEF VirqfdEnable, Call
  <2>32. CASE VirqfdDisable
    BY <2>32 DEF VirqfdDisable, Call, VirqfdFlushed
  <2>33. CASE IrqEnter
    BY <2>33 DEF IrqEnter
  <2>34. CASE VirqfdWake
    BY <2>34 DEF VirqfdWake
  <2>35. CASE ConfigWrite
    BY <2>35 DEF ConfigWrite
  <2>36. CASE DeviceAssert
    BY <2>36 DEF DeviceAssert
  <2>37. CASE UserService
    BY <2>37 DEF UserService
  <2>38. CASE Dead \/ UNCHANGED vars
    BY <2>38 DEF Dead, vars
  <2>. QED
    BY <2>1, <2>2, <2>3, <2>4, <2>5, <2>6, <2>7, <2>8, <2>9, <2>10, <2>11,
       <2>12, <2>13, <2>14, <2>15, <2>16, <2>17, <2>18, <2>19, <2>20, <2>21,
       <2>22, <2>23, <2>24, <2>25, <2>26, <2>27, <2>28, <2>29, <2>30, <2>31,
       <2>32, <2>33, <2>34, <2>35, <2>36, <2>37, <2>38
       DEF Next, Kernel, MaskStep, UnmaskStep, SendStep, IrqStep, EnableStep,
           SignalStep, DisableStep, StartConfig, StartCall
<1>3. TypeOK /\ SerialInv => PhysicalFollowsVirtual
  <2>. SUFFICES ASSUME TypeOK, SerialInv
                PROVE  PhysicalFollowsVirtual
    OBVIOUS
  <2>1. pci_2_3 = TRUE /\ disintx \in BOOLEAN
    BY IntxAssumption DEF TypeOK
  <2>. QED BY <2>1 DEF SerialInv, PhysicalFollowsVirtual, PhysicalMask
<1>. QED BY <1>1, <1>2, <1>3, TypeCorrect, ContextCorrect, PTL DEF Spec
=============================================================================

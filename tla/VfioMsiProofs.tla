---------------------------- MODULE VfioMsiProofs ----------------------------
(***************************************************************************)
(* VfioMsi for every set of eventfds and every number of vectors.          *)
(***************************************************************************)
EXTENDS VfioMsi, FiniteSetTheorems, TLAPS

Loop == {"free", "sync", "put", "get", "request", "register"}

(* Where a call can be: within its block while it installs or undoes,      *)
(* within ctx[] while it tears down, and with a trigger in hand only while *)
(* it installs one.                                                        *)
Places ==
  /\ irq_type = "none" => pc = "idle" /\ num_ctx = 0
  /\ irq_type # "none" => num_ctx > 0
  /\ pc # "idle" /\ phase # "teardown" => call.start + call.count <= num_ctx
  /\ pc \in Loop /\ phase # "teardown" => j \in Block
  /\ pc \in Loop /\ phase = "teardown" => j < num_ctx
  /\ pc \in Loop => ret = "ok" \/ phase # "install"
  /\ phase = "undo" => ret = "fail"
  /\ pc \in {"request", "register"} => phase = "install" /\ Fd # NoFd
  /\ pc \in {"free_vectors", "leave"} => phase = "teardown"
  /\ pc = "return" => phase # "teardown"

(* One vector: its handler is its trigger's, except on the vector the call *)
(* is at, between free_irq and request_irq; a handler that runs is the one *)
(* that is requested, or the one free_irq waits for.                       *)
Vector(v) ==
  /\ v = j /\ pc \in {"sync", "put"} => action[v] = NoFd /\ trigger[v] # NoFd
  /\ v = j /\ pc = "register" => action[v] = Fd /\ trigger[v] = NoFd
  /\ ~(v = j /\ pc \in {"sync", "put", "register"}) => action[v] = trigger[v]
  /\ v = j /\ pc \in {"get", "request"} => trigger[v] = NoFd
  /\ v >= num_ctx => trigger[v] = NoFd
  /\ phase = "teardown" /\ (v < j \/ pc \in {"free_vectors", "leave"})
       => trigger[v] = NoFd
  /\ running[v] # NoFd
       => running[v] = IF v = j /\ pc = "sync" THEN trigger[v] ELSE action[v]

VectorsInv == \A v \in Vectors : Vector(v)

(* What a call has done so far to one vector *)
Progress(v) ==
  /\ pc # "idle" /\ phase # "teardown" /\ v \notin Block
       => trigger[v] = call.before[v]
  /\ pc \in Loop /\ phase = "install" /\ v \in Block
       => /\ v < j => trigger[v] = call.fds[v - call.start + 1]
          /\ v > j \/ (v = j /\ pc \in {"free", "sync", "put"})
               => trigger[v] = call.before[v]
  /\ pc \in Loop /\ phase = "undo" /\ v \in Block /\ v > j
       => trigger[v] \in {NoFd, call.before[v]}
  /\ pc = "return" /\ v \in Block
       => /\ ret = "ok" => trigger[v] = call.fds[v - call.start + 1]
          /\ ret = "fail" => trigger[v] \in {NoFd, call.before[v]}

ProgressInv == \A v \in Vectors : Progress(v)

(* DisINTx of a NoINTx device is clear only on the way out of a mode. *)
IntxHiddenInv == nointx /\ pc # "leave" => disintx

MsiInv == Ranges /\ Places /\ VectorsInv /\ ProgressInv /\ ReferencesBalance

-----------------------------------------------------------------------------
TriggeredBy(triggers, fd) == {v \in Vectors : triggers[v] = fd}

(* The vectors one eventfd triggers are finitely many. *)
LEMMA TriggeredFinite ==
  ASSUME NEW triggers, NEW fd
  PROVE  /\ IsFiniteSet(TriggeredBy(triggers, fd))
         /\ Cardinality(TriggeredBy(triggers, fd)) \in Nat
<1>1. IsFiniteSet(Vectors)
  BY FS_Interval, MsiAssumption DEF Vectors
<1>2. IsFiniteSet(TriggeredBy(triggers, fd))
  BY <1>1, FS_Subset DEF TriggeredBy
<1>. QED BY <1>2, FS_CardinalityType

(* What a call installs is one of the fds it was given. *)
LEMMA FdType ==
  ASSUME Ranges, Places, pc \in Loop
  PROVE  Fd \in Fds
<1>1. CASE phase = "install"
  <2>1. /\ call.start \in Nat /\ call.count \in Nat /\ j \in Nat
        /\ call.start <= j /\ j <= call.start + call.count - 1
    BY <1>1, MsiAssumption DEF Ranges, Places, Block, Vectors
  <2>2. j - call.start + 1 \in 1..call.count
    BY <2>1
  <2>. QED BY <1>1, <2>2 DEF Ranges, Fd
<1>2. CASE phase # "install"
  BY <1>2 DEF Fd, Fds
<1>. QED BY <1>1, <1>2

(* A step that neither gets nor puts an eventfd keeps the balance. *)
LEMMA BalanceKept ==
  ASSUME ReferencesBalance, UNCHANGED <<trigger, refs>>,
         \A fd \in EventFds : InHand(fd)' = InHand(fd)
  PROVE  ReferencesBalance'
BY DEF ReferencesBalance

(* Every reference that is got is put again: on the way through            *)
(* set_vector_signal, and on each of its error paths.                      *)
LEMMA BalanceStep ==
  ASSUME MsiInv, [Next]_vars
  PROVE  ReferencesBalance' /\ refs' \in [EventFds -> Nat]
<1>. DEFINE Goal == ReferencesBalance' /\ refs' \in [EventFds -> Nat]
<1>0. /\ refs \in [EventFds -> Nat] /\ trigger \in [Vectors -> Fds]
      /\ j \in Vectors /\ NoFd \notin EventFds
      /\ ReferencesBalance
  BY MsiAssumption DEF MsiInv, Ranges
<1>1. ASSUME UNCHANGED <<trigger, refs>>,
             \A fd \in EventFds : InHand(fd)' = InHand(fd)
      PROVE  Goal
  BY <1>0, <1>1, BalanceKept
<1>2. CASE /\ UNCHANGED <<trigger, refs>>
           /\ pc \notin {"request", "register"}
           /\ pc' \notin {"request", "register"}
  BY <1>1, <1>2 DEF InHand
<1>3. CASE UNCHANGED <<trigger, refs, pc, phase, call, j>>
  BY <1>1, <1>3 DEF InHand, Fd
<1>4. CASE StartEventfds \/ StartDisable
  BY <1>2, <1>4 DEF StartEventfds, SetBlock, EnableMode, StartDisable, ctxVars
<1>5. CASE EnablePartial \/ \E chosen \in SUBSET Vectors : Loopback(chosen)
  BY <1>3, <1>5 DEF EnablePartial, Loopback, ctxVars, pcVars
<1>6. CASE SkipFree \/ FreeIrq \/ Synchronize
  BY <1>2, <1>6 DEF SkipFree, FreeIrq, Synchronize, ctxVars
<1>7. CASE DisableOnly \/ GetFails
  BY <1>2, <1>7 DEF DisableOnly, Succeed, Goto, GetFails, Fail, ctxVars
<1>8. CASE EndStep
  BY <1>2, <1>8 DEF EndStep, ReturnToUser, ReturnToDisable, FreeVectors,
                    LeaveMode, ctxVars
<1>9. CASE (\E v \in Vectors : Interrupt(v) \/ HandlerSignals(v))
           \/ UserReads \/ UNCHANGED vars
  BY <1>3, <1>9 DEF Interrupt, HandlerSignals, UserReads, vars, ctxVars,
                    pcVars
<1>10. CASE RequestIrq
  <2>1. \A fd \in EventFds : InHand(fd)' = InHand(fd)
    BY <1>10 DEF RequestIrq, InHand, Fd
  <2>. QED BY <1>1, <1>10, <2>1 DEF RequestIrq, ctxVars
<1>11. CASE PutTrigger
  <2>1. PICK old \in EventFds : old = trigger[j]
    BY <1>0, <1>11 DEF PutTrigger, MsiInv, VectorsInv, Vector, Fds
  <2>2. \A fd \in EventFds : InHand(fd)' = 0 /\ InHand(fd) = 0
    BY <1>11 DEF PutTrigger, InHand
  <2>3. trigger' = [trigger EXCEPT ![j] = NoFd]
    BY <1>11 DEF PutTrigger
  <2>4. refs' = [refs EXCEPT ![old] = @ - 1]
    BY <1>11, <2>1 DEF PutTrigger, DropReference
  <2>5. /\ TriggeredBy(trigger', old) = TriggeredBy(trigger, old) \ {j}
        /\ j \in TriggeredBy(trigger, old)
    BY <1>0, <2>1, <2>3 DEF TriggeredBy
  <2>6. Cardinality(TriggeredBy(trigger', old))
          = Cardinality(TriggeredBy(trigger, old)) - 1
    BY <2>5, TriggeredFinite, FS_RemoveElement
  <2>7. ASSUME NEW fd \in EventFds
        PROVE  /\ refs'[fd] = Cardinality(TriggeredBy(trigger', fd))
                              + InHand(fd)'
               /\ refs'[fd] \in Nat
    <3>1. /\ refs[fd] = Cardinality(TriggeredBy(trigger, fd)) + InHand(fd)
          /\ Cardinality(TriggeredBy(trigger, fd)) \in Nat
          /\ Cardinality(TriggeredBy(trigger', fd)) \in Nat
          /\ InHand(fd)' = 0
          /\ InHand(fd) = 0
      BY <1>0, <2>2, TriggeredFinite DEF ReferencesBalance, TriggeredBy
    <3>2. CASE fd = old
      BY <1>0, <2>4, <2>6, <3>1, <3>2
    <3>3. CASE fd # old
      <4>1. TriggeredBy(trigger', fd) = TriggeredBy(trigger, fd)
        BY <1>0, <2>1, <2>3, <3>3 DEF TriggeredBy
      <4>. QED BY <1>0, <2>4, <3>1, <3>3, <4>1
    <3>. QED BY <3>2, <3>3
  <2>. QED BY <1>0, <2>4, <2>7 DEF ReferencesBalance, TriggeredBy
<1>12. CASE GetTrigger
  <2>1. Fd \in EventFds
    BY <1>12, FdType DEF GetTrigger, MsiInv, Loop, Fds
  <2>2. /\ Fd' = Fd
        /\ \A fd \in EventFds : InHand(fd) = 0
        /\ \A fd \in EventFds : InHand(fd)' = IF fd = Fd THEN 1 ELSE 0
    BY <1>12 DEF GetTrigger, InHand, Fd
  <2>3. refs' = [refs EXCEPT ![Fd] = @ + 1] /\ UNCHANGED trigger
    BY <1>12 DEF GetTrigger
  <2>4. ASSUME NEW fd \in EventFds
        PROVE  /\ refs'[fd] = Cardinality(TriggeredBy(trigger, fd))
                              + InHand(fd)'
               /\ refs'[fd] \in Nat
    <3>1. refs[fd] = Cardinality(TriggeredBy(trigger, fd)) + InHand(fd)
      BY <1>0 DEF ReferencesBalance, TriggeredBy
    <3>. QED BY <1>0, <2>1, <2>2, <2>3, <3>1, TriggeredFinite
  <2>. QED BY <1>0, <2>3, <2>4 DEF ReferencesBalance, TriggeredBy
<1>13. CASE RequestFails
  <2>1. Fd \in EventFds
    BY <1>13, FdType DEF RequestFails, MsiInv, Places, Loop, Fds
  <2>2. /\ \A fd \in EventFds : InHand(fd)' = 0
        /\ \A fd \in EventFds : InHand(fd) = IF fd = Fd THEN 1 ELSE 0
    BY <1>13 DEF RequestFails, Fail, InHand
  <2>3. refs' = [refs EXCEPT ![Fd] = @ - 1] /\ UNCHANGED trigger
    BY <1>13 DEF RequestFails, DropReference
  <2>4. ASSUME NEW fd \in EventFds
        PROVE  /\ refs'[fd] = Cardinality(TriggeredBy(trigger, fd))
                              + InHand(fd)'
               /\ refs'[fd] \in Nat
    <3>1. refs[fd] = Cardinality(TriggeredBy(trigger, fd)) + InHand(fd)
      BY <1>0 DEF ReferencesBalance, TriggeredBy
    <3>. QED BY <1>0, <2>1, <2>2, <2>3, <3>1, TriggeredFinite
  <2>. QED BY <1>0, <2>3, <2>4 DEF ReferencesBalance, TriggeredBy
<1>14. CASE RegisterProducer
  <2>1. PICK new \in EventFds : new = Fd
    BY <1>14, FdType DEF RegisterProducer, MsiInv, Places, Loop, Fds
  <2>2. /\ \A fd \in EventFds : InHand(fd)' = 0
        /\ \A fd \in EventFds : InHand(fd) = IF fd = new THEN 1 ELSE 0
    BY <1>14, <2>1 DEF RegisterProducer, Succeed, Goto, InHand
  <2>3. trigger' = [trigger EXCEPT ![j] = new] /\ UNCHANGED refs
    BY <1>14, <2>1 DEF RegisterProducer
  <2>4. trigger[j] = NoFd
    BY <1>0, <1>14 DEF RegisterProducer, MsiInv, VectorsInv, Vector
  <2>5. /\ TriggeredBy(trigger', new) = TriggeredBy(trigger, new) \union {j}
        /\ j \notin TriggeredBy(trigger, new)
    BY <1>0, <2>3, <2>4 DEF TriggeredBy
  <2>6. Cardinality(TriggeredBy(trigger', new))
          = Cardinality(TriggeredBy(trigger, new)) + 1
    BY <2>5, TriggeredFinite, FS_AddElement
  <2>7. ASSUME NEW fd \in EventFds
        PROVE  refs'[fd] = Cardinality(TriggeredBy(trigger', fd))
                           + InHand(fd)'
    <3>1. /\ refs[fd] = Cardinality(TriggeredBy(trigger, fd)) + InHand(fd)
          /\ Cardinality(TriggeredBy(trigger, fd)) \in Nat
          /\ Cardinality(TriggeredBy(trigger', fd)) \in Nat
          /\ InHand(fd)' = 0
          /\ InHand(fd) = IF fd = new THEN 1 ELSE 0
      BY <1>0, <2>2, TriggeredFinite DEF ReferencesBalance, TriggeredBy
    <3>2. CASE fd = new
      BY <2>3, <2>6, <3>1, <3>2
    <3>3. CASE fd # new
      <4>1. TriggeredBy(trigger', fd) = TriggeredBy(trigger, fd)
        BY <1>0, <2>3, <2>4, <3>3 DEF TriggeredBy
      <4>. QED BY <2>3, <3>1, <3>3, <4>1
    <3>. QED BY <3>2, <3>3
  <2>. QED BY <1>0, <2>3, <2>7 DEF ReferencesBalance, TriggeredBy
<1>. QED
  BY <1>4, <1>5, <1>6, <1>7, <1>8, <1>9, <1>10, <1>11, <1>12, <1>13, <1>14
     DEF Next, VectorStep

-----------------------------------------------------------------------------
(* Every step keeps the call where Places says it is: the loops of         *)
(* set_block and of disable stay inside the block and inside ctx[].        *)
LEMMA PlacesStep ==
  ASSUME MsiInv, [Next]_vars
  PROVE  Places'
<1>a. /\ MaxVectors \in Nat /\ j \in Nat /\ j < MaxVectors
      /\ num_ctx \in Nat /\ num_ctx <= MaxVectors
      /\ call.start \in Nat /\ call.count \in Nat
      /\ call.start < MaxVectors /\ call.start + call.count <= MaxVectors
      /\ irq_type \in {"msi", "msix", "none"}
  BY MsiAssumption DEF MsiInv, Ranges, Vectors, Modes
<1>b. Places
  BY DEF MsiInv
<1>. USE DEF Places, Loop, Block, Fd, Modes, devVars, pcVars
<1>1. ASSUME NEW start \in Vectors, NEW count \in 0..MaxVectors - start,
             NEW fds \in [1..count -> Fds], NEW index \in Modes,
             EnableMode(index, start, count, fds)
      PROVE  Places'
  BY <1>1, <1>a, <1>b DEF EnableMode, Vectors
<1>2. ASSUME NEW start \in Vectors, NEW count \in 0..MaxVectors - start,
             NEW fds \in [1..count -> Fds], SetBlock(start, count, fds)
      PROVE  Places'
  BY <1>2, <1>a, <1>b DEF SetBlock, Vectors
<1>3. CASE EnablePartial
  BY <1>3, <1>a, <1>b DEF EnablePartial
<1>4. CASE StartDisable
  BY <1>4, <1>a, <1>b DEF StartDisable
<1>5. ASSUME NEW chosen \in SUBSET Vectors, Loopback(chosen)
      PROVE  Places'
  BY <1>5, <1>a, <1>b DEF Loopback
<1>6. CASE SkipFree
  BY <1>6, <1>a, <1>b DEF SkipFree
<1>7. CASE FreeIrq
  BY <1>7, <1>a, <1>b DEF FreeIrq, Freed
<1>8. CASE Synchronize
  BY <1>8, <1>a, <1>b DEF Synchronize, HandlerDone
<1>9. CASE PutTrigger
  BY <1>9, <1>a, <1>b DEF PutTrigger, DropReference
<1>10. CASE DisableOnly
  BY <1>10, <1>a, <1>b DEF DisableOnly, Succeed, Goto, NextVector,
         MoreToUndo, MoreToTearDown
<1>11. CASE GetFails
  BY <1>11, <1>a, <1>b DEF GetFails, Fail
<1>12. CASE GetTrigger
  BY <1>12, <1>a, <1>b DEF GetTrigger
<1>13. CASE RequestIrq
  BY <1>13, <1>a, <1>b DEF RequestIrq
<1>14. CASE RequestFails
  BY <1>14, <1>a, <1>b DEF RequestFails, Fail, DropReference
<1>15. CASE RegisterProducer
  BY <1>15, <1>a, <1>b DEF RegisterProducer, Succeed, Goto, NextVector,
         MoreToUndo, MoreToTearDown
<1>16. CASE ReturnToUser
  BY <1>16, <1>a, <1>b DEF ReturnToUser, NoCall
<1>17. CASE ReturnToDisable
  BY <1>17, <1>a, <1>b DEF ReturnToDisable
<1>18. CASE FreeVectors
  BY <1>18, <1>a, <1>b DEF FreeVectors
<1>19. CASE LeaveMode
  BY <1>19, <1>a, <1>b DEF LeaveMode, IntxRestored, NoCall
<1>20. ASSUME NEW w \in Vectors, Interrupt(w)
      PROVE  Places'
  BY <1>20, <1>a, <1>b DEF Interrupt
<1>21. ASSUME NEW w \in Vectors, HandlerSignals(w)
      PROVE  Places'
  BY <1>21, <1>a, <1>b DEF HandlerSignals
<1>22. CASE UserReads
  BY <1>22, <1>a, <1>b DEF UserReads
<1>23. CASE UNCHANGED vars
  BY <1>b, <1>23 DEF vars
<1>. QED
  BY <1>1, <1>2, <1>3, <1>4, <1>5, <1>6, <1>7, <1>8, <1>9, <1>10, <1>11,
     <1>12, <1>13, <1>14, <1>15, <1>16, <1>17, <1>18, <1>19, <1>20, <1>21,
     <1>22, <1>23
     DEF Next, StartEventfds, VectorStep, EndStep

(* Every variable keeps to its values. *)
LEMMA RangesStep ==
  ASSUME MsiInv, [Next]_vars
  PROVE  Ranges'
<1>a. /\ MaxVectors \in Nat \ {0} /\ NoFd \in Fds /\ EventFds \subseteq Fds
      /\ NoIntxKinds \subseteq BOOLEAN /\ NoFd \notin EventFds
      /\ 0 \in Vectors /\ 0 \in 0..MaxVectors
      /\ \A fd \in Fds \ {NoFd} : fd \in EventFds
      /\ Ranges
  BY MsiAssumption DEF MsiInv, Fds, Vectors
<1>b. Places /\ refs' \in [EventFds -> Nat]
  BY BalanceStep DEF MsiInv
<1>c. pc \in Loop => Fd \in Fds
  BY FdType DEF MsiInv
<1>. USE DEF Ranges, Modes, hwVars, irqVars, devVars, pcVars
<1>1. ASSUME NEW start \in Vectors, NEW count \in 0..MaxVectors - start,
             NEW fds \in [1..count -> Fds], NEW index \in Modes,
             EnableMode(index, start, count, fds)
      PROVE  Ranges'
  <2>1. /\ start \in Nat /\ count \in Nat /\ start + count \in 0..MaxVectors
    BY <1>a DEF Vectors
  <2>2. /\ vectors' = start + count /\ num_ctx' = start + count
        /\ disintx' = TRUE /\ irq_type' = index /\ phase' = "install"
        /\ j' = start /\ pc' \in {"return", "free"} /\ ret' \in {"ok", "fail"}
        /\ UNCHANGED <<nointx, action, running, trigger, producer, signalled>>
    BY <1>1 DEF EnableMode, ctxVars
  <2>3. /\ call'.start = start /\ call'.count = count /\ call'.fds = fds
        /\ call'.fresh = TRUE /\ call'.before = trigger
    BY <1>1 DEF EnableMode
  <2>. QED BY <1>a, <1>b, <2>1, <2>2, <2>3
<1>2. ASSUME NEW start \in Vectors, NEW count \in 0..MaxVectors - start,
             NEW fds \in [1..count -> Fds], SetBlock(start, count, fds)
      PROVE  Ranges'
  BY <1>2, <1>a, <1>b DEF SetBlock, ctxVars, Vectors
<1>3. CASE EnablePartial
  BY <1>3, <1>a, <1>b DEF EnablePartial, ctxVars
<1>4. CASE StartDisable
  BY <1>4, <1>a, <1>b DEF StartDisable, ctxVars
<1>5. ASSUME NEW chosen \in SUBSET Vectors, Loopback(chosen)
      PROVE  Ranges'
  <2>1. signalled' \subseteq EventFds
    <3>1. \A v \in chosen : v \in Vectors
      BY <1>5
    <3>2. {trigger[v] : v \in chosen} \ {NoFd} \subseteq EventFds
      BY <1>a, <3>1
    <3>. QED BY <1>a, <1>5, <3>2 DEF Loopback
  <2>. QED BY <1>a, <1>b, <1>5, <2>1 DEF Loopback, ctxVars
<1>6. CASE SkipFree
  BY <1>6, <1>a, <1>b DEF SkipFree, ctxVars
<1>7. CASE FreeIrq
  BY <1>7, <1>a, <1>b DEF FreeIrq, Freed, ctxVars
<1>8. CASE Synchronize
  BY <1>8, <1>a, <1>b DEF Synchronize, HandlerDone, ctxVars
<1>9. CASE PutTrigger
  BY <1>9, <1>a, <1>b DEF PutTrigger, DropReference, ctxVars
<1>10. CASE DisableOnly
  BY <1>10, <1>a, <1>b DEF DisableOnly, Succeed, Goto, NextVector,
         MoreToUndo, MoreToTearDown, ctxVars, Places, Loop, Block, Vectors
<1>11. CASE GetFails
  BY <1>11, <1>a, <1>b DEF GetFails, Fail, ctxVars
<1>12. CASE GetTrigger
  BY <1>12, <1>a, <1>b DEF GetTrigger, ctxVars
<1>13. CASE RequestIrq
  <2>1. action' \in [Vectors -> Fds]
    BY <1>a, <1>c, <1>13 DEF RequestIrq, Loop
  <2>. QED BY <1>a, <1>b, <1>13, <2>1 DEF RequestIrq, ctxVars
<1>14. CASE RequestFails
  BY <1>14, <1>a, <1>b DEF RequestFails, Fail, DropReference, ctxVars
<1>15. CASE RegisterProducer
  <2>1. /\ trigger' \in [Vectors -> Fds]
        /\ producer' \in [Vectors -> BOOLEAN]
    BY <1>a, <1>c, <1>15 DEF RegisterProducer, Loop
  <2>2. j' \in Vectors /\ pc' \in {"free", "return", "free_vectors"}
    BY <1>a, <1>b, <1>15
       DEF RegisterProducer, Succeed, Goto, NextVector, MoreToUndo,
           MoreToTearDown, Places, Loop, Block, Vectors
  <2>. QED BY <1>a, <1>b, <1>15, <2>1, <2>2 DEF RegisterProducer
<1>16. CASE ReturnToUser
  BY <1>16, <1>a, <1>b DEF ReturnToUser, NoCall, ctxVars
<1>17. CASE ReturnToDisable
  BY <1>17, <1>a, <1>b DEF ReturnToDisable, ctxVars
<1>18. CASE FreeVectors
  BY <1>18, <1>a, <1>b DEF FreeVectors, ctxVars
<1>19. CASE LeaveMode
  BY <1>19, <1>a, <1>b DEF LeaveMode, IntxRestored, NoCall, ctxVars
<1>20. ASSUME NEW w \in Vectors, Interrupt(w)
      PROVE  Ranges'
  BY <1>20, <1>a, <1>b DEF Interrupt, ctxVars
<1>21. ASSUME NEW w \in Vectors, HandlerSignals(w)
      PROVE  Ranges'
  <2>1. running[w] \in EventFds /\ running' \in [Vectors -> Fds]
    BY <1>a, <1>21 DEF HandlerSignals
  <2>. QED BY <1>a, <1>b, <1>21, <2>1 DEF HandlerSignals, ctxVars
<1>22. CASE UserReads
  BY <1>22, <1>a, <1>b DEF UserReads, ctxVars
<1>23. CASE UNCHANGED vars
  BY <1>a, <1>b, <1>23 DEF vars, ctxVars
<1>. QED
  BY <1>1, <1>2, <1>3, <1>4, <1>5, <1>6, <1>7, <1>8, <1>9, <1>10, <1>11,
     <1>12, <1>13, <1>14, <1>15, <1>16, <1>17, <1>18, <1>19, <1>20, <1>21,
     <1>22, <1>23
     DEF Next, StartEventfds, VectorStep, EndStep

(* A vector's handler is its trigger's whatever the call does to it, and   *)
(* free_irq lets no handler of a released eventfd run on.                  *)
LEMMA VectorsStep ==
  ASSUME MsiInv, [Next]_vars
  PROVE  VectorsInv'
<1>a. /\ MaxVectors \in Nat /\ j \in Nat /\ j \in Vectors
      /\ num_ctx \in Nat /\ num_ctx <= MaxVectors
      /\ call.start \in Nat /\ call.count \in Nat
      /\ call.start < MaxVectors /\ call.start + call.count <= MaxVectors
      /\ action \in [Vectors -> Fds] /\ trigger \in [Vectors -> Fds]
      /\ running \in [Vectors -> Fds]
      /\ \A v \in Vectors : v \in Nat
  BY MsiAssumption DEF MsiInv, Ranges, Vectors
<1>b. Places
  BY DEF MsiInv
<1>. SUFFICES ASSUME NEW v \in Vectors
              PROVE  Vector(v)'
  BY DEF VectorsInv
<1>c. Vector(v) /\ v \in Nat
  BY <1>a DEF MsiInv, VectorsInv
<1>. USE DEF Vector, irqVars, devVars, pcVars, Fd
<1>1. ASSUME NEW start \in Vectors, NEW count \in 0..MaxVectors - start,
             NEW fds \in [1..count -> Fds], NEW index \in Modes,
             EnableMode(index, start, count, fds)
      PROVE  Vector(v)'
  BY <1>1, <1>a, <1>b, <1>c DEF EnableMode, ctxVars, Places
<1>2. ASSUME NEW start \in Vectors, NEW count \in 0..MaxVectors - start,
             NEW fds \in [1..count -> Fds], SetBlock(start, count, fds)
      PROVE  Vector(v)'
  BY <1>2, <1>a, <1>b, <1>c DEF SetBlock, ctxVars, Places
<1>3. CASE EnablePartial
  BY <1>3, <1>a, <1>b, <1>c DEF EnablePartial, ctxVars, Places
<1>4. CASE StartDisable
  BY <1>4, <1>a, <1>b, <1>c DEF StartDisable, ctxVars, Places
<1>5. ASSUME NEW chosen \in SUBSET Vectors, Loopback(chosen)
      PROVE  Vector(v)'
  BY <1>5, <1>a, <1>b, <1>c DEF Loopback, ctxVars, Places
<1>6. CASE SkipFree
  BY <1>6, <1>a, <1>b, <1>c DEF SkipFree, ctxVars, Places
<1>7. CASE FreeIrq
  BY <1>7, <1>a, <1>b, <1>c DEF FreeIrq, Freed, ctxVars, Places
<1>8. CASE Synchronize
  BY <1>8, <1>a, <1>b, <1>c DEF Synchronize, HandlerDone, ctxVars, Places
<1>9. CASE PutTrigger
  BY <1>9, <1>a, <1>b, <1>c DEF PutTrigger, DropReference, ctxVars, Places
<1>10. CASE DisableOnly
  BY <1>10, <1>a, <1>b, <1>c DEF DisableOnly, Succeed, Goto, NextVector,
         MoreToUndo, MoreToTearDown, ctxVars, Places, Loop, Block
<1>11. CASE GetFails
  BY <1>11, <1>a, <1>b, <1>c DEF GetFails, Fail, ctxVars, Places, Loop,
         Block
<1>12. CASE GetTrigger
  BY <1>12, <1>a, <1>b, <1>c DEF GetTrigger, ctxVars, Places, Loop, Block
<1>13. CASE RequestIrq
  BY <1>13, <1>a, <1>b, <1>c DEF RequestIrq, ctxVars, Places
<1>14. CASE RequestFails
  BY <1>14, <1>a, <1>b, <1>c DEF RequestFails, Fail, DropReference,
         ctxVars, Places, Loop, Block
<1>15. CASE RegisterProducer
  BY <1>15, <1>a, <1>b, <1>c DEF RegisterProducer, Succeed, Goto,
         NextVector, MoreToUndo, MoreToTearDown, ctxVars, Places, Loop, Block
<1>16. CASE ReturnToUser
  BY <1>16, <1>a, <1>b, <1>c DEF ReturnToUser, NoCall, ctxVars, Places
<1>17. CASE ReturnToDisable
  BY <1>17, <1>a, <1>b, <1>c DEF ReturnToDisable, ctxVars, Places
<1>18. CASE FreeVectors
  BY <1>18, <1>a, <1>b, <1>c DEF FreeVectors, ctxVars, Places, Loop, Block
<1>19. CASE LeaveMode
  BY <1>19, <1>a, <1>b, <1>c DEF LeaveMode, IntxRestored, NoCall, ctxVars,
         Places
<1>20. ASSUME NEW w \in Vectors, Interrupt(w)
      PROVE  Vector(v)'
  BY <1>20, <1>a, <1>b, <1>c DEF Interrupt, ctxVars, Places
<1>21. ASSUME NEW w \in Vectors, HandlerSignals(w)
      PROVE  Vector(v)'
  BY <1>21, <1>a, <1>b, <1>c DEF HandlerSignals, ctxVars, Places
<1>22. CASE UserReads
  BY <1>22, <1>a, <1>b, <1>c DEF UserReads, ctxVars, Places
<1>23. CASE UNCHANGED vars
  BY <1>c, <1>23 DEF vars, ctxVars
<1>. QED
  BY <1>1, <1>2, <1>3, <1>4, <1>5, <1>6, <1>7, <1>8, <1>9, <1>10, <1>11,
     <1>12, <1>13, <1>14, <1>15, <1>16, <1>17, <1>18, <1>19, <1>20, <1>21,
     <1>22, <1>23
     DEF Next, StartEventfds, VectorStep, EndStep

(* What a call has done to each vector so far; it is undone on a failure.  *)
LEMMA ProgressStep ==
  ASSUME MsiInv, [Next]_vars
  PROVE  ProgressInv'
<1>a. /\ MaxVectors \in Nat /\ j \in Nat /\ j \in Vectors
      /\ num_ctx \in Nat /\ num_ctx <= MaxVectors
      /\ call.start \in Nat /\ call.count \in Nat
      /\ call.start < MaxVectors /\ call.start + call.count <= MaxVectors
      /\ trigger \in [Vectors -> Fds]
      /\ \A v \in Vectors : v \in Nat
  BY MsiAssumption DEF MsiInv, Ranges, Vectors
<1>b. Places
  BY DEF MsiInv
<1>. SUFFICES ASSUME NEW v \in Vectors
              PROVE  Progress(v)'
  BY DEF ProgressInv
<1>c. Progress(v) /\ Vector(v) /\ v \in Nat
  BY <1>a DEF MsiInv, ProgressInv, VectorsInv
<1>. USE DEF Progress, Loop, Block, devVars, pcVars
<1>1. ASSUME NEW start \in Vectors, NEW count \in 0..MaxVectors - start,
             NEW fds \in [1..count -> Fds], NEW index \in Modes,
             EnableMode(index, start, count, fds)
      PROVE  Progress(v)'
  <2>1. /\ start \in Nat /\ count \in Nat
    BY <1>a
  <2>2. /\ call'.start = start /\ call'.count = count
        /\ call'.before = trigger /\ trigger' = trigger
        /\ phase' = "install" /\ j' = start
        /\ pc' = IF count = 0 THEN "return" ELSE "free"
    BY <1>1 DEF EnableMode, ctxVars
  <2>. QED BY <1>a, <2>1, <2>2
<1>2. ASSUME NEW start \in Vectors, NEW count \in 0..MaxVectors - start,
             NEW fds \in [1..count -> Fds], SetBlock(start, count, fds)
      PROVE  Progress(v)'
  <2>1. /\ start \in Nat /\ count \in Nat
    BY <1>a
  <2>2. /\ call'.start = start /\ call'.count = count
        /\ call'.before = trigger /\ trigger' = trigger
        /\ phase' = "install" /\ j' = start
        /\ pc' = IF count = 0 THEN "return" ELSE "free"
    BY <1>2 DEF SetBlock, ctxVars
  <2>. QED BY <1>a, <2>1, <2>2
<1>3. CASE EnablePartial
  BY <1>3, <1>a, <1>b, <1>c DEF EnablePartial, ctxVars, Places
<1>4. CASE StartDisable
  BY <1>4, <1>a, <1>b, <1>c DEF StartDisable, ctxVars, Places
<1>5. ASSUME NEW chosen \in SUBSET Vectors, Loopback(chosen)
      PROVE  Progress(v)'
  BY <1>5, <1>a, <1>b, <1>c DEF Loopback, ctxVars
<1>6. CASE SkipFree
  BY <1>6, <1>a, <1>b, <1>c DEF SkipFree, ctxVars
<1>7. CASE FreeIrq
  BY <1>7, <1>a, <1>b, <1>c DEF FreeIrq, Freed, ctxVars, Places
<1>8. CASE Synchronize
  BY <1>8, <1>a, <1>b, <1>c DEF Synchronize, HandlerDone, ctxVars, Places
<1>9. CASE PutTrigger
  BY <1>9, <1>a, <1>b, <1>c DEF PutTrigger, DropReference, ctxVars, Places
<1>10. CASE DisableOnly
  BY <1>10, <1>a, <1>b, <1>c DEF DisableOnly, Succeed, Goto, NextVector,
         MoreToUndo, MoreToTearDown, ctxVars, Places, Vector, Fd
<1>11. CASE GetFails
  BY <1>11, <1>a, <1>b, <1>c DEF GetFails, Fail, ctxVars, Places, Vector,
         Fd
<1>12. CASE GetTrigger
  BY <1>12, <1>a, <1>b, <1>c DEF GetTrigger, ctxVars, Places
<1>13. CASE RequestIrq
  BY <1>13, <1>a, <1>b, <1>c DEF RequestIrq, ctxVars, Places
<1>14. CASE RequestFails
  BY <1>14, <1>a, <1>b, <1>c DEF RequestFails, Fail, DropReference,
         ctxVars, Places, Vector, Fd
<1>15. CASE RegisterProducer
  BY <1>15, <1>a, <1>b, <1>c DEF RegisterProducer, Succeed, Goto,
         NextVector, MoreToUndo, MoreToTearDown, ctxVars, Places, Vector, Fd
<1>16. CASE ReturnToUser
  BY <1>16, <1>a, <1>b, <1>c DEF ReturnToUser, NoCall, ctxVars, Places
<1>17. CASE ReturnToDisable
  BY <1>17, <1>a, <1>b, <1>c DEF ReturnToDisable, ctxVars, Places
<1>18. CASE FreeVectors
  BY <1>18, <1>a, <1>b, <1>c DEF FreeVectors, ctxVars, Places
<1>19. CASE LeaveMode
  BY <1>19, <1>a, <1>b, <1>c DEF LeaveMode, IntxRestored, NoCall, ctxVars,
         Places
<1>20. ASSUME NEW w \in Vectors, Interrupt(w)
      PROVE  Progress(v)'
  BY <1>20, <1>a, <1>b, <1>c DEF Interrupt, ctxVars, Places
<1>21. ASSUME NEW w \in Vectors, HandlerSignals(w)
      PROVE  Progress(v)'
  BY <1>21, <1>a, <1>b, <1>c DEF HandlerSignals, ctxVars, Places
<1>22. CASE UserReads
  BY <1>22, <1>a, <1>b, <1>c DEF UserReads, ctxVars, Places
<1>23. CASE UNCHANGED vars
  BY <1>c, <1>23 DEF vars, ctxVars
<1>. QED
  BY <1>1, <1>2, <1>3, <1>4, <1>5, <1>6, <1>7, <1>8, <1>9, <1>10, <1>11,
     <1>12, <1>13, <1>14, <1>15, <1>16, <1>17, <1>18, <1>19, <1>20, <1>21,
     <1>22, <1>23
     DEF Next, StartEventfds, VectorStep, EndStep

-----------------------------------------------------------------------------
(* The triggers, handlers and references of every vector fit together in   *)
(* every reachable state, wherever a call is and whatever has failed:      *)
(* inductive.                                                              *)
THEOREM MsiCorrect == Spec => []MsiInv
<1>1. Init => MsiInv
  <2>. SUFFICES ASSUME Init
                PROVE  MsiInv
    OBVIOUS
  <2>0. /\ MaxVectors \in Nat \ {0} /\ NoFd \in Fds /\ NoFd \notin EventFds
        /\ NoIntxKinds \subseteq BOOLEAN
        /\ 0 \in Vectors /\ 0 \in 0..MaxVectors
    BY MsiAssumption DEF Fds, Vectors
  <2>1. Ranges
    <3>1. /\ call.start = 0 /\ call.count = 0 /\ call.fds = <<>>
          /\ call.fresh = FALSE /\ call.before = [v \in Vectors |-> NoFd]
      BY DEF Init, NoCall
    <3>2. call.fds \in [1..call.count -> Fds]
      BY <3>1
    <3>3. 0 \in 0..MaxVectors - call.start
      BY <2>0, <3>1
    <3>4. disintx \in BOOLEAN /\ nointx \in NoIntxKinds
      BY <2>0 DEF Init
    <3>5. /\ action \in [Vectors -> Fds] /\ running \in [Vectors -> Fds]
          /\ trigger \in [Vectors -> Fds] /\ call.before \in [Vectors -> Fds]
          /\ producer \in [Vectors -> BOOLEAN] /\ refs \in [EventFds -> Nat]
      BY <2>0, <3>1 DEF Init
    <3>. QED BY <2>0, <3>1, <3>2, <3>3, <3>4, <3>5 DEF Ranges, Init
  <2>2. Places
    BY <2>0 DEF Places, Init, Loop
  <2>3. VectorsInv /\ ProgressInv
    BY <2>0 DEF VectorsInv, Vector, ProgressInv, Progress, Loop, Init, Vectors
  <2>4. ReferencesBalance
    <3>1. ASSUME NEW fd \in EventFds
          PROVE  {v \in Vectors : trigger[v] = fd} = {}
      BY <2>0 DEF Init
    <3>. QED BY <3>1, FS_EmptySet DEF ReferencesBalance, InHand, Init
  <2>. QED BY <2>1, <2>2, <2>3, <2>4 DEF MsiInv
<1>2. MsiInv /\ [Next]_vars => MsiInv'
  BY BalanceStep, PlacesStep, RangesStep, VectorsStep, ProgressStep DEF MsiInv
<1>. QED BY <1>1, <1>2, PTL DEF Spec

(* The eventfd references the driver holds are those of its triggers and   *)
(* the one in hand: vfio_msi_set_vector_signal leaks none on any error     *)
(* path, and puts none twice.                                              *)
THEOREM ReferencesAreBalanced == Spec => []ReferencesBalance
<1>1. MsiInv => ReferencesBalance
  BY DEF MsiInv
<1>. QED BY <1>1, MsiCorrect, PTL

(* vfio_msihandler signals only an eventfd the driver holds: free_irq is   *)
(* waited for before eventfd_ctx_put.                                      *)
THEOREM HandlersSignalLive == Spec => []SignalsLiveEventfd
<1>1. MsiInv => SignalsLiveEventfd
  <2>. SUFFICES ASSUME MsiInv, NEW v \in Vectors, running[v] # NoFd
                PROVE  refs[running[v]] > 0
    BY DEF SignalsLiveEventfd
  <2>0. /\ running \in [Vectors -> Fds] /\ trigger \in [Vectors -> Fds]
        /\ Vector(v) /\ j \in Vectors
    BY DEF MsiInv, Ranges, VectorsInv
  <2>1. PICK fd \in EventFds : fd = running[v]
    BY <2>0 DEF Fds
  <2>2. CASE trigger[v] = fd
    <3>1. v \in TriggeredBy(trigger, fd)
      BY <2>2 DEF TriggeredBy
    <3>2. Cardinality(TriggeredBy(trigger, fd)) > 0
      BY <3>1, TriggeredFinite, FS_EmptySet
    <3>3. refs[fd] = Cardinality(TriggeredBy(trigger, fd)) + InHand(fd)
      BY DEF MsiInv, ReferencesBalance, TriggeredBy
    <3>4. InHand(fd) \in Nat
      BY DEF InHand
    <3>. QED BY <2>1, <3>2, <3>3, <3>4, TriggeredFinite
  <2>3. CASE trigger[v] # fd
    <3>1. pc = "register" /\ Fd = fd
      BY <2>0, <2>1, <2>3 DEF Vector
    <3>2. InHand(fd) = 1
      BY <3>1 DEF InHand
    <3>3. refs[fd] = Cardinality(TriggeredBy(trigger, fd)) + InHand(fd)
      BY DEF MsiInv, ReferencesBalance, TriggeredBy
    <3>. QED BY <2>1, <3>2, <3>3, TriggeredFinite
  <2>. QED BY <2>2, <2>3
<1>. QED BY <1>1, MsiCorrect, PTL

(* vfio_msi_set_block is all or nothing, for a block of any length and     *)
(* whichever vector of it fails.                                           *)
THEOREM BlocksAreAllOrNothing == Spec => []BlockAllOrNothing
<1>1. MsiInv => BlockAllOrNothing
  <2>. SUFFICES ASSUME MsiInv, pc = "return"
                PROVE  BlockAllOrNothing
    BY DEF BlockAllOrNothing
  <2>1. /\ call.start \in Nat /\ call.count \in Nat
        /\ call.start + call.count <= MaxVectors /\ MaxVectors \in Nat
        /\ action \in [Vectors -> Fds] /\ trigger \in [Vectors -> Fds]
    BY MsiAssumption DEF MsiInv, Ranges, Vectors
  <2>2. \A v \in Vectors : action[v] = trigger[v] /\ Progress(v)
    BY DEF MsiInv, VectorsInv, Vector, ProgressInv
  <2>3. action = trigger
    BY <2>1, <2>2
  <2>4. phase # "teardown"
    BY DEF MsiInv, Places
  <2>5. Block \subseteq Vectors
    BY <2>1 DEF Block, Vectors
  <2>. QED BY <2>2, <2>3, <2>4, <2>5 DEF BlockAllOrNothing, Progress
<1>. QED BY <1>1, MsiCorrect, PTL

-----------------------------------------------------------------------------
(* Powers of two, and the most significant bit                             *)

(* There is a least among some numbers. *)
LEMMA LeastExists ==
  ASSUME NEW S \in SUBSET Nat, S # {}
  PROVE  \E m \in S : \A n \in S : m <= n
<1>1. PICK m \in S : \A n \in S : ~(<<n, m>> \in OpToRel(<, Nat))
  BY NatLessThanWellFounded, WFMin
<1>2. ASSUME NEW n \in S
      PROVE  m <= n
  <2>1. m \in Nat /\ n \in Nat
    OBVIOUS
  <2>2. ~(n < m)
    BY <1>1, <2>1 DEF OpToRel
  <2>. QED BY <2>1, <2>2
<1>. QED BY <1>2

(* 2 ^ n is the number of subsets of a set of n, and one element more      *)
(* doubles that.                                                           *)
LEMMA PowerDoubles ==
  ASSUME NEW n \in Nat
  PROVE  2 ^ n \in Nat /\ 2 ^ (n + 1) = 2 * 2 ^ n
<1>. DEFINE A == 1..n
            B == 1..(n + 1)
            New == {s \union {n + 1} : s \in SUBSET A}
            f == [s \in SUBSET A |-> s \union {n + 1}]
<1>1. /\ IsFiniteSet(A) /\ Cardinality(A) = n
      /\ IsFiniteSet(B) /\ Cardinality(B) = n + 1
  BY FS_Interval
<1>2. /\ IsFiniteSet(SUBSET A) /\ Cardinality(SUBSET A) = 2 ^ n
      /\ IsFiniteSet(SUBSET B) /\ Cardinality(SUBSET B) = 2 ^ (n + 1)
  <2>. HIDE DEF A, B
  <2>. QED BY <1>1, FS_SUBSET
<1>3. B = A \union {n + 1} /\ n + 1 \notin A
  OBVIOUS
<1>4. /\ \A r \in SUBSET A : r \union {n + 1} \in New
      /\ \A t \in New : \E r \in SUBSET A : t = r \union {n + 1}
  OBVIOUS
<1>5. f \in Bijection(SUBSET A, New)
  <2>1. f \in [SUBSET A -> New]
    OBVIOUS
  <2>2. ASSUME NEW s \in SUBSET A, NEW t \in SUBSET A, f[s] = f[t]
        PROVE  s = t
    <3>1. s = f[s] \ {n + 1} /\ t = f[t] \ {n + 1}
      BY <1>3
    <3>. QED BY <2>2, <3>1
  <2>3. \A t \in New : \E s \in SUBSET A : f[s] = t
    OBVIOUS
  <2>. HIDE DEF A, New, f
  <2>. QED BY <2>1, <2>2, <2>3
           DEF Bijection, Injection, Surjection, IsInjective
<1>. HIDE DEF A, B, New, f
<1>. DEFINE P == SUBSET A
            Q == SUBSET B
<1>6. ASSUME NEW s
      PROVE  s \in Q <=> s \in P \/ s \in New
  <2>1. CASE n + 1 \in s
    <3>1. s = (s \ {n + 1}) \union {n + 1}
      BY <2>1
    <3>2. s \in SUBSET B => s \ {n + 1} \in SUBSET A
      BY <1>3
    <3>3. s \in SUBSET B => s \in New
      BY <1>4, <3>1, <3>2
    <3>4. s \in New => s \in SUBSET B
      BY <1>3, <1>4
    <3>. QED BY <1>3, <2>1, <3>3, <3>4
  <2>2. CASE n + 1 \notin s
    <3>1. s \notin New
      BY <1>4, <2>2
    <3>. QED BY <1>3, <2>2, <3>1
  <2>. QED BY <2>1, <2>2
<1>7. ASSUME NEW s \in P
      PROVE  s \notin New
  BY <1>3, <1>4, <1>7
<1>8. /\ IsFiniteSet(P) /\ Cardinality(P) = 2 ^ n
      /\ Cardinality(Q) = 2 ^ (n + 1)
  BY <1>2
<1>9. IsFiniteSet(New) /\ Cardinality(New) = 2 ^ n
  BY <1>2, <1>5, FS_Bijection DEF ExistsBijection
<1>. HIDE DEF P, Q
<1>10. Q = P \union New /\ P \intersect New = {}
  BY <1>6, <1>7
<1>11. Cardinality(Q)
         = Cardinality(P) + Cardinality(New) - Cardinality(P \intersect New)
  BY <1>8, <1>9, <1>10, FS_Union
<1>12. Cardinality(P \intersect New) = 0
  BY <1>10, FS_EmptySet
<1>13. 2 ^ n \in Nat
  BY <1>8, FS_CardinalityType
<1>. QED BY <1>8, <1>9, <1>11, <1>12, <1>13

(* k is the place of the most significant bit of n, counted from 1. *)
Bits(n, k) == n < 2 ^ k /\ (k > 0 => 2 ^ (k - 1) <= n)

(* Higher bits mean more. *)
LEMMA PowersGrow ==
  ASSUME NEW i \in Nat, NEW k \in Nat, i <= k
  PROVE  2 ^ i <= 2 ^ k
<1>. DEFINE S == {m \in Nat : i <= m /\ ~(2 ^ i <= 2 ^ m)}
<1>1. SUFFICES ASSUME S # {} PROVE FALSE
  OBVIOUS
<1>2. PICK m \in S : \A n \in S : m <= n
  BY <1>1, LeastExists
<1>3. m # i
  BY <1>2, PowerDoubles
<1>4. m - 1 \in Nat /\ i <= m - 1 /\ m - 1 \notin S
  BY <1>2, <1>3
<1>5. 2 ^ i <= 2 ^ (m - 1)
  BY <1>4
<1>6. 2 ^ ((m - 1) + 1) = 2 * 2 ^ (m - 1) /\ 2 ^ (m - 1) \in Nat
  BY <1>4, PowerDoubles
<1>7. (m - 1) + 1 = m /\ 2 ^ i \in Nat
  BY <1>2, PowerDoubles
<1>8. 2 ^ i <= 2 ^ m
  BY <1>5, <1>6, <1>7
<1>. QED BY <1>2, <1>8

(* Every number has a most significant bit. *)
LEMMA BitsExist ==
  ASSUME NEW n \in Nat
  PROVE  \E k \in Nat : Bits(n, k)
<1>1. \E k \in Nat : n < 2 ^ k
  <2>. DEFINE S == {m \in Nat : ~(m < 2 ^ m)}
  <2>1. S = {}
    <3>. SUFFICES ASSUME S # {} PROVE FALSE
      OBVIOUS
    <3>1. PICK m \in S : \A i \in S : m <= i
      BY LeastExists
    <3>2. m # 0
      <4>. SUFFICES ASSUME m = 0 PROVE FALSE
        OBVIOUS
      <4>1. 2 ^ 0 = 1
        OBVIOUS
      <4>2. 0 < 2 ^ 0
        BY <4>1
      <4>3. 0 \notin S
        BY <4>2
      <4>. HIDE DEF S
      <4>. QED BY <3>1, <4>3
    <3>3. m - 1 \in Nat /\ m - 1 \notin S
      BY <3>1, <3>2
    <3>4. m - 1 < 2 ^ (m - 1) /\ 2 ^ (m - 1) \in Nat
          /\ 2 ^ ((m - 1) + 1) = 2 * 2 ^ (m - 1)
      BY <3>3, PowerDoubles
    <3>5. (m - 1) + 1 = m
      BY <3>1
    <3>6. m < 2 ^ m
      BY <3>3, <3>4, <3>5
    <3>. QED BY <3>1, <3>6
  <2>. QED BY <2>1
<1>. DEFINE T == {k \in Nat : n < 2 ^ k}
<1>2. PICK k \in T : \A i \in T : k <= i
  BY <1>1, LeastExists
<1>3. ASSUME k > 0
      PROVE  2 ^ (k - 1) <= n
  <2>1. k - 1 \in Nat /\ k - 1 \notin T
    BY <1>2, <1>3
  <2>. QED BY <2>1, PowerDoubles
<1>. QED BY <1>2, <1>3 DEF Bits

(* A number has one most significant bit only. *)
LEMMA BitsUnique ==
  ASSUME NEW n \in Nat, NEW i \in Nat, NEW k \in Nat, Bits(n, i), Bits(n, k)
  PROVE  i = k
<1>1. ASSUME NEW a \in Nat, NEW b \in Nat, Bits(n, a), Bits(n, b), a < b
      PROVE  FALSE
  <2>1. b - 1 \in Nat /\ a <= b - 1 /\ b > 0
    BY <1>1
  <2>2. 2 ^ a <= 2 ^ (b - 1) /\ 2 ^ a \in Nat /\ 2 ^ (b - 1) \in Nat
    BY <2>1, PowersGrow, PowerDoubles
  <2>. QED BY <1>1, <2>1, <2>2 DEF Bits
<1>. QED BY <1>1

(* A number has one bit more than half of it. *)
LEMMA BitsOfHalf ==
  ASSUME NEW n \in Nat \ {0}, NEW k \in Nat, Bits(n \div 2, k)
  PROVE  Bits(n, k + 1)
<1>1. n \div 2 \in Nat /\ 2 * (n \div 2) <= n /\ n <= 2 * (n \div 2) + 1
  OBVIOUS
<1>2. n \div 2 < 2 ^ k /\ (k > 0 => 2 ^ (k - 1) <= n \div 2)
  BY DEF Bits
<1>3. 2 ^ k \in Nat /\ 2 ^ (k + 1) = 2 * 2 ^ k
  BY PowerDoubles
<1>4. n < 2 ^ (k + 1)
  BY <1>1, <1>2, <1>3
<1>5. 2 ^ k <= n
  <2>1. CASE k = 0
    <3>1. 2 ^ 0 = 1
      OBVIOUS
    <3>. QED BY <2>1, <3>1
  <2>2. CASE k > 0
    <3>1. k - 1 \in Nat /\ (k - 1) + 1 = k
      BY <2>2
    <3>2. 2 ^ (k - 1) \in Nat /\ 2 ^ ((k - 1) + 1) = 2 * 2 ^ (k - 1)
      BY <3>1, PowerDoubles
    <3>. QED BY <1>1, <1>2, <2>2, <3>1, <3>2
  <2>. QED BY <2>1, <2>2
<1>6. (k + 1) - 1 = k /\ k + 1 > 0
  OBVIOUS
<1>. QED BY <1>4, <1>5, <1>6 DEF Bits

(* fls is computed by halving.  Its equation has a solution, so that fls   *)
(* is one, and then no number can be the first for which it is wrong.      *)
LEMMA FlsIsMostSignificantBit ==
  \A n \in Nat : fls[n] \in Nat /\ Bits(n, fls[n])
<1>. DEFINE Solves(g) == g = [n \in Nat |->
                                IF n = 0 THEN 0 ELSE 1 + g[n \div 2]]
            h == [n \in Nat |-> CHOOSE k \in Nat : Bits(n, k)]
<1>1. ASSUME NEW n \in Nat
      PROVE  h[n] \in Nat /\ Bits(n, h[n])
  BY BitsExist
<1>2. Solves(h)
  <2>1. ASSUME NEW n \in Nat
        PROVE  h[n] = IF n = 0 THEN 0 ELSE 1 + h[n \div 2]
    <3>1. CASE n = 0
      <4>1. 2 ^ 0 = 1
        OBVIOUS
      <4>2. Bits(0, 0)
        BY <4>1 DEF Bits
      <4>. HIDE DEF h
      <4>. QED BY <1>1, <3>1, <4>2, BitsUnique
    <3>2. CASE n # 0
      <4>1. n \div 2 \in Nat
        OBVIOUS
      <4>. HIDE DEF h
      <4>2. h[n \div 2] \in Nat /\ Bits(n \div 2, h[n \div 2])
        BY <1>1, <4>1
      <4>3. Bits(n, h[n \div 2] + 1) /\ h[n \div 2] + 1 \in Nat
        BY <3>2, <4>2, BitsOfHalf
      <4>4. h[n] = h[n \div 2] + 1
        BY <1>1, <4>3, BitsUnique
      <4>. QED BY <3>2, <4>2, <4>4
    <3>. QED BY <3>1, <3>2
  <2>2. h = [n \in Nat |-> h[n]]
    OBVIOUS
  <2>. HIDE DEF h
  <2>. QED BY <2>1, <2>2
<1>3. fls = CHOOSE g : Solves(g)
  BY DEF fls
<1>4. Solves(fls)
  <2>. HIDE DEF Solves, h
  <2>. QED BY <1>2, <1>3
<1>5. ASSUME NEW g, Solves(g), NEW n \in Nat
      PROVE  g[n] = IF n = 0 THEN 0 ELSE 1 + g[n \div 2]
  BY <1>5, Zenon
<1>6. ASSUME NEW n \in Nat
      PROVE  fls[n] = IF n = 0 THEN 0 ELSE 1 + fls[n \div 2]
  BY <1>4, <1>5
<1>. HIDE DEF Solves, h
<1>. DEFINE S == {n \in Nat : ~(fls[n] \in Nat /\ Bits(n, fls[n]))}
<1>7. S = {}
  <2>. SUFFICES ASSUME S # {} PROVE FALSE
    OBVIOUS
  <2>1. PICK m \in S : \A n \in S : m <= n
    BY LeastExists
  <2>2. CASE m = 0
    <3>1. 2 ^ 0 = 1 /\ fls[0] = 0
      BY <1>6
    <3>2. Bits(0, 0)
      BY <3>1 DEF Bits
    <3>. QED BY <2>1, <2>2, <3>1, <3>2
  <2>3. CASE m # 0
    <3>1. m \div 2 \in Nat /\ m \div 2 < m /\ m \in Nat
      BY <2>3
    <3>2. fls[m \div 2] \in Nat /\ Bits(m \div 2, fls[m \div 2])
      BY <2>1, <3>1
    <3>3. fls[m] = 1 + fls[m \div 2]
      BY <1>6, <2>3, <3>1
    <3>4. Bits(m, fls[m \div 2] + 1)
      BY <2>3, <3>1, <3>2, BitsOfHalf
    <3>5. fls[m] = fls[m \div 2] + 1 /\ fls[m] \in Nat
      BY <3>2, <3>3
    <3>. QED BY <2>1, <3>4, <3>5
  <2>. QED BY <2>2, <2>3
<1>. QED BY <1>7

(* The capability shows the smallest power of two that covers the vectors. *)
LEMMA QmaxCovers ==
  ASSUME NEW n \in Nat \ {0}
  PROVE  Qmax(n) \in Nat /\ Covers(Qmax(n), n)
<1>. DEFINE m == n * 2 - 1
            k == fls[m]
            q == k - 1
<1>1. m \in Nat /\ m = 2 * n - 1 /\ m > 0
  OBVIOUS
<1>2. k \in Nat /\ m < 2 ^ k /\ (k > 0 => 2 ^ (k - 1) <= m)
  BY <1>1, FlsIsMostSignificantBit DEF Bits
<1>. HIDE DEF m, k
<1>3. k # 0
  <2>. SUFFICES ASSUME k = 0 PROVE FALSE
    OBVIOUS
  <2>1. 2 ^ 0 = 1
    OBVIOUS
  <2>2. 2 ^ k = 1
    BY <2>1
  <2>3. m < 1
    BY <1>2, <2>2
  <2>. QED BY <1>1, <2>3
<1>4. q \in Nat /\ q + 1 = k
  BY <1>2, <1>3
<1>. HIDE DEF q
<1>5. 2 ^ q \in Nat /\ 2 ^ (q + 1) = 2 * 2 ^ q
  BY <1>4, PowerDoubles
<1>6. n <= 2 ^ q
  BY <1>1, <1>2, <1>4, <1>5
<1>7. ASSUME q > 0
      PROVE  2 ^ (q - 1) < n
  <2>1. q - 1 \in Nat /\ (q - 1) + 1 = q /\ k - 1 = q
    BY <1>2, <1>4, <1>7
  <2>2. 2 ^ (q - 1) \in Nat /\ 2 ^ ((q - 1) + 1) = 2 * 2 ^ (q - 1)
    BY <2>1, PowerDoubles
  <2>3. 2 ^ q <= m
    BY <1>2, <1>3, <2>1
  <2>. QED BY <1>1, <1>5, <2>1, <2>2, <2>3
<1>8. Qmax(n) = q
  BY DEF Qmax, q, k, m
<1>. QED BY <1>4, <1>6, <1>7, <1>8 DEF Covers

-----------------------------------------------------------------------------
(* TypeOK: the state is of its types and within its ranges, and in MSI     *)
(* mode msi_qmax (vfio_pci_intrs.c:283) is the exponent of the least power *)
(* of two that covers the vectors.                                         *)
THEOREM TypeCorrect == Spec => []TypeOK
<1>. DEFINE Cap == /\ msi_qmax \in Nat
                   /\ irq_type = "msi" => Covers(msi_qmax, num_ctx)
<1>1. Init => Cap
  BY DEF Init
<1>2. MsiInv /\ Cap /\ [Next]_vars => Cap'
  <2>. SUFFICES ASSUME MsiInv, Cap, [Next]_vars
                PROVE  Cap'
    OBVIOUS
  <2>1. ASSUME NEW start \in Vectors, NEW count \in 0..MaxVectors - start,
               NEW fds \in [1..count -> Fds], NEW index \in Modes,
               EnableMode(index, start, count, fds)
        PROVE  Cap'
    <3>1. start + count \in 1..MaxVectors
      BY <2>1, MsiAssumption DEF Vectors, EnableMode
    <3>2. /\ num_ctx' = start + count /\ irq_type' = index
          /\ msi_qmax' = IF index = "msi" THEN Qmax(start + count)
                         ELSE msi_qmax
      BY <2>1 DEF EnableMode
    <3>3. /\ Qmax(start + count) \in Nat
          /\ Covers(Qmax(start + count), start + count)
      BY <3>1, QmaxCovers
    <3>. HIDE DEF Qmax
    <3>. QED BY <3>2, <3>3
  <2>2. ASSUME NEW start \in Vectors, NEW count \in 0..MaxVectors - start,
               NEW fds \in [1..count -> Fds], SetBlock(start, count, fds)
        PROVE  Cap'
    BY <2>2 DEF SetBlock, devVars
  <2>3. ASSUME NEW chosen \in SUBSET Vectors, Loopback(chosen)
        PROVE  Cap'
    BY <2>3 DEF Loopback, devVars
  <2>4. CASE VectorStep
    BY <2>4 DEF VectorStep, SkipFree, FreeIrq, Synchronize, PutTrigger,
                DisableOnly, GetFails, GetTrigger, RequestIrq, RequestFails,
                RegisterProducer, devVars
  <2>5. CASE EndStep
    BY <2>5 DEF EndStep, ReturnToUser, ReturnToDisable, FreeVectors, LeaveMode,
                devVars
  <2>6. CASE EnablePartial \/ StartDisable \/ UserReads \/ UNCHANGED vars
    BY <2>6 DEF EnablePartial, StartDisable, UserReads, vars, devVars
  <2>7. ASSUME NEW w \in Vectors, Interrupt(w) \/ HandlerSignals(w)
        PROVE  Cap'
    BY <2>7 DEF Interrupt, HandlerSignals, devVars
  <2>. QED BY <2>1, <2>2, <2>3, <2>4, <2>5, <2>6, <2>7
           DEF Next, StartEventfds
<1>3. MsiInv /\ Cap => TypeOK
  BY DEF MsiInv, TypeOK
<1>. QED BY <1>1, <1>2, <1>3, MsiCorrect, PTL DEF Spec

(* A NoINTx device has DisINTx set between calls, on a platform that never *)
(* grants it fewer vectors than it asked for (vfio_pci_intrs.c:264-270     *)
(* gives those back without looking at vdev->nointx).                      *)
THEOREM IntxStaysHidden ==
  ASSUME TRUE \notin PartialKinds
  PROVE  Spec => []NoIntxStaysDisabled
<1>1. Init => IntxHiddenInv
  BY DEF Init, IntxHiddenInv
<1>2. MsiInv /\ IntxHiddenInv /\ [Next]_vars => IntxHiddenInv'
  <2>. SUFFICES ASSUME MsiInv, IntxHiddenInv, [Next]_vars
                PROVE  IntxHiddenInv'
    OBVIOUS
  <2>0. nointx \in BOOLEAN /\ disintx \in BOOLEAN
    BY MsiAssumption DEF MsiInv, Ranges
  <2>. SUFFICES nointx' = TRUE /\ pc' # "leave" => disintx' = TRUE
    <3>1. nointx' = nointx
      BY DEF Next, StartEventfds, VectorStep, EndStep, EnableMode, SetBlock,
             EnablePartial, StartDisable, Loopback, SkipFree, FreeIrq,
             Synchronize, PutTrigger, DisableOnly, GetFails, GetTrigger,
             RequestIrq, RequestFails, RegisterProducer, ReturnToUser,
             ReturnToDisable, FreeVectors, LeaveMode, Interrupt,
             HandlerSignals, UserReads, vars, hwVars
    <3>. QED BY <2>0, <3>1 DEF IntxHiddenInv
  <2>1. nointx = TRUE /\ pc # "leave" => disintx = TRUE
    BY <2>0 DEF IntxHiddenInv
  <2>. USE <2>0, <2>1 DEF hwVars
  <2>2. ASSUME NEW start \in Vectors, NEW count \in 0..MaxVectors - start,
               NEW fds \in [1..count -> Fds],
               \/ SetBlock(start, count, fds)
               \/ \E index \in Modes : EnableMode(index, start, count, fds)
        PROVE  nointx' = TRUE /\ pc' # "leave" => disintx' = TRUE
    BY <2>2 DEF SetBlock, EnableMode
  <2>3. CASE EnablePartial
    BY <2>3 DEF EnablePartial
  <2>4. CASE VectorStep
    BY <2>4 DEF VectorStep, SkipFree, FreeIrq, Synchronize, PutTrigger,
                DisableOnly, GetFails, GetTrigger, RequestIrq, RequestFails,
                RegisterProducer
  <2>5. CASE ReturnToUser \/ ReturnToDisable \/ FreeVectors
    BY <2>5 DEF ReturnToUser, ReturnToDisable, FreeVectors
  <2>6. CASE LeaveMode
    BY <2>6 DEF LeaveMode, IntxRestored
  <2>7. CASE StartDisable \/ UserReads \/ UNCHANGED vars
    BY <2>7 DEF StartDisable, UserReads, vars, pcVars
  <2>8. CASE \/ \E chosen \in SUBSET Vectors : Loopback(chosen)
             \/ \E v \in Vectors : Interrupt(v) \/ HandlerSignals(v)
    BY <2>8 DEF Loopback, Interrupt, HandlerSignals, pcVars
  <2>. QED BY <2>2, <2>3, <2>4, <2>5, <2>6, <2>7, <2>8
           DEF Next, StartEventfds, EndStep
<1>3. IntxHiddenInv => NoIntxStaysDisabled
  BY DEF IntxHiddenInv, NoIntxStaysDisabled
<1>. QED BY <1>1, <1>2, <1>3, MsiCorrect, PTL DEF Spec

(* MSI and MSI-X implement the interrupt life cycle: a handler is on a     *)
(* vector only in a mode, and the mode is left when none is on any.        *)
THEOREM ImplementsLifecycle == Spec => LifeSpec
<1>. DEFINE installed == {v \in Vectors : action[v] # NoFd}
<1>1. Init => Life!AbsInit
  BY DEF Init, Life!AbsInit
<1>2. MsiInv /\ [Next]_vars => [Life!AbsNext]_(Life!absVars)
  <2>. SUFFICES ASSUME MsiInv, [Next]_vars
                PROVE  Life!AbsNext \/ UNCHANGED <<irq_type, installed>>
    BY DEF Life!absVars
  <2>0. /\ action \in [Vectors -> Fds] /\ j \in Vectors
        /\ irq_type \in Modes \union {"none"}
        /\ \A v \in Vectors : Vector(v)
        /\ Places
    BY DEF MsiInv, Ranges, VectorsInv
  <2>1. ASSUME NEW start \in Vectors, NEW count \in 0..MaxVectors - start,
               NEW fds \in [1..count -> Fds], NEW index \in Modes,
               EnableMode(index, start, count, fds)
        PROVE  Life!AbsNext
    <3>1. Life!Select(index)
      BY <2>1 DEF EnableMode, irqVars, Life!Select
    <3>. QED BY <3>1 DEF Life!AbsNext
  <2>2. CASE FreeIrq
    <3>0. PICK w \in Vectors : w = j
      BY <2>0
    <3>1. w \in installed
      BY <2>0, <2>2, <3>0 DEF FreeIrq, Vector
    <3>2. installed' = installed \ {w}
      BY <2>0, <2>2, <3>0 DEF FreeIrq, Freed
    <3>3. Life!Uninstall(w)
      BY <2>2, <3>1, <3>2 DEF FreeIrq, devVars, Life!Uninstall
    <3>. QED BY <3>3 DEF Life!AbsNext
  <2>3. CASE RequestIrq
    <3>1. Fd # NoFd /\ irq_type \in Modes
      BY <2>0, <2>3 DEF RequestIrq, Places
    <3>2. PICK w \in Vectors : w = j
      BY <2>0
    <3>3. installed' = installed \union {w}
      BY <2>0, <2>3, <3>1, <3>2 DEF RequestIrq
    <3>4. Life!Install(w)
      BY <2>3, <3>1, <3>3 DEF RequestIrq, devVars, Life!Install
    <3>. QED BY <3>4 DEF Life!AbsNext
  <2>4. CASE LeaveMode
    <3>1. installed = {} /\ irq_type \in Modes
      BY <2>0, <2>4 DEF LeaveMode, Vector, Places
    <3>2. Life!Leave
      BY <2>4, <3>1 DEF LeaveMode, irqVars, Life!Leave
    <3>. QED BY <3>2 DEF Life!AbsNext
  <2>5. CASE \/ SkipFree \/ Synchronize \/ PutTrigger \/ DisableOnly
             \/ GetFails \/ GetTrigger \/ RequestFails \/ RegisterProducer
    BY <2>5 DEF SkipFree, Synchronize, PutTrigger, DisableOnly, GetFails,
                GetTrigger, RequestFails, RegisterProducer, irqVars, devVars
  <2>6. CASE ReturnToUser \/ ReturnToDisable \/ FreeVectors
    BY <2>6 DEF ReturnToUser, ReturnToDisable, FreeVectors, irqVars, devVars
  <2>7. CASE \/ EnablePartial \/ StartDisable \/ UserReads \/ UNCHANGED vars
             \/ \E chosen \in SUBSET Vectors : Loopback(chosen)
             \/ \E v \in Vectors : Interrupt(v) \/ HandlerSignals(v)
    BY <2>7 DEF EnablePartial, StartDisable, UserReads, vars, Loopback,
                Interrupt, HandlerSignals, irqVars, devVars
  <2>8. ASSUME NEW start \in Vectors, NEW count \in 0..MaxVectors - start,
               NEW fds \in [1..count -> Fds], SetBlock(start, count, fds)
        PROVE  UNCHANGED <<irq_type, installed>>
    BY <2>8 DEF SetBlock, irqVars, devVars
  <2>. QED BY <2>1, <2>2, <2>3, <2>4, <2>5, <2>6, <2>7, <2>8
           DEF Next, StartEventfds, VectorStep, EndStep
<1>. QED BY <1>1, <1>2, MsiCorrect, PTL DEF Spec, LifeSpec, Life!AbsSpec
=============================================================================

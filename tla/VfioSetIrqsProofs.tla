-------------------------- MODULE VfioSetIrqsProofs --------------------------
(***************************************************************************)
(* VfioSetIrqs for every set of users and eventfds, every number of        *)
(* vectors and every kind of device.                                       *)
(***************************************************************************)
EXTENDS VfioSetIrqs, TLAPS

(* The fields of a request; only an eventfd request names eventfds.        *)
LEMMA RequestFields ==
  ASSUME NEW r \in Requests
  PROVE  /\ r.index \in Indexes /\ r.action \in {"mask", "unmask", "trigger"}
         /\ r.data \in {"none", "bool", "eventfd"}
         /\ r.start \in Nat /\ r.count \in Nat
         /\ r.data = "eventfd" => r.value \in EventFds \union {NoFd, OtherFd}
<1>1. DOMAIN Values = {"none", "bool", "eventfd"}
  BY DEF Values
<1>2. PICK type \in {"none", "bool", "eventfd"} :
        r \in [index : Indexes, action : {"mask", "unmask", "trigger"},
               data : {type}, value : Values[type],
               start : 0..Vectors, count : 0..Vectors]
  BY <1>1 DEF Requests
<1>3. r.data = "eventfd" => r.value \in Values["eventfd"]
  BY <1>2
<1>. QED BY <1>2, <1>3, SetIrqsAssumption DEF Values

(* The handler a request reaches says what its index is. *)
LEMMA HandlerIndex ==
  ASSUME NEW r \in Requests
  PROVE  /\ Handler(r) \in {"mask", "unmask", "trigger"} => r.index = "intx"
         /\ Handler(r) = "msi" => r.index \in MsiModes
         /\ Handler(r) = "err" => pcie
BY RequestFields DEF Handler, Indexes, MsiModes

(* A mode and the vectors it has, with a device that advertises them. *)
ModeFits ==
  /\ irq_type = "none" => num_ctx = 0
  /\ irq_type = "intx" => ~nointx /\ num_ctx = 1
  /\ irq_type \in MsiModes => num_ctx \in 1..Vectors
  /\ irq_type # "none" => user # Nobody
  /\ err_trigger # NoFd => pcie

RequestInv == TypeOK /\ ModeFits /\ TriggersBalance /\ DataIsPassed

(* A request that gets past validation is within what the device has.      *)
LEMMA ValidFits ==
  ASSUME TypeOK, NEW r \in Requests, Valid(r)
  PROVE  /\ r.index = "intx" => ~nointx
         /\ r.index \in MsiModes => r.start + r.count \in 0..Vectors
<1>1. r.start \in Nat /\ r.count \in Nat /\ Vectors \in Nat
  BY RequestFields, SetIrqsAssumption
<1>2. CASE r.index = "intx"
  <2>1. IrqCount("intx") = IF nointx THEN 0 ELSE 1
    BY DEF IrqCount, MsiModes
  <2>. QED BY <1>1, <1>2, <2>1 DEF Valid, MsiModes
<1>3. CASE r.index \in MsiModes
  <2>1. IrqCount("msi") = Vectors /\ IrqCount("msix") = Vectors
    BY DEF IrqCount, MsiModes
  <2>. QED BY <1>1, <1>3, <2>1 DEF Valid, MsiModes
<1>. QED BY <1>2, <1>3

(* Replacing one of the two triggers keeps the references those of the     *)
(* triggers.                                                               *)
LEMMA SwapBalances ==
  ASSUME NEW old, NEW new, NEW kept, NEW fd \in EventFds,
         refs[fd] = Holds(fd, old) + Holds(fd, kept)
  PROVE  Swap(old, new)[fd] = Holds(fd, new) + Holds(fd, kept)
BY DEF Swap, Holds

(* The values a trigger can get are eventfds or none at all. *)
LEMMA TriggerType ==
  ASSUME NEW r \in Requests, NEW ctx \in EventFds \union {NoFd},
         NEW t \in NewTriggers(ctx, r)
  PROVE  t \in EventFds \union {NoFd}
BY RequestFields DEF NewTriggers

(* Reading the data of a request that has some leaves no trace. *)
LEMMA ReadsPassed ==
  ASSUME NEW r, r.count # 0, nullread = FALSE,
         Reads(r) \/ UNCHANGED nullread
  PROVE  nullread' = FALSE
BY DEF Reads

(* Every call of SET_IRQS, whatever it asks for, keeps the invariant.      *)
LEMMA SetIrqsStep ==
  ASSUME RequestInv, NEW r \in Requests, SetIrqs(r)
  PROVE  RequestInv'
<1>. USE DEF RequestInv, DataIsPassed, devVars
<1>1. /\ Valid(r) /\ user # Nobody /\ Vectors \in Nat /\ Vectors > 0
      /\ r.start \in Nat /\ r.count \in Nat
      /\ nullread = FALSE
  BY RequestFields, SetIrqsAssumption DEF SetIrqs, TypeOK
<1>2. CASE SetIntxMask(r)
  <2>1. nullread' = FALSE
    <3>1. r.count # 0 /\ (Reads(r) \/ UNCHANGED nullread)
      BY <1>2 DEF SetIntxMask, IntxMaskable
    <3>. QED BY <1>1, <3>1, ReadsPassed
  <2>. QED
    BY <1>2, <2>1 DEF SetIntxMask, TypeOK, ModeFits, TriggersBalance, Holds
<1>3. CASE SetIntxTrigger(r)
  <2>1. nullread' = FALSE
    <3>1. \/ UNCHANGED nullread
          \/ r.count # 0 /\ Reads(r)
      BY <1>1, <1>3 DEF SetIntxTrigger, OneVector
    <3>. QED BY <1>1, <3>1, ReadsPassed
  <2>2. ~nointx
    BY <1>1, <1>3, HandlerIndex, ValidFits DEF SetIntxTrigger
  <2>3. \/ irq_type' = "none" /\ num_ctx' = 0
        \/ irq_type' = "intx" /\ num_ctx' = 1
        \/ UNCHANGED <<irq_type, num_ctx>>
    BY <1>3 DEF SetIntxTrigger
  <2>4. TypeOK'
    <3>1. /\ irq_type' \in {"none", "intx"} \union MsiModes
          /\ num_ctx' \in 0..Vectors
      BY <1>1, <2>3 DEF TypeOK
    <3>. QED BY <1>3, <2>1, <3>1 DEF SetIntxTrigger, TypeOK
  <2>5. ModeFits'
    BY <1>1, <1>3, <2>2, <2>3 DEF SetIntxTrigger, ModeFits, MsiModes
  <2>. QED
    BY <1>3, <2>1, <2>4, <2>5 DEF SetIntxTrigger, TriggersBalance, Holds
<1>4. CASE SetMsiTrigger(r)
  <2>1. nullread' = FALSE
    <3>1. \/ UNCHANGED nullread
          \/ r.count # 0 /\ Reads(r)
      BY <1>1, <1>4 DEF SetMsiTrigger
    <3>. QED BY <1>1, <3>1, ReadsPassed
  <2>2. r.index \in MsiModes /\ r.start + r.count \in 0..Vectors
    BY <1>1, <1>4, HandlerIndex, ValidFits DEF SetMsiTrigger
  <2>3. \/ irq_type' = "none" /\ num_ctx' = 0
        \/ /\ irq_type' = r.index /\ num_ctx' = r.start + r.count
           /\ r.count > 0
        \/ UNCHANGED <<irq_type, num_ctx>>
    BY <1>4 DEF SetMsiTrigger
  <2>4. TypeOK'
    <3>1. /\ irq_type' \in {"none", "intx"} \union MsiModes
          /\ num_ctx' \in 0..Vectors
      BY <1>1, <2>2, <2>3 DEF TypeOK
    <3>. QED BY <1>4, <2>1, <3>1 DEF SetMsiTrigger, TypeOK
  <2>5. ModeFits'
    BY <1>1, <1>4, <2>2, <2>3 DEF SetMsiTrigger, ModeFits, MsiModes
  <2>. QED
    BY <1>4, <2>1, <2>4, <2>5 DEF SetMsiTrigger, TriggersBalance, Holds
<1>5. CASE SetErrTrigger(r)
  <2>1. nullread' = FALSE
    <3>1. \/ UNCHANGED nullread
          \/ r.count # 0 /\ Reads(r)
      BY <1>1, <1>5 DEF SetErrTrigger, SingleReads, NotEmpty
    <3>. QED BY <1>1, <3>1, ReadsPassed
  <2>2. err_trigger' \in EventFds \union {NoFd}
    BY <1>5, TriggerType DEF SetErrTrigger, TypeOK
  <2>3. TriggersBalance'
    <3>1. ASSUME NEW fd \in EventFds
          PROVE  refs'[fd] = Holds(fd, err_trigger') + Holds(fd, req_trigger)
      BY <1>5, SwapBalances DEF SetErrTrigger, TriggersBalance
    <3>. QED BY <1>5, <3>1 DEF SetErrTrigger, TriggersBalance, Holds
  <2>4. refs' \in [EventFds -> Nat]
    <3>1. refs' = Swap(err_trigger, err_trigger')
      BY <1>5 DEF SetErrTrigger
    <3>. QED BY <2>3, <3>1 DEF TriggersBalance, Holds, Swap
  <2>5. TypeOK'
    BY <1>5, <2>1, <2>2, <2>4 DEF SetErrTrigger, TypeOK
  <2>6. ModeFits'
    BY <1>5, HandlerIndex DEF SetErrTrigger, ModeFits
  <2>. QED BY <2>1, <2>3, <2>5, <2>6
<1>6. CASE SetReqTrigger(r)
  <2>1. nullread' = FALSE
    <3>1. \/ UNCHANGED nullread
          \/ r.count # 0 /\ Reads(r)
      BY <1>1, <1>6 DEF SetReqTrigger, SingleReads, NotEmpty
    <3>. QED BY <1>1, <3>1, ReadsPassed
  <2>2. req_trigger' \in EventFds \union {NoFd}
    BY <1>6, TriggerType DEF SetReqTrigger, TypeOK
  <2>3. TriggersBalance'
    <3>1. ASSUME NEW fd \in EventFds
          PROVE  refs'[fd] = Holds(fd, req_trigger') + Holds(fd, err_trigger)
      <4>1. refs[fd] = Holds(fd, req_trigger) + Holds(fd, err_trigger)
        BY DEF TriggersBalance, Holds
      <4>. QED BY <1>6, <4>1, SwapBalances DEF SetReqTrigger
    <3>. QED BY <1>6, <3>1 DEF SetReqTrigger, TriggersBalance, Holds
  <2>4. refs' \in [EventFds -> Nat]
    <3>1. refs' = Swap(req_trigger, req_trigger')
      BY <1>6 DEF SetReqTrigger
    <3>. QED BY <2>3, <3>1 DEF TriggersBalance, Holds, Swap
  <2>5. TypeOK'
    BY <1>6, <2>1, <2>2, <2>4 DEF SetReqTrigger, TypeOK
  <2>6. ModeFits'
    BY <1>6 DEF SetReqTrigger, ModeFits
  <2>. QED BY <2>1, <2>3, <2>5, <2>6
<1>. QED BY <1>2, <1>3, <1>4, <1>5, <1>6 DEF SetIrqs

(* The inductive invariant, whoever opens, closes and configures the       *)
(* device, and whenever the host wants it back.                            *)
THEOREM RequestsCorrect == Spec => []RequestInv
<1>1. Init => RequestInv
  <2>. SUFFICES ASSUME Init PROVE RequestInv
    OBVIOUS
  <2>1. 0 \in 0..MaxOpens /\ 0 \in 0..Vectors
    BY SetIrqsAssumption
  <2>2. TypeOK
    BY <2>1 DEF Init, TypeOK
  <2>3. TriggersBalance
    BY SetIrqsAssumption DEF Init, TriggersBalance, Holds
  <2>. QED
    BY <2>2, <2>3 DEF Init, RequestInv, ModeFits, DataIsPassed, MsiModes
<1>2. RequestInv /\ [Next]_vars => RequestInv'
  <2>. SUFFICES ASSUME RequestInv, [Next]_vars PROVE RequestInv'
    OBVIOUS
  <2>1. ASSUME NEW r \in Requests, SetIrqs(r) PROVE RequestInv'
    BY <2>1, SetIrqsStep
  <2>. USE SetIrqsAssumption DEF RequestInv, TypeOK, ModeFits,
           TriggersBalance, DataIsPassed, Holds, MsiModes, devVars
  <2>2. ASSUME NEW u \in Users, Open(u) PROVE RequestInv'
    BY <2>2 DEF Open
  <2>3. CASE Release
    BY <2>3 DEF Release, ModeLeft
  <2>4. CASE Request
    BY <2>4 DEF Request
  <2>5. CASE Error
    BY <2>5 DEF Error
  <2>6. CASE UNCHANGED vars
    BY <2>6 DEF vars
  <2>. QED BY <2>1, <2>2, <2>3, <2>4, <2>5, <2>6 DEF Next
<1>. QED BY <1>1, <1>2, PTL DEF Spec

(* Every variable keeps to its values; a trigger is put no more often than *)
(* it was got.                                                             *)
THEOREM TypeCorrect == Spec => []TypeOK
<1>1. RequestInv => TypeOK
  BY DEF RequestInv
<1>. QED BY <1>1, RequestsCorrect, PTL

(* No request makes a handler read data that was not passed in. *)
THEOREM NoNullRead == Spec => []DataIsPassed
<1>1. RequestInv => DataIsPassed
  BY DEF RequestInv
<1>. QED BY <1>1, RequestsCorrect, PTL

(* The references are those of the two triggers. *)
THEOREM TriggersAreBalanced == Spec => []TriggersBalance
<1>1. RequestInv => TriggersBalance
  BY DEF RequestInv
<1>. QED BY <1>1, RequestsCorrect, PTL

(* What is enabled was advertised, and a closed device delivers nothing. *)
THEOREM OnlyAdvertised == Spec => []EnabledIsAdvertised
<1>1. RequestInv => EnabledIsAdvertised
  <2>. SUFFICES ASSUME RequestInv PROVE EnabledIsAdvertised
    OBVIOUS
  <2>1. /\ IrqInfo("intx") = IF nointx THEN 0 ELSE 1
        /\ \A m \in MsiModes : IrqInfo(m) = Vectors
        /\ pcie => IrqInfo("err") = 1
    BY DEF IrqInfo, IrqCount, MsiModes
  <2>. QED BY <2>1 DEF RequestInv, ModeFits, TypeOK, EnabledIsAdvertised
<1>. QED BY <1>1, RequestsCorrect, PTL

(* A device changes its mode only by way of no mode at all. *)
THEOREM ModesExclude == Spec => ModesAreExclusive
<1>1. RequestInv /\ [Next]_vars
        => [irq_type' # irq_type
              => irq_type = "none" \/ irq_type' = "none"]_irq_type
  <2>. SUFFICES ASSUME RequestInv, Next
                PROVE  \/ irq_type = "none" \/ irq_type' = "none"
                       \/ UNCHANGED irq_type
    BY DEF vars
  <2>1. ASSUME NEW r \in Requests, SetIrqs(r)
        PROVE  \/ irq_type = "none" \/ irq_type' = "none"
               \/ UNCHANGED irq_type
    BY <2>1 DEF SetIrqs, SetIntxMask, SetIntxTrigger, OneVector,
                SetMsiTrigger, SameMode, SetErrTrigger, SetReqTrigger
  <2>2. CASE (\E u \in Users : Open(u)) \/ Release \/ Request \/ Error
    BY <2>2 DEF Open, Release, ModeLeft, Request, Error
  <2>. QED BY <2>1, <2>2 DEF Next
<1>. QED BY <1>1, RequestsCorrect, PTL DEF Spec, ModesAreExclusive
=============================================================================

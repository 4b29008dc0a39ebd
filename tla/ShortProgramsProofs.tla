------------------------ MODULE ShortProgramsProofs ------------------------
(***************************************************************************)
(* The samples, that of mmio for any addresses, and the log removal script *)
(* for any number of runs and logs.                                        *)
(***************************************************************************)
EXTENDS ShortPrograms, FiniteSetTheorems, SequenceTheorems, TLAPS

-----------------------------------------------------------------------------
(* The work has its memory until it has been flushed, and the tasklet its  *)
(* code until it has been killed.                                          *)
WorkInv ==
  /\ wq \in {"init", "live", "flush", "free"} => mem = "allocated"
  /\ work # "idle" => wq \in {"live", "flush"}
  /\ tasklet # "idle" => tk \in {"live", "kill"}

(* Neither the worker nor the softirq runs code, or reads memory, that     *)
(* rmmod has freed (hwork_queue.c: hwqueue_exit, htasklet.c: htasklet_exit *)
(* wait for them first).                                                   *)
THEOREM WorkIsSafe == FairSpec => []Work!NoStaleUse
<1>1. Init => WorkInv
  BY DEF Init, Work!Init, WorkInv
<1>2. WorkInv /\ [Next]_vars => WorkInv'
  <2>. SUFFICES ASSUME WorkInv, [Next]_vars PROVE WorkInv'
    OBVIOUS
  <2>1. CASE Work!Next
    BY <2>1 DEF WorkInv, Work!Next, Work!KernelStep, Work!InsmodWork,
         Work!QueueWork, Work!WorkStarts, Work!WorkEnds, Work!RmmodWork,
         Work!FlushWork, Work!Flushed, Work!FreeWork, Work!InsmodTasklet,
         Work!TaskletStarts, Work!TaskletEnds, Work!RmmodTasklet,
         Work!KillTasklet, Work!workVars, Work!taskletVars
  <2>2. CASE UNCHANGED workVars
    BY <2>2 DEF WorkInv, workVars
  <2>. QED BY <2>1, <2>2 DEF Next, RunWork, RunMmio, RunLists, RunLog, vars
<1>3. WorkInv => Work!NoStaleUse
  BY DEF WorkInv, Work!NoStaleUse
<1>. QED BY <1>1, <1>2, <1>3, PTL DEF FairSpec

-----------------------------------------------------------------------------
(* A thread of the mmio sample is one that the parameters ask for, and     *)
(* lives from where init creates it to where exit has stopped it.          *)
MmioInv ==
  /\ mod \in {"create rd", "create wr"} => addr # 0
  /\ mod # "oops" => \A t \in Mmio!RW : thread[t] # "none" =>
       /\ addr # 0 /\ Mmio!Bit(t, rw_flag)
       /\ mod \in {"create wr", "live", "stop rd", "stop wr"}
       /\ t = "rd" => mod # "stop wr"
       /\ t = "wr" => mod # "create wr"

(* The variables it is about *)
MmioOK == thread \in [Mmio!RW -> {"none", "new", "running"}]

(* Each step of init, exit and the threads keeps both, unless it dies, as  *)
(* long as no parameter changes what exit looks at.                        *)
LEMMA MmioStep ==
  ASSUME FixedMode, MmioOK, MmioInv, Mmio!Next
  PROVE  MmioOK' /\ MmioInv'
<1>. USE DEF MmioOK, MmioInv, Mmio!RW, Mmio!Go
<1>1. ASSUME Mmio!Insmod \/ Mmio!InitNoAddr \/ Mmio!Ioremap \/ Mmio!Rmmod
      PROVE  MmioOK' /\ MmioInv'
  BY <1>1 DEF Mmio!Insmod, Mmio!InitNoAddr, Mmio!Ioremap, Mmio!Rmmod
<1>2. ASSUME Mmio!WriteParams
      PROVE  MmioOK' /\ MmioInv'
  BY <1>2 DEF Mmio!WriteParams, Mmio!SameMode
<1>3. ASSUME NEW t \in Mmio!RW, Mmio!Create(t)
      PROVE  MmioOK' /\ MmioInv'
  <2>1. mod = IF t = "rd" THEN "create rd" ELSE "create wr"
    BY <1>3 DEF Mmio!Create, Mmio!Creating
  <2>2. CASE t = "rd"
    BY <1>3, <2>1, <2>2 DEF Mmio!Create, Mmio!After
  <2>3. CASE t = "wr"
    BY <1>3, <2>1, <2>3 DEF Mmio!Create, Mmio!After
  <2>. QED BY <2>2, <2>3
<1>4. ASSUME NEW t \in Mmio!RW, mod # "oops", Mmio!ThreadStep(t)
      PROVE  MmioOK' /\ MmioInv'
  BY <1>4 DEF Mmio!ThreadStep, Mmio!Run, Mmio!Access, Mmio!End
<1>5. ASSUME NEW t \in Mmio!RW, mod # "oops",
             Mmio!StopSkipped(t) \/ Mmio!KthreadStop(t) \/ Mmio!Stopped(t)
      PROVE  MmioOK' /\ MmioInv'
  <2>1. mod = IF t = "rd" THEN "stop rd" ELSE "stop wr"
    BY <1>5 DEF Mmio!StopSkipped, Mmio!KthreadStop, Mmio!Stopped,
                Mmio!Stopping
  <2>2. /\ thread' = thread /\ addr' = addr /\ rw_flag' = rw_flag
        /\ mod' # mod /\ mod' # "oops" =>
             /\ mod' = IF t = "rd" THEN "stop wr" ELSE "absent"
             /\ ~Mmio!Bit(t, rw_flag) \/ thread[t] = "none"
    BY <1>5 DEF Mmio!StopSkipped, Mmio!KthreadStop, Mmio!Stopped,
                Mmio!BothStop
  <2>3. MmioOK'
    BY <2>2
  <2>4. ASSUME mod' # "oops", NEW s \in Mmio!RW, thread'[s] # "none"
        PROVE  /\ addr' # 0 /\ Mmio!Bit(s, rw_flag')
               /\ mod' \in {"create wr", "live", "stop rd", "stop wr"}
               /\ s = "rd" => mod' # "stop wr"
               /\ s = "wr" => mod' # "create wr"
    <3>1. addr' # 0 /\ Mmio!Bit(s, rw_flag')
      BY <1>5, <2>2, <2>4
    <3>2. CASE mod' = mod
      BY <1>5, <2>2, <2>4, <3>2
    <3>3. CASE mod' # mod
      <4>1. s # t
        BY <1>5, <2>2, <2>4, <3>1, <3>3
      <4>2. t = "rd"
        BY <1>5, <2>1, <2>2, <2>4, <4>1
      <4>. QED BY <2>2, <2>4, <3>1, <3>3, <4>1, <4>2
    <3>. QED BY <3>2, <3>3
  <2>5. mod' \notin {"create rd", "create wr"}
    BY <1>5, <2>1, <2>2
  <2>. QED BY <2>3, <2>4, <2>5
<1>. QED BY <1>1, <1>2, <1>3, <1>4, <1>5 DEF Mmio!Next, Mmio!ModStep

(* No thread of the mmio sample outlives the module, if nobody changes     *)
(* what exit looks at (bmmio.c: mmio_test_exit stops what the parameters   *)
(* say).                                                                   *)
THEOREM MmioIsSafe ==
  ASSUME FixedMode
  PROVE  FairSpec => []Mmio!NoStaleUse
<1>1. Init => MmioOK /\ MmioInv
  BY DEF Init, Mmio!Init, MmioOK, MmioInv, Mmio!RW
<1>2. MmioOK /\ MmioInv /\ [Next]_vars => MmioOK' /\ MmioInv'
  <2>. SUFFICES ASSUME MmioOK, MmioInv, [Next]_vars
                PROVE  MmioOK' /\ MmioInv'
    OBVIOUS
  <2>1. CASE Mmio!Next
    BY <2>1, MmioStep
  <2>2. CASE UNCHANGED mmioVars
    BY <2>2 DEF MmioOK, MmioInv, mmioVars
  <2>. QED BY <2>1, <2>2 DEF Next, RunWork, RunMmio, RunLists, RunLog, vars
<1>3. MmioOK /\ MmioInv => Mmio!NoStaleUse
  BY DEF MmioOK, MmioInv, Mmio!NoStaleUse
<1>. QED BY <1>1, <1>2, <1>3, PTL DEF FairSpec

-----------------------------------------------------------------------------
(* The oldest of some logs is there, and none is older. *)
LEMMA OldestExists ==
  ASSUME NEW S \in SUBSET Nat, S # {}
  PROVE  Log!Min(S) \in S /\ \A n \in S : Log!Min(S) <= n
<1>1. PICK m \in S : \A n \in S : ~(<<n, m>> \in OpToRel(<, Nat))
  BY NatLessThanWellFounded, WFMin
<1>2. ASSUME NEW n \in S
      PROVE  m <= n
  <2>1. m \in Nat /\ n \in Nat
    OBVIOUS
  <2>2. ~(n < m)
    BY <1>1, <2>1 DEF OpToRel
  <2>. QED BY <2>1, <2>2
<1>. QED BY <1>2 DEF Log!Min

(* A new log does not change which is the oldest. *)
LEMMA OldestStays ==
  ASSUME NEW S \in SUBSET Nat, S # {}, NEW n \in Nat, \A m \in S : m < n
  PROVE  Log!Min(S \union {n}) = Log!Min(S)
<1>. DEFINE a == Log!Min(S)
            b == Log!Min(S \union {n})
<1>1. a \in S /\ \A m \in S : a <= m
  BY OldestExists
<1>2. b \in S \union {n} /\ \A m \in S \union {n} : b <= m
  BY OldestExists
<1>. HIDE DEF a, b
<1>3. b <= a /\ a <= b /\ a \in Nat /\ b \in Nat
  BY <1>1, <1>2
<1>4. a = b
  BY <1>3
<1>. QED BY <1>4 DEF a, b

(* Runs do not overlap. *)
AloneInv == \A r, s \in Runs : pc[r] # "idle" /\ pc[s] # "idle" => r = s

(* While a run is at a log it is the oldest one, and there are enough. *)
OldestInv ==
  \A r \in Runs :
    /\ pc[r] \in {"pick", "record", "rm"} => Cardinality(logs) > MinLogNum
    /\ pc[r] \in {"record", "rm"} => oldest[r] \in logs
                                    /\ oldest[r] = Log!Min(logs)

(* What the mail file of a run lists is gone or could not be removed, but  *)
(* for the log whose rm comes next; it is sent before it is emptied.       *)
MailInv ==
  /\ MailTellsAll
  /\ mailed \union mail_file \subseteq 1..newest
  /\ (\A r \in Runs : pc[r] = "idle") => mail_file = {}
  /\ \A r \in Runs :
       /\ pc[r] # "idle" /\ ~mail_change_flag[r] => mail_file = {}
       /\ pc[r] \in {"pick", "record", "rm"} => mail_change_flag[r]
       /\ pc[r] \in {"df", "while", "pick", "record"}
            => mail_file \intersect logs \subseteq failed
       /\ pc[r] = "rm" => /\ oldest[r] \in mail_file
                          /\ mail_file \intersect logs
                               \subseteq failed \union {oldest[r]}

LogInv == Log!TypeOK /\ AloneInv /\ OldestInv /\ MailInv

(* The number of logs is the same in RemoveLog and here. *)
LEMMA SameCardinality == \A S : Log!Cardinality(S) = Cardinality(S)
BY DEF Log!Cardinality, Cardinality

(* The logs are finitely many numbers. *)
LEMMA LogsFinite ==
  ASSUME Log!TypeOK
  PROVE  /\ IsFiniteSet(logs) /\ Cardinality(logs) \in Nat
         /\ logs \in SUBSET Nat /\ (Cardinality(logs) = 0 <=> logs = {})
<1>1. newest \in Int /\ logs \in SUBSET (1..newest)
  BY ShortProgramsAssumption DEF Log!TypeOK
<1>2. IsFiniteSet(1..newest)
  BY <1>1, FS_Interval
<1>3. IsFiniteSet(logs)
  BY <1>1, <1>2, FS_Subset
<1>4. Cardinality(logs) \in Nat /\ (Cardinality(logs) = 0 <=> logs = {})
  BY <1>3, FS_CardinalityType, FS_EmptySet
<1>. QED BY <1>1, <1>3, <1>4

(* The types of the script, however its runs overlap: logs are numbered up *)
(* to the newest, and a run at none has an empty name.                     *)
LEMMA LogTypes ==
  ASSUME Log!TypeOK, [Next]_vars
  PROVE  Log!TypeOK'
<1>. USE ShortProgramsAssumption DEF Log!TypeOK, Log!Logs
<1>0. logs \in SUBSET (1..MaxLogs) /\ newest \in 0..MaxLogs
  OBVIOUS
<1>1. CASE Log!WriteLog
  BY <1>1 DEF Log!WriteLog, Log!runVars
<1>2. CASE Log!DiskUse
  BY <1>2 DEF Log!DiskUse, Log!runVars
<1>3. ASSUME NEW r \in Runs, Log!Start(r)
      PROVE  Log!TypeOK'
  BY <1>3 DEF Log!Start, Log!Go, Log!hostVars
<1>4. ASSUME NEW r \in Runs, Log!Step(r)
      PROVE  Log!TypeOK'
  <2>. USE DEF Log!Go, Log!hostVars
  <2>1. CASE Log!ReadUse(r) \/ Log!Count(r)
    BY <1>0, <2>1 DEF Log!ReadUse, Log!Count
  <2>2. CASE Log!TooSmall(r) \/ Log!Finish(r)
    BY <1>0, <2>2 DEF Log!TooSmall, Log!Finish, Log!Send
  <2>3. CASE Log!PickOldest(r)
    <3>. DEFINE name == IF logs = {} THEN 0 ELSE Log!Min(logs)
    <3>1. name \in 0..MaxLogs
      <4>1. CASE logs = {}
        BY <4>1
      <4>2. CASE logs # {}
        <5>1. Log!Min(logs) \in logs
          BY <4>2, LogsFinite, OldestExists
        <5>2. logs \subseteq 0..MaxLogs
          BY <1>0
        <5>. HIDE DEF Log!TypeOK
        <5>. QED BY <4>2, <5>1, <5>2
      <4>. QED BY <4>1, <4>2
    <3>2. oldest' = [oldest EXCEPT ![r] = name]
      BY <2>3 DEF Log!PickOldest
    <3>. HIDE DEF name
    <3>. QED BY <1>0, <2>3, <3>1, <3>2 DEF Log!PickOldest
  <2>4. CASE Log!Record(r)
    <3>1. {oldest[r]} \ {0} \subseteq 1..MaxLogs
      <4>1. oldest[r] \in 0..MaxLogs
        OBVIOUS
      <4>. QED BY <4>1
    <3>2. mail_file' \subseteq 1..MaxLogs
      BY <2>4, <3>1 DEF Log!Record, Log!Add
    <3>. QED BY <1>0, <2>4, <3>2 DEF Log!Record
  <2>5. CASE Log!RemoveOldest(r)
    BY <1>0, <2>5 DEF Log!RemoveOldest, Log!Target
  <2>. QED BY <1>4, <2>1, <2>2, <2>3, <2>4, <2>5 DEF Log!Step
<1>5. CASE UNCHANGED logVars
  BY <1>5 DEF logVars
<1>. QED BY <1>1, <1>2, <1>3, <1>4, <1>5
         DEF Next, RunWork, RunMmio, RunLists, RunLog, vars, Log!Next

(* A new log is the newest: the oldest stays, and none is missing. *)
LEMMA WriteLogStep ==
  ASSUME LogInv, Log!WriteLog
  PROVE  AloneInv' /\ OldestInv' /\ MailInv'
<1>1. /\ newest < MaxLogs /\ newest' = newest + 1
      /\ logs' = logs \union {newest'}
      /\ UNCHANGED <<mail_file, pc, mail_change_flag, oldest, failed, mailed>>
  BY DEF Log!WriteLog, Log!runVars
<1>2. newest \in Nat /\ logs \in SUBSET (1..newest) /\ MaxLogs \in Nat
  BY ShortProgramsAssumption DEF LogInv, Log!TypeOK
<1>3. newest' \notin logs /\ newest' \notin mailed \union mail_file
  BY <1>1, <1>2 DEF LogInv, MailInv
<1>4. AloneInv'
  BY <1>1 DEF LogInv, AloneInv
<1>5. MailInv'
  <2>1. (1..newest') \ logs' = (1..newest) \ logs
    BY <1>1, <1>2
  <2>2. /\ mailed \intersect logs' = mailed \intersect logs
        /\ mail_file \intersect logs' = mail_file \intersect logs
    BY <1>1, <1>3
  <2>3. 1..newest \subseteq 1..newest'
    BY <1>1, <1>2
  <2>4. MailTellsAll'
    BY <1>1, <2>1, <2>2
       DEF LogInv, MailInv, MailTellsAll, Log!MailTellsAll
  <2>. QED BY <1>1, <2>2, <2>3, <2>4 DEF LogInv, MailInv
<1>6. OldestInv'
  <2>. SUFFICES ASSUME NEW r \in Runs
                PROVE  /\ pc[r] \in {"pick", "record", "rm"}
                             => Cardinality(logs') > MinLogNum
                       /\ pc[r] \in {"record", "rm"}
                             => /\ oldest[r] \in logs'
                                /\ oldest[r] = Log!Min(logs')
    BY <1>1 DEF OldestInv, Log!Min
  <2>1. Cardinality(logs') = Cardinality(logs) + 1
    BY <1>1, <1>3, LogsFinite, FS_AddElement DEF LogInv
  <2>2. ASSUME logs # {}
        PROVE  Log!Min(logs') = Log!Min(logs)
    <3>1. /\ logs \in SUBSET Nat /\ newest' \in Nat
          /\ \A m \in logs : m < newest'
      BY <1>1, <1>2
    <3>2. Log!Min(logs \union {newest'}) = Log!Min(logs)
      BY <2>2, <3>1, OldestStays
    <3>. QED BY <1>1, <3>2
  <2>3. Cardinality(logs) \in Nat /\ MinLogNum \in Nat
    BY LogsFinite, ShortProgramsAssumption DEF LogInv
  <2>. QED BY <1>1, <2>1, <2>2, <2>3 DEF LogInv, OldestInv
<1>. QED BY <1>4, <1>5, <1>6

(* A run starts when no other is under way: there is nothing in the mail   *)
(* file that it wipes.                                                     *)
LEMMA StartStep ==
  ASSUME Serial, LogInv, NEW r \in Runs, Log!Start(r)
  PROVE  AloneInv' /\ OldestInv' /\ MailInv'
<1>1. /\ \A s \in Runs : pc[s] = "idle"
      /\ pc' = [pc EXCEPT ![r] = "df"] /\ mail_file' = {}
      /\ UNCHANGED <<logs, newest, failed, mailed>>
  BY DEF Log!Start, Log!Go, Log!hostVars
<1>2. AloneInv'
  BY <1>1 DEF LogInv, Log!TypeOK, AloneInv
<1>3. \A s \in Runs : pc'[s] = IF s = r THEN "df" ELSE "idle"
  BY <1>1 DEF LogInv, Log!TypeOK
<1>4. OldestInv'
  BY <1>3 DEF OldestInv
<1>5. MailInv'
  <2>1. mail_file = {}
    BY <1>1 DEF LogInv, MailInv
  <2>2. MailTellsAll'
    BY <1>1, <2>1 DEF LogInv, MailInv, MailTellsAll, Log!MailTellsAll
  <2>. QED BY <1>1, <1>3, <2>2 DEF LogInv, MailInv
<1>. QED BY <1>2, <1>4, <1>5

(* The steps of a run: no other moves meanwhile. *)
LEMMA RunStep ==
  ASSUME LogInv, NEW r \in Runs, Log!Step(r)
  PROVE  AloneInv' /\ OldestInv' /\ MailInv'
<1>0. /\ pc[r] # "idle" /\ newest' = newest
      /\ \A s \in Runs \ {r} : pc[s] = "idle" /\ pc'[s] = "idle"
  <2>1. pc[r] # "idle" /\ newest' = newest
    BY DEF Log!Step, Log!ReadUse, Log!Count, Log!TooSmall, Log!PickOldest,
           Log!Record, Log!RemoveOldest, Log!Finish, Log!Go, Log!hostVars
  <2>2. ASSUME NEW s \in Runs \ {r}
        PROVE  pc'[s] = pc[s]
    BY DEF LogInv, Log!TypeOK,
           Log!Step, Log!ReadUse, Log!Count, Log!TooSmall, Log!PickOldest,
           Log!Record, Log!RemoveOldest, Log!Finish, Log!Go
  <2>. QED BY <2>1, <2>2 DEF LogInv, AloneInv
<1>. DEFINE OldestStep ==
              /\ pc'[r] \in {"pick", "record", "rm"}
                   => Cardinality(logs') > MinLogNum
              /\ pc'[r] \in {"record", "rm"}
                   => oldest'[r] \in logs' /\ oldest'[r] = Log!Min(logs')
            MailStep ==
              /\ (1..newest) \ logs' \subseteq mailed' \union mail_file'
              /\ mailed' \intersect logs' \subseteq failed'
              /\ mailed' \union mail_file' \subseteq 1..newest
              /\ pc'[r] = "idle" \/ ~mail_change_flag'[r] => mail_file' = {}
              /\ pc'[r] \in {"pick", "record", "rm"} => mail_change_flag'[r]
              /\ pc'[r] \in {"df", "while", "pick", "record"}
                   => mail_file' \intersect logs' \subseteq failed'
              /\ pc'[r] = "rm" => /\ oldest'[r] \in mail_file'
                                  /\ mail_file' \intersect logs'
                                       \subseteq failed' \union {oldest'[r]}
<1>1. SUFFICES OldestStep /\ MailStep
  <2>1. AloneInv'
    BY <1>0 DEF AloneInv
  <2>2. OldestInv'
    BY <1>0, <1>1 DEF OldestInv, Log!Min
  <2>3. MailTellsAll'
    BY <1>0, <1>1 DEF MailTellsAll, Log!MailTellsAll
  <2>4. MailInv'
    BY <1>0, <1>1, <2>3 DEF MailInv
  <2>. QED BY <2>1, <2>2, <2>4
<1>2. /\ Cardinality(logs) \in Nat /\ MinLogNum \in Nat
      /\ logs \in SUBSET Nat /\ (Cardinality(logs) = 0 <=> logs = {})
  BY LogsFinite, ShortProgramsAssumption DEF LogInv
<1>3. /\ newest \in Nat /\ logs \in SUBSET (1..newest)
      /\ pc \in [Runs -> {"idle", "df", "while", "pick", "record", "rm"}]
      /\ mail_change_flag \in [Runs -> BOOLEAN]
      /\ oldest \in [Runs -> 0..MaxLogs]
  BY ShortProgramsAssumption DEF LogInv, Log!TypeOK
<1>4. /\ (1..newest) \ logs \subseteq mailed \union mail_file
      /\ mailed \intersect logs \subseteq failed
      /\ mailed \union mail_file \subseteq 1..newest
  BY DEF LogInv, MailInv, MailTellsAll, Log!MailTellsAll
<1>5. /\ ~mail_change_flag[r] => mail_file = {}
      /\ pc[r] \in {"pick", "record", "rm"}
           => mail_change_flag[r] /\ Cardinality(logs) > MinLogNum
      /\ pc[r] \in {"record", "rm"}
           => oldest[r] \in logs /\ oldest[r] = Log!Min(logs)
      /\ pc[r] \in {"df", "while", "pick", "record"}
           => mail_file \intersect logs \subseteq failed
      /\ pc[r] = "rm" => /\ oldest[r] \in mail_file
                         /\ mail_file \intersect logs
                              \subseteq failed \union {oldest[r]}
  BY <1>0 DEF LogInv, OldestInv, MailInv
<1>. USE <1>2, <1>3, <1>4, <1>5 DEF Log!Go, Log!hostVars
<1>6. CASE Log!ReadUse(r)
  BY <1>6 DEF Log!ReadUse
<1>7. CASE Log!Count(r)
  <2>1. Cardinality(logs) > MinLogNum
    BY <1>7, SameCardinality DEF Log!Count, Log!MoreThanMin
  <2>. QED BY <1>7, <2>1 DEF Log!Count
<1>8. CASE Log!TooSmall(r)
  BY <1>8 DEF Log!TooSmall, Log!Send
<1>9. CASE Log!PickOldest(r)
  <2>1. /\ pc' = [pc EXCEPT ![r] = "record"] /\ pc[r] = "pick"
        /\ UNCHANGED <<logs, newest, mail_file, mail_change_flag, failed,
                       mailed>>
    BY <1>9 DEF Log!PickOldest
  <2>2. logs # {}
    BY <2>1
  <2>3. oldest' = [oldest EXCEPT ![r] = Log!Min(logs)]
    BY <1>9, <2>2 DEF Log!PickOldest
  <2>4. Log!Min(logs) \in logs
    BY <2>2, OldestExists
  <2>5. Log!Min(logs') = Log!Min(logs)
    BY <2>1
  <2>. HIDE DEF Log!Min
  <2>. QED BY <2>1, <2>3, <2>4, <2>5
<1>10. CASE Log!Record(r)
  <2>1. oldest[r] \in logs /\ oldest[r] # 0 /\ oldest[r] \in 1..newest
    BY <1>10 DEF Log!Record
  <2>2. mail_file' = mail_file \union {oldest[r]}
    BY <1>10, <2>1 DEF Log!Record, Log!Add
  <2>. QED BY <1>10, <2>1, <2>2 DEF Log!Record
<1>11. CASE Log!RemoveOldest(r)
  <2>1. /\ pc' = [pc EXCEPT ![r] = "df"] /\ pc[r] = "rm"
        /\ UNCHANGED <<newest, mail_file, mail_change_flag, oldest, mailed>>
    BY <1>11 DEF Log!RemoveOldest
  <2>2. oldest[r] \in logs /\ oldest[r] # 0
    BY <2>1
  <2>3. PICK gone \in SUBSET {oldest[r]} :
          /\ logs' = logs \ gone
          /\ failed' = failed \union ({oldest[r]} \ gone)
    <3>1. Log!Target(r) = {oldest[r]}
      BY <2>2 DEF Log!Target
    <3>. QED BY <1>11, <3>1 DEF Log!RemoveOldest
  <2>. QED BY <2>1, <2>2, <2>3
<1>12. CASE Log!Finish(r)
  BY <1>12 DEF Log!Finish, Log!Send
<1>. QED
  BY <1>6, <1>7, <1>8, <1>9, <1>10, <1>11, <1>12 DEF Log!Step

(* The types of the script hold from the start. *)
LEMMA LogTyped == FairSpec => []Log!TypeOK
<1>1. Init => Log!TypeOK
  BY ShortProgramsAssumption DEF Init, Log!Init, Log!TypeOK, Log!Logs
<1>. QED BY <1>1, LogTypes, PTL DEF FairSpec

(* The script never loses its invariant, if runs do not overlap. *)
LEMMA LogCorrect == Serial => (FairSpec => []LogInv)
<1>. SUFFICES ASSUME Serial PROVE FairSpec => []LogInv
  OBVIOUS
<1>1. Init => LogInv
  <2>. SUFFICES ASSUME Init PROVE LogInv
    OBVIOUS
  <2>1. Log!TypeOK
    BY ShortProgramsAssumption DEF Init, Log!Init, Log!TypeOK, Log!Logs
  <2>. QED BY <2>1 DEF Init, Log!Init, LogInv, AloneInv, OldestInv, MailInv,
                       MailTellsAll, Log!MailTellsAll
<1>2. LogInv /\ [Next]_vars => LogInv'
  <2>. SUFFICES ASSUME LogInv, [Next]_vars PROVE LogInv'
    OBVIOUS
  <2>0. Log!TypeOK'
    BY LogTypes DEF LogInv
  <2>. SUFFICES AloneInv' /\ OldestInv' /\ MailInv'
    BY <2>0 DEF LogInv
  <2>1. CASE Log!WriteLog
    BY <2>1, WriteLogStep
  <2>2. CASE Log!DiskUse
    BY <2>2 DEF Log!DiskUse, Log!runVars, LogInv, AloneInv, OldestInv,
                MailInv, MailTellsAll, Log!MailTellsAll, Log!Min
  <2>3. ASSUME NEW r \in Runs, Log!Start(r)
        PROVE  AloneInv' /\ OldestInv' /\ MailInv'
    BY <2>3, StartStep
  <2>4. ASSUME NEW r \in Runs, Log!Step(r)
        PROVE  AloneInv' /\ OldestInv' /\ MailInv'
    BY <2>4, RunStep
  <2>5. CASE UNCHANGED logVars
    BY <2>5 DEF logVars, LogInv, AloneInv, OldestInv, MailInv, MailTellsAll,
                Log!MailTellsAll, Log!Min
  <2>. QED BY <2>1, <2>2, <2>3, <2>4, <2>5
           DEF Next, RunWork, RunMmio, RunLists, RunLog, vars, Log!Next
<1>. QED BY <1>1, <1>2, PTL DEF FairSpec

(* If runs do not overlap, every log that is gone is in a mail or in the   *)
(* mail file of the run under way, and what a mail lists is gone unless    *)
(* its rm failed (remove_log.sh:97-99).                                    *)
THEOREM MailIsComplete ==
  ASSUME Serial
  PROVE  FairSpec => []MailTellsAll
<1>1. LogInv => MailTellsAll
  BY DEF LogInv, MailInv
<1>. QED BY <1>1, LogCorrect, PTL

(* Then only the oldest log is ever removed, and never one of the last     *)
(* min_log_num, although logs are written between the count and the        *)
(* removal (remove_log.sh:14, 81-83).                                      *)
THEOREM LastLogsAreKept ==
  ASSUME Serial
  PROVE  FairSpec => LogsKept
<1>1. LogInv /\ [Next]_vars =>
        [~(logs \subseteq logs') =>
            /\ logs \ logs' = {Log!Min(logs)}
            /\ Log!Cardinality(logs') >= MinLogNum]_(Log!vars)
  <2>. SUFFICES ASSUME LogInv, [Next]_vars, ~(logs \subseteq logs')
                PROVE  /\ logs \ logs' = {Log!Min(logs)}
                       /\ Cardinality(logs') >= MinLogNum
    BY SameCardinality
  <2>1. PICK r \in Runs : Log!RemoveOldest(r)
    BY DEF Next, RunWork, RunMmio, RunLists, RunLog, vars, logVars, Log!Next,
           Log!WriteLog, Log!DiskUse, Log!Start, Log!Step, Log!ReadUse,
           Log!Count, Log!TooSmall, Log!PickOldest, Log!Record, Log!Finish,
           Log!Send, Log!hostVars
  <2>2. /\ oldest[r] \in logs /\ oldest[r] = Log!Min(logs)
        /\ Cardinality(logs) > MinLogNum
    BY <2>1 DEF LogInv, OldestInv, Log!RemoveOldest, Log!Go
  <2>3. logs' = logs \ {oldest[r]}
    <3>1. oldest[r] # 0
      BY <2>2 DEF LogInv, Log!TypeOK
    <3>2. Log!Target(r) = {oldest[r]}
      BY <2>2, <3>1 DEF Log!Target
    <3>. QED BY <2>1, <3>2 DEF Log!RemoveOldest
  <2>4. Cardinality(logs') = Cardinality(logs) - 1
    <3>1. IsFiniteSet(logs)
      BY LogsFinite DEF LogInv
    <3>2. Cardinality(logs \ {oldest[r]}) = Cardinality(logs) - 1
      BY <2>2, <3>1, FS_RemoveElement
    <3>. QED BY <2>3, <3>2
  <2>5. Cardinality(logs) \in Nat /\ MinLogNum \in Nat
    BY LogsFinite, ShortProgramsAssumption DEF LogInv
  <2>. QED BY <2>2, <2>3, <2>4, <2>5
<1>. QED BY <1>1, LogCorrect, PTL DEF FairSpec, LogsKept, Log!LogsKept

-----------------------------------------------------------------------------
(* hlist                                                                   *)

(* k nodes are gone from the list, in the order in which they came. *)
Gone(k) ==
  /\ Len(list) = 3 - k /\ \A i \in 1..3 - k : list[i] = k + i - 1
  /\ freed = {n \in Lists!Nodes : n < k}
  /\ aPerson = IF k < 3 THEN k ELSE -1
  /\ tmp = IF k < 2 THEN k + 1 ELSE -1

ListOK ==
  /\ lmod \in {"absent", "init", "live", "exit", "oops"}
  /\ list \in Seq(Lists!Nodes) /\ Len(list) <= 3
  /\ freed \subseteq Lists!Nodes
  /\ aPerson \in -1..2 /\ tmp \in -1..2

ListInv ==
  /\ lmod = "absent" => list = <<>>
  /\ lmod \in {"init", "live"}
       => freed = {} /\ \A i \in 1..Len(list) : list[i] = i - 1
  /\ lmod = "live" => Len(list) = 3
  /\ lmod = "exit" => \E k \in 0..3 : Gone(k)

(* Each node that hlist_exit deletes is the first of those that are left.  *)
LEMMA ListKept ==
  ASSUME ListOK, ListInv, stale = FALSE,
         Lists!InsmodList \/ Lists!RmmodList \/ Lists!ListStep
  PROVE  ListOK' /\ ListInv' /\ stale' = FALSE
<1>. USE DEF ListOK, ListInv, Lists!Nodes, Lists!Size, Lists!Nil
<1>1. CASE Lists!InsmodList
  BY <1>1 DEF Lists!InsmodList
<1>2. CASE Lists!AddPerson
  <2>1. /\ lmod = "init" /\ Len(list) < 3 /\ freed' = freed
        /\ UNCHANGED <<aPerson, tmp, stale>>
        /\ \/ lmod' = lmod /\ list' = Append(list, Len(list))
           \/ lmod' = "oops" /\ list' = list
    BY <1>2 DEF Lists!AddPerson
  <2>. QED BY <2>1
<1>3. CASE Lists!ListReady
  BY <1>3 DEF Lists!ListReady
<1>4. CASE Lists!RmmodList
  <2>1. /\ lmod = "live" /\ lmod' = "exit"
        /\ aPerson' = Head(list) /\ tmp' = Lists!Successor(list, aPerson')
        /\ UNCHANGED <<list, freed, stale>>
    BY <1>4 DEF Lists!RmmodList
  <2>2. aPerson' = 0
    BY <2>1
  <2>3. Lists!Place(list, aPerson') = 1 /\ list[2] = 1
    BY <2>1, <2>2 DEF Lists!Place
  <2>4. tmp' = 1
    BY <2>1, <2>2, <2>3 DEF Lists!Successor
  <2>5. /\ Len(list') = 3 /\ \A i \in 1..3 : list'[i] = i - 1
        /\ freed' = {}
    BY <2>1
  <2>6. {n \in 0..2 : n < 0} = {}
    OBVIOUS
  <2>7. Gone(0)'
    BY <2>2, <2>4, <2>5, <2>6 DEF Gone
  <2>. QED BY <2>1, <2>2, <2>4, <2>7
<1>5. CASE Lists!DeletePerson
  <2>1. PICK k \in 0..3 : Gone(k)
    BY <1>5 DEF Lists!DeletePerson
  <2>2. /\ lmod = "exit" /\ lmod' = lmod /\ aPerson # -1
        /\ list' = Lists!RemoveAt(list, Lists!Place(list, aPerson))
        /\ freed' = freed \union {aPerson}
        /\ aPerson' = tmp /\ tmp' = Lists!Successor(list', tmp)
        /\ stale' = (stale \/ tmp \in freed')
    BY <1>5 DEF Lists!DeletePerson
  <2>3. k < 3 /\ aPerson = k /\ Len(list) = 3 - k /\ list[1] = k
    BY <2>1, <2>2 DEF Gone
  <2>4. Lists!Place(list, aPerson) = 1
    <3>1. \A i \in DOMAIN list : list[i] = k + i - 1
      BY <2>1 DEF Gone
    <3>. QED BY <2>3, <3>1 DEF Lists!Place
  <2>5. list' = SubSeq(list, 1, 0) \o SubSeq(list, 2, Len(list))
    BY <2>2, <2>4 DEF Lists!RemoveAt
  <2>6. /\ list' \in Seq(0..2) /\ Len(list') = 2 - k
        /\ \A i \in 1..2 - k : list'[i] = k + i
    BY <2>1, <2>3, <2>5 DEF Gone
  <2>7. tmp = IF k < 2 THEN k + 1 ELSE -1
    BY <2>1 DEF Gone
  <2>8. tmp' = IF k < 1 THEN k + 2 ELSE -1
    <3>1. CASE k = 2
      BY <2>2, <2>7, <3>1 DEF Lists!Successor
    <3>2. CASE k < 2
      <4>1. \A i \in DOMAIN list' : list'[i] = k + i
        BY <2>6
      <4>2. Lists!Place(list', tmp) = 1
        BY <2>3, <2>6, <2>7, <3>2, <4>1 DEF Lists!Place
      <4>. QED BY <2>2, <2>3, <2>6, <2>7, <3>2, <4>2 DEF Lists!Successor
    <3>. QED BY <2>3, <3>1, <3>2
  <2>9. freed' = {n \in 0..2 : n < k + 1}
    BY <2>1, <2>2, <2>3 DEF Gone
  <2>10. stale' = FALSE
    <3>1. tmp \notin freed'
      BY <2>1, <2>3, <2>7, <2>9
    <3>2. stale' = (stale \/ FALSE)
      BY <2>2, <3>1, Zenon
    <3>. QED BY <3>2, Zenon
  <2>11. Gone(k + 1)'
    BY <2>2, <2>3, <2>6, <2>7, <2>8, <2>9 DEF Gone
  <2>12. k + 1 \in 0..3
    BY <2>3
  <2>13. ListInv'
    BY <2>2, <2>11, <2>12
  <2>14. ListOK'
    BY <2>2, <2>3, <2>6, <2>7, <2>8, <2>9
  <2>. QED BY <2>10, <2>13, <2>14
<1>6. CASE Lists!ListGone
  <2>1. PICK k \in 0..3 : Gone(k)
    BY <1>6 DEF Lists!ListGone
  <2>2. k = 3 /\ list = <<>>
    BY <1>6, <2>1 DEF Lists!ListGone, Gone
  <2>. QED BY <1>6, <2>2 DEF Lists!ListGone
<1>. QED BY <1>1, <1>2, <1>3, <1>4, <1>5, <1>6 DEF Lists!ListStep

-----------------------------------------------------------------------------
(* hrbtree                                                                 *)

(* The walks down and up the tree are recursive functions.  Each unfolds   *)
(* wherever its equation has a solution: the descent of an insertion ...   *)
LEMMA DescendUnfolds ==
  ASSUME NEW i, NEW h,
         h = [n \in Lists!Nodes |->
                IF n < i THEN IF left[n] = Lists!Nil THEN n ELSE h[left[n]]
                         ELSE IF right[n] = Lists!Nil THEN n ELSE h[right[n]]]
  PROVE  \E g : /\ Lists!Descend(i) = g[root]
                /\ \A n \in Lists!Nodes : g[n] =
                     IF n < i THEN IF left[n] = Lists!Nil THEN n
                                                          ELSE g[left[n]]
                     ELSE IF right[n] = Lists!Nil THEN n ELSE g[right[n]]
<1>. DEFINE Solves(g) ==
       g = [n \in Lists!Nodes |->
              IF n < i THEN IF left[n] = Lists!Nil THEN n ELSE g[left[n]]
                       ELSE IF right[n] = Lists!Nil THEN n ELSE g[right[n]]]
     At == CHOOSE g : Solves(g)
<1>1. Lists!Descend(i) = At[root]
  BY DEF Lists!Descend
<1>2. Solves(h)
  OBVIOUS
<1>3. Solves(At)
  <2>. HIDE DEF Solves
  <2>. QED BY <1>2
<1>4. ASSUME NEW g, Solves(g), NEW n \in Lists!Nodes
      PROVE  g[n] =
               IF n < i THEN IF left[n] = Lists!Nil THEN n ELSE g[left[n]]
                        ELSE IF right[n] = Lists!Nil THEN n ELSE g[right[n]]
  BY <1>4, Zenon
<1>. HIDE DEF Solves, At
<1>. QED BY <1>1, <1>3, <1>4

(* ... rb_first, and the way down in rb_next ...                           *)
LEMMA LeftmostUnfolds ==
  ASSUME NEW h,
         h = [n \in Lists!Nodes |->
                IF left[n] = Lists!Nil THEN n ELSE h[left[n]]]
  PROVE  \A n \in Lists!Nodes :
           Lists!Leftmost[n] = IF left[n] = Lists!Nil THEN n
                               ELSE Lists!Leftmost[left[n]]
<1>. DEFINE Solves(g) ==
       g = [n \in Lists!Nodes |->
              IF left[n] = Lists!Nil THEN n ELSE g[left[n]]]
<1>1. Lists!Leftmost = CHOOSE g : Solves(g)
  BY DEF Lists!Leftmost
<1>2. Solves(h)
  OBVIOUS
<1>3. Solves(Lists!Leftmost)
  <2>. HIDE DEF Solves
  <2>. QED BY <1>1, <1>2
<1>4. ASSUME NEW g, Solves(g), NEW n \in Lists!Nodes
      PROVE  g[n] = IF left[n] = Lists!Nil THEN n ELSE g[left[n]]
  BY <1>4, Zenon
<1>. HIDE DEF Solves
<1>. QED BY <1>3, <1>4

(* ... and the way up in rb_next, which ends at the first step.            *)
LEMMA ClimbUnfolds ==
  ASSUME NEW r, NEW h, NEW n \in Lists!Nodes,
         h = [m \in Lists!Nodes |->
                IF parent[m] # Lists!Nil /\ r[parent[m]] = m
                THEN h[parent[m]] ELSE parent[m]]
  PROVE  parent[n] = Lists!Nil \/ r[parent[n]] # n
           => Lists!Climb(r, n) = parent[n]
<1>. DEFINE Solves(g) ==
       g = [m \in Lists!Nodes |->
              IF parent[m] # Lists!Nil /\ r[parent[m]] = m
              THEN g[parent[m]] ELSE parent[m]]
     Up == CHOOSE g : Solves(g)
<1>1. Lists!Climb(r, n) = Up[n]
  BY DEF Lists!Climb
<1>2. Solves(h)
  OBVIOUS
<1>3. Solves(Up)
  <2>. HIDE DEF Solves
  <2>. QED BY <1>2
<1>4. ASSUME NEW g, Solves(g)
      PROVE  g[n] = IF parent[n] # Lists!Nil /\ r[parent[n]] = n
                    THEN g[parent[n]] ELSE parent[n]
  BY <1>4, Zenon
<1>. HIDE DEF Solves, Up
<1>. QED BY <1>1, <1>3, <1>4

(* The tree before each of the three nodes is inserted, and after; and     *)
(* then before each is erased, in the order 2, 1, 0.                       *)
Links(l, a, b, c) == l[0] = a /\ l[1] = b /\ l[2] = c

Inserted(k) ==
  /\ k \in {0, 1} => /\ root = k - 1
                     /\ \A l \in {left, right, parent} : Links(l, -1, -1, -1)
  /\ k = 2 => /\ root = 0
              /\ Links(left, 1, -1, -1) /\ Links(right, -1, -1, -1)
              /\ Links(parent, -1, 0, -1)
  /\ k = 3 => /\ root = 1
              /\ Links(left, -1, 2, -1) /\ Links(right, -1, 0, -1)
              /\ Links(parent, 1, -1, 1)

Erased(k) ==
  /\ k = 2 => Inserted(3) /\ erased = {}
  /\ k = 1 => /\ root = 1
              /\ Links(left, -1, -1, -1) /\ Links(right, -1, 0, -1)
              /\ Links(parent, 1, -1, 1) /\ erased = {2}
  /\ k = 0 => /\ root = 0
              /\ Links(left, -1, -1, -1) /\ Links(right, -1, 0, -1)
              /\ Links(parent, -1, -1, 1) /\ erased = {1, 2}
  /\ k = -1 => root = -1 /\ erased = {0, 1, 2}

TreeOK ==
  /\ tmod \in {"absent", "init", "live", "exit", "oops"}
  /\ root \in -1..2 /\ pnode \in -1..3 /\ erased \subseteq 0..2
  /\ left \in [0..2 -> -1..2] /\ right \in [0..2 -> -1..2]
  /\ parent \in [0..2 -> -1..2]

TreeInv ==
  /\ tmod = "absent" => root = -1 /\ erased \in {{}, 0..2}
  /\ tmod \in {"init", "live"}
       => pnode \in 0..3 /\ Inserted(pnode) /\ erased = {}
  /\ tmod = "live" => pnode = 3
  /\ tmod = "exit" => pnode \in -1..2 /\ Erased(pnode)

(* The third node makes a chain, which is rotated about its middle.        *)
LEMMA NodeAdded ==
  ASSUME TreeOK, TreeInv, Lists!AddNode
  PROVE  TreeOK' /\ TreeInv'
<1>. USE DEF TreeOK, TreeInv, Lists!Nodes, Lists!Size, Lists!Nil, Links
<1>1. /\ tmod = "init" /\ pnode \in 0..2 /\ erased' = erased /\ erased = {}
      /\ Inserted(pnode)
  BY DEF Lists!AddNode
<1>2. CASE tmod' = "oops"
  BY <1>1, <1>2 DEF Lists!AddNode
<1>3. CASE tmod' = tmod /\ pnode' = pnode + 1
  <2>1. IF root = -1 THEN root' = pnode /\ UNCHANGED <<left, right, parent>>
                     ELSE Lists!Link(pnode)
    BY <1>1, <1>3 DEF Lists!AddNode
  <2>2. CASE pnode = 0
    <3>1. root' = 0 /\ UNCHANGED <<left, right, parent>>
      BY <1>1, <2>1, <2>2 DEF Inserted
    <3>. QED BY <1>1, <1>3, <2>2, <3>1 DEF Inserted
  <2>3. CASE pnode = 1
    <3>. DEFINE h == [n \in 0..2 |-> n]
    <3>0. /\ root = 0 /\ Links(left, -1, -1, -1) /\ Links(right, -1, -1, -1)
          /\ Links(parent, -1, -1, -1) /\ Lists!Link(1)
      BY <1>1, <2>1, <2>3 DEF Inserted
    <3>1. h = [n \in 0..2 |->
                 IF n < 1 THEN IF left[n] = -1 THEN n ELSE h[left[n]]
                          ELSE IF right[n] = -1 THEN n ELSE h[right[n]]]
      BY <3>0
    <3>. HIDE DEF h
    <3>2. Lists!Descend(1) = 0
      <4>1. PICK g : /\ Lists!Descend(1) = g[0]
                     /\ \A n \in 0..2 : g[n] =
                          IF n < 1 THEN IF left[n] = -1 THEN n ELSE g[left[n]]
                          ELSE IF right[n] = -1 THEN n ELSE g[right[n]]
        BY <3>0, <3>1, DescendUnfolds
      <4>. QED BY <3>0, <4>1
    <3>3. ~Lists!Chain([left EXCEPT ![0] = 1], 1)
      BY <3>0 DEF Lists!Chain
    <3>4. /\ left' = [left EXCEPT ![0] = 1] /\ right' = right
          /\ parent' = [parent EXCEPT ![1] = 0] /\ root' = root
      BY <3>0, <3>2, <3>3 DEF Lists!Link
    <3>. QED BY <1>1, <1>3, <2>3, <3>0, <3>4 DEF Inserted
  <2>4. CASE pnode = 2
    <3>. DEFINE h == [n \in 0..2 |-> IF n = 2 THEN 2 ELSE 1]
    <3>0. /\ root = 0 /\ Links(left, 1, -1, -1) /\ Links(right, -1, -1, -1)
          /\ Links(parent, -1, 0, -1) /\ Lists!Link(2)
      BY <1>1, <2>1, <2>4 DEF Inserted
    <3>1. h = [n \in 0..2 |->
                 IF n < 2 THEN IF left[n] = -1 THEN n ELSE h[left[n]]
                          ELSE IF right[n] = -1 THEN n ELSE h[right[n]]]
      BY <3>0
    <3>. HIDE DEF h
    <3>2. Lists!Descend(2) = 1
      <4>1. PICK g : /\ Lists!Descend(2) = g[0]
                     /\ \A n \in 0..2 : g[n] =
                          IF n < 2 THEN IF left[n] = -1 THEN n ELSE g[left[n]]
                          ELSE IF right[n] = -1 THEN n ELSE g[right[n]]
        BY <3>0, <3>1, DescendUnfolds
      <4>2. g[0] = g[1] /\ g[1] = 1
        BY <3>0, <4>1
      <4>. QED BY <4>1, <4>2
    <3>3. Lists!Chain([left EXCEPT ![1] = 2], 2)
      BY <3>0 DEF Lists!Chain
    <3>4. /\ root' = 1 /\ left' = [[left EXCEPT ![1] = 2] EXCEPT ![0] = -1]
          /\ right' = [right EXCEPT ![1] = 0]
          /\ parent' = [parent EXCEPT ![2] = 1, ![0] = 1, ![1] = -1]
      <4>. DEFINE l == [left EXCEPT ![1] = 2]
      <4>1. l[0] = 1 /\ left[0] = 1
        BY <3>0
      <4>2. Lists!Chain(l, 2) /\ 1 < 2
        BY <3>3
      <4>. HIDE DEF l
      <4>3. /\ root' = 1 /\ left' = [l EXCEPT ![0] = -1]
            /\ right' = [right EXCEPT ![1] = 0]
            /\ parent' = [parent EXCEPT ![2] = 1, ![0] = 1, ![1] = -1]
        BY <3>0, <3>2, <4>1, <4>2 DEF Lists!Link, l
      <4>. QED BY <4>3 DEF l
    <3>. QED BY <1>1, <1>3, <2>4, <3>0, <3>4 DEF Inserted
  <2>. QED BY <1>1, <2>2, <2>3, <2>4
<1>. QED BY <1>1, <1>2, <1>3 DEF Lists!AddNode

(* rb_next of the node just erased finds the next one: what it follows are *)
(* links that the erasure has left in that node, and none of them is stale *)
(* when it is used.                                                        *)
LEMMA NodeErased ==
  ASSUME TreeOK, TreeInv, stale = FALSE, Lists!EraseNode
  PROVE  TreeOK' /\ TreeInv' /\ stale' = FALSE
<1>. USE DEF TreeOK, TreeInv, Lists!Nodes, Lists!Size, Lists!Nil, Links
<1>1. /\ tmod = "exit" /\ tmod' = tmod /\ pnode \in 0..2 /\ Erased(pnode)
  BY DEF Lists!EraseNode
<1>. DEFINE child == IF left[pnode] = -1 THEN right[pnode] ELSE left[pnode]
<1>2. /\ root' = IF root = pnode THEN child ELSE root
      /\ left' = Lists!Replace(left, pnode)
      /\ right' = Lists!Replace(right, pnode)
      /\ parent' = [m \in 0..2 |-> IF m = child THEN parent[pnode]
                                                ELSE parent[m]]
      /\ erased' = erased \union {pnode}
      /\ stale' = (stale \/ pnode \in erased)
      /\ pnode' = IF right[pnode] # -1 THEN Lists!Leftmost[right[pnode]]
                                       ELSE Lists!Climb(right', pnode)
  BY DEF Lists!EraseNode, Lists!Child
<1>3. stale' = FALSE
  <2>1. pnode \notin erased
    BY <1>1 DEF Erased
  <2>2. stale' = (stale \/ FALSE)
    BY <1>2, <2>1, Zenon
  <2>. QED BY <2>2, Zenon
<1>4. \A l \in {left, right} : Lists!Replace(l, pnode)
         = [m \in 0..2 |-> IF parent[pnode] = m /\ l[m] = pnode THEN child
                                                                ELSE l[m]]
  BY DEF Lists!Replace, Lists!Child
<1>5. CASE pnode = 2
  <2>. DEFINE h == [n \in 0..2 |-> IF n = 2 THEN 1 ELSE -1]
  <2>0. /\ root = 1 /\ Links(left, -1, 2, -1) /\ Links(right, -1, 0, -1)
        /\ Links(parent, 1, -1, 1) /\ erased = {} /\ child = -1
    BY <1>1, <1>5 DEF Erased, Inserted
  <2>1. /\ root' = 1 /\ Links(left', -1, -1, -1) /\ Links(right', -1, 0, -1)
        /\ parent' = parent /\ erased' = {2}
    BY <1>2, <1>4, <1>5, <2>0
  <2>2. right' = right
    BY <1>2, <1>4, <1>5, <2>0
  <2>3. h = [m \in 0..2 |-> IF parent[m] # -1 /\ right[parent[m]] = m
                            THEN h[parent[m]] ELSE parent[m]]
    BY <2>0
  <2>. HIDE DEF h
  <2>4. Lists!Climb(right, 2) = 1
    BY <2>0, <2>3, ClimbUnfolds
  <2>5. pnode' = 1
    BY <1>2, <1>5, <2>0, <2>2, <2>4
  <2>. QED BY <1>1, <1>2, <1>3, <1>4, <2>0, <2>1, <2>5 DEF Erased
<1>6. CASE pnode = 1
  <2>. DEFINE h == [n \in 0..2 |-> n]
  <2>0. /\ root = 1 /\ Links(left, -1, -1, -1) /\ Links(right, -1, 0, -1)
        /\ Links(parent, 1, -1, 1) /\ erased = {2} /\ child = 0
    BY <1>1, <1>6 DEF Erased
  <2>1. /\ root' = 0 /\ Links(left', -1, -1, -1) /\ Links(right', -1, 0, -1)
        /\ Links(parent', -1, -1, 1) /\ erased' = {1, 2}
    BY <1>2, <1>4, <1>6, <2>0
  <2>3. h = [n \in 0..2 |-> IF left[n] = -1 THEN n ELSE h[left[n]]]
    BY <2>0
  <2>. HIDE DEF h
  <2>4. Lists!Leftmost[0] = 0
    BY <2>0, <2>3, LeftmostUnfolds
  <2>5. pnode' = 0
    BY <1>2, <1>6, <2>0, <2>4
  <2>. QED BY <1>1, <1>2, <1>3, <1>4, <2>0, <2>1, <2>5 DEF Erased
<1>7. CASE pnode = 0
  <2>. DEFINE h == [n \in 0..2 |-> IF n = 2 THEN 1 ELSE -1]
  <2>0. /\ root = 0 /\ Links(left, -1, -1, -1) /\ Links(right, -1, 0, -1)
        /\ Links(parent, -1, -1, 1) /\ erased = {1, 2} /\ child = -1
    BY <1>1, <1>7 DEF Erased
  <2>1. root' = -1 /\ erased' = {0, 1, 2}
    BY <1>2, <1>7, <2>0
  <2>2. right' = right
    BY <1>2, <1>4, <1>7, <2>0
  <2>3. h = [m \in 0..2 |-> IF parent[m] # -1 /\ right[parent[m]] = m
                            THEN h[parent[m]] ELSE parent[m]]
    BY <2>0
  <2>. HIDE DEF h
  <2>4. Lists!Climb(right, 0) = -1
    BY <2>0, <2>3, ClimbUnfolds
  <2>5. pnode' = -1
    BY <1>2, <1>7, <2>0, <2>2, <2>4
  <2>. QED BY <1>1, <1>2, <1>3, <1>4, <2>0, <2>1, <2>5 DEF Erased
<1>8. pnode = 0 \/ pnode = 1 \/ pnode = 2
  BY <1>1
<1>. QED BY <1>5, <1>6, <1>7, <1>8, Zenon

(* The steps of hrbtree keep to these trees. *)
LEMMA TreeKept ==
  ASSUME TreeOK, TreeInv, stale = FALSE,
         Lists!InsmodTree \/ Lists!RmmodTree \/ Lists!TreeStep
  PROVE  TreeOK' /\ TreeInv' /\ stale' = FALSE
<1>. USE DEF TreeOK, TreeInv, Lists!Nodes, Lists!Size, Lists!Nil, Links
<1>1. CASE Lists!InsmodTree
  BY <1>1 DEF Lists!InsmodTree, Lists!NoLinks, Inserted
<1>2. CASE Lists!AddNode
  BY <1>2, NodeAdded DEF Lists!AddNode
<1>3. CASE Lists!TreeReady
  BY <1>3 DEF Lists!TreeReady, Inserted
<1>4. CASE Lists!RmmodTree
  <2>. DEFINE h == [n \in 0..2 |-> IF n = 0 THEN 0 ELSE 2]
  <2>0. /\ tmod = "live" /\ tmod' = "exit" /\ pnode' = Lists!Leftmost[root]
        /\ UNCHANGED <<root, left, right, parent, erased, stale>>
    BY <1>4 DEF Lists!RmmodTree, Lists!First
  <2>1. /\ root = 1 /\ Links(left, -1, 2, -1) /\ Links(right, -1, 0, -1)
        /\ Links(parent, 1, -1, 1) /\ erased = {}
    BY <2>0 DEF Inserted
  <2>2. h = [n \in 0..2 |-> IF left[n] = -1 THEN n ELSE h[left[n]]]
    BY <2>1
  <2>. HIDE DEF h
  <2>3. Lists!Leftmost[1] = 2
    BY <2>1, <2>2, LeftmostUnfolds
  <2>. QED BY <2>0, <2>1, <2>3 DEF Erased, Inserted
<1>5. CASE Lists!EraseNode
  BY <1>5, NodeErased
<1>6. CASE Lists!TreeGone
  BY <1>6 DEF Lists!TreeGone, Erased
<1>. QED BY <1>1, <1>2, <1>3, <1>4, <1>5, <1>6 DEF Lists!TreeStep

-----------------------------------------------------------------------------
ListsInv == ListOK /\ ListInv /\ TreeOK /\ TreeInv /\ stale = FALSE

(* Both modules walk only over nodes that are still there, although one    *)
(* frees them while it walks and the other steps on from nodes it has      *)
(* erased.                                                                 *)
LEMMA ListsCorrect == FairSpec => []ListsInv
<1>1. Init => ListsInv
  BY DEF Init, Lists!Init, Lists!NoLinks, Lists!Nodes, Lists!Size, Lists!Nil,
         ListsInv, ListOK, ListInv, TreeOK, TreeInv
<1>2. ListsInv /\ [Next]_vars => ListsInv'
  <2>. SUFFICES ASSUME ListsInv, [Next]_vars PROVE ListsInv'
    OBVIOUS
  <2>. USE DEF ListsInv
  <2>1. CASE Lists!InsmodList \/ Lists!RmmodList \/ Lists!ListStep
    <3>1. UNCHANGED Lists!treeVars
      BY <2>1 DEF Lists!InsmodList, Lists!RmmodList, Lists!ListStep,
           Lists!AddPerson, Lists!ListReady, Lists!DeletePerson,
           Lists!ListGone
    <3>2. TreeOK' /\ TreeInv'
      BY <3>1 DEF Lists!treeVars, TreeOK, TreeInv, Inserted, Erased, Links
    <3>. QED BY <2>1, <3>2, ListKept
  <2>2. CASE Lists!InsmodTree \/ Lists!RmmodTree \/ Lists!TreeStep
    <3>1. UNCHANGED Lists!listVars
      BY <2>2 DEF Lists!InsmodTree, Lists!RmmodTree, Lists!TreeStep,
           Lists!AddNode, Lists!TreeReady, Lists!EraseNode, Lists!TreeGone
    <3>2. ListOK' /\ ListInv'
      BY <3>1 DEF Lists!listVars, ListOK, ListInv, Gone
    <3>. QED BY <2>2, <3>2, TreeKept
  <2>3. CASE UNCHANGED listVars
    BY <2>3 DEF listVars, ListOK, ListInv, Gone, TreeOK, TreeInv, Inserted,
                Erased, Links
  <2>. QED BY <2>1, <2>2, <2>3
           DEF Next, RunWork, RunMmio, RunLists, RunLog, vars, Lists!Next
<1>. QED BY <1>1, <1>2, PTL DEF FairSpec

(* All the samples: no memory or code is freed under a work, a tasklet, a  *)
(* thread or a walk that still uses it, as long as nobody changes the      *)
(* parameters that mmio_test_exit looks at.                                *)
THEOREM NothingIsStale ==
  ASSUME FixedMode
  PROVE  FairSpec => []NoStaleUse
<1>1. ListsInv => Lists!NoStaleUse
  BY DEF ListsInv, ListInv, TreeInv, Lists!NoStaleUse, Lists!Nodes,
         Lists!Size, Lists!Nil
<1>2. Work!NoStaleUse /\ Mmio!NoStaleUse /\ Lists!NoStaleUse => NoStaleUse
  BY DEF NoStaleUse
<1>. QED BY <1>1, <1>2, WorkIsSafe, MmioIsSafe, ListsCorrect, PTL

-----------------------------------------------------------------------------
(* The types of the deferred work and the threads. *)
LEMMA StepTypes ==
  ASSUME Work!TypeOK, Mmio!TypeOK, [Next]_vars
  PROVE  Work!TypeOK' /\ Mmio!TypeOK'
<1>1. CASE Work!Next /\ UNCHANGED mmioVars
  <2>1. Work!TypeOK'
    BY <1>1 DEF Work!TypeOK, Work!Next, Work!KernelStep, Work!InsmodWork,
         Work!QueueWork, Work!WorkStarts, Work!WorkEnds, Work!RmmodWork,
         Work!FlushWork, Work!Flushed, Work!FreeWork, Work!InsmodTasklet,
         Work!TaskletStarts, Work!TaskletEnds, Work!RmmodTasklet,
         Work!KillTasklet, Work!workVars, Work!taskletVars
  <2>. QED BY <1>1, <2>1 DEF mmioVars, Mmio!TypeOK
<1>2. CASE Mmio!Next /\ UNCHANGED workVars
  <2>. USE DEF Mmio!TypeOK, Mmio!Go, Mmio!RW
  <2>1. Work!TypeOK'
    BY <1>2 DEF workVars, Work!TypeOK
  <2>2. CASE \/ Mmio!Insmod \/ Mmio!InitNoAddr \/ Mmio!Ioremap \/ Mmio!Rmmod
             \/ Mmio!WriteParams
    BY <2>1, <2>2 DEF Mmio!Insmod, Mmio!InitNoAddr, Mmio!Ioremap,
         Mmio!Rmmod, Mmio!WriteParams
  <2>3. ASSUME NEW t \in Mmio!RW, Mmio!Create(t)
        PROVE  Mmio!TypeOK'
    BY <2>3 DEF Mmio!Create, Mmio!After
  <2>4. ASSUME NEW t \in Mmio!RW,
               Mmio!StopSkipped(t) \/ Mmio!KthreadStop(t) \/ Mmio!Stopped(t)
        PROVE  Mmio!TypeOK'
    BY <2>4 DEF Mmio!StopSkipped, Mmio!KthreadStop, Mmio!Stopped,
         Mmio!BothStop, Mmio!StopThis
  <2>5. ASSUME NEW t \in Mmio!RW, Mmio!ThreadStep(t)
        PROVE  Mmio!TypeOK'
    BY <2>5 DEF Mmio!ThreadStep, Mmio!Run, Mmio!Access, Mmio!End
  <2>. QED BY <1>2, <2>1, <2>2, <2>3, <2>4, <2>5
           DEF Mmio!Next, Mmio!ModStep
<1>3. CASE UNCHANGED <<workVars, mmioVars>>
  <2>1. Work!TypeOK'
    BY <1>3 DEF workVars, Work!TypeOK
  <2>2. Mmio!TypeOK'
    BY <1>3 DEF mmioVars, Mmio!TypeOK
  <2>. QED BY <2>1, <2>2
<1>. QED BY <1>1, <1>2, <1>3 DEF Next, RunWork, RunMmio, RunLists, RunLog,
                                 vars

(* Every variable keeps to its values, and no node with two children is    *)
(* ever erased from the tree.                                              *)
THEOREM TypeCorrect == FairSpec => []TypeOK
<1>. DEFINE Types == Work!TypeOK /\ Mmio!TypeOK
<1>1. Init => Types
  BY ShortProgramsAssumption DEF Init, Work!Init, Mmio!Init, Work!TypeOK,
       Mmio!TypeOK, Mmio!RW
<1>2. Types /\ [Next]_vars => Types'
  BY StepTypes
<1>3. ListsInv => Lists!TypeOK
  <2>. SUFFICES ASSUME ListsInv PROVE Lists!TypeOK
    OBVIOUS
  <2>. USE DEF ListsInv, Lists!Nodes, Lists!Size, Lists!Nil
  <2>1. list \in Lists!SeqOf(0..2, 3)
    <3>1. list \in [1..Len(list) -> 0..2] /\ Len(list) \in 0..3
      <4>1. list \in Seq(0..2) /\ Len(list) <= 3
        BY DEF ListOK
      <4>2. list \in [1..Len(list) -> 0..2] /\ Len(list) \in Nat
        BY <4>1, LenProperties, Zenon
      <4>. QED BY <4>1, <4>2
    <3>. QED BY <3>1 DEF Lists!SeqOf
  <2>2. tmod = "exit" /\ pnode # -1 => left[pnode] = -1 \/ right[pnode] = -1
    BY DEF TreeInv, Erased, Inserted, Links
  <2>3. stale \in BOOLEAN
    BY Zenon
  <2>. QED BY <2>1, <2>2, <2>3
           DEF ListOK, TreeOK, Lists!TypeOK, Lists!States
<1>4. Types /\ Log!TypeOK /\ Lists!TypeOK => TypeOK
  BY DEF TypeOK
<1>. HIDE DEF Types
<1>. QED BY <1>1, <1>2, <1>3, <1>4, LogTyped, ListsCorrect, PTL
         DEF FairSpec
=============================================================================

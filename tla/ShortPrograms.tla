--------------------------- MODULE ShortPrograms ---------------------------
(***************************************************************************)
(* The short programs of the repository, next to the vfio-pci driver: the  *)
(* sample modules of kernel_app and the log removal script.  They have     *)
(* nothing to do with each other; a behaviour is one of "program", and the *)
(* others rest in their initial state, in which no fair step is enabled.   *)
(***************************************************************************)
EXTENDS Integers

CONSTANTS Addrs, FixedMode, Runs, Serial, MinLogNum, MaxLogs

ASSUME ShortProgramsAssumption ==
  /\ 0 \in Addrs /\ FixedMode \in BOOLEAN
  /\ MinLogNum \in Nat /\ MaxLogs \in Nat /\ Serial \in BOOLEAN

VARIABLES
  program,
  wq, mem, work, tk, tasklet,                                  \* SampleWork
  mod, addr, rw_flag, io, pointer, thread, stop,               \* SampleMmio
  lmod, list, freed, aPerson, tmp, stale,                      \* SampleLists
  tmod, root, left, right, parent, pnode, erased,
  logs, newest, full, mail_file, pc, real_per,                 \* RemoveLog
  mail_change_flag, oldest, failed, mailed

Work  == INSTANCE SampleWork
Mmio  == INSTANCE SampleMmio
Lists == INSTANCE SampleLists
Log   == INSTANCE RemoveLog

workVars == <<wq, mem, work, tk, tasklet>>
mmioVars == <<mod, addr, rw_flag, io, pointer, thread, stop>>
listVars == <<lmod, list, freed, aPerson, tmp, stale,
              tmod, root, left, right, parent, pnode, erased>>
logVars  == <<logs, newest, full, mail_file, pc, real_per,
              mail_change_flag, oldest, failed, mailed>>
vars     == <<program, workVars, mmioVars, listVars, logVars>>

Init ==
  /\ program \in {"work", "mmio", "lists", "log"}
  /\ Work!Init /\ Mmio!Init /\ Lists!Init /\ Log!Init
  /\ program # "log" => newest = 0 /\ ~full

RunWork == program = "work" /\ Work!Next
           /\ UNCHANGED <<program, mmioVars, listVars, logVars>>
RunMmio == program = "mmio" /\ Mmio!Next
           /\ UNCHANGED <<program, workVars, listVars, logVars>>
RunLists == program = "lists" /\ Lists!Next
            /\ UNCHANGED <<program, workVars, mmioVars, logVars>>
RunLog == program = "log" /\ Log!Next
          /\ UNCHANGED <<program, workVars, mmioVars, listVars>>

Next == RunWork \/ RunMmio \/ RunLists \/ RunLog

Fairness == Work!Fairness /\ Mmio!Fairness /\ Lists!Fairness /\ Log!Fairness

FairSpec == Init /\ [][Next]_vars /\ Fairness
-----------------------------------------------------------------------------
(* Every variable keeps to its values; no node with two children is erased *)
(* from the tree.                                                          *)
TypeOK == Work!TypeOK /\ Mmio!TypeOK /\ Lists!TypeOK /\ Log!TypeOK

(* No module is unloaded, and no memory freed, under a thread, a work, a   *)
(* tasklet or a walk that still uses it.                                   *)
NoStaleUse == Work!NoStaleUse /\ Mmio!NoStaleUse /\ Lists!NoStaleUse

(* What was started ends: rmmod of each sample; and each run of the script *)
(* if from some time on the disk is not full, or no test writes and every  *)
(* rm works.                                                               *)
ProgramsEnd ==
  Work!ExitsReturn /\ Mmio!ExitsReturn /\ Lists!ExitsReturn /\ Log!RunEnds

(* The script removes the oldest log only, and keeps the last min_log_num  *)
(* (remove_log.sh:14, 81-83).                                              *)
LogsKept == Log!LogsKept

(* No log goes without a mail that lists it, or will, and what a mail has  *)
(* listed is gone unless its rm failed (remove_log.sh:97-99).              *)
MailTellsAll == Log!MailTellsAll
=============================================================================

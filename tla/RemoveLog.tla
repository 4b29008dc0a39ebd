----------------------------- MODULE RemoveLog -----------------------------
(***************************************************************************)
(* The log removal script (files/me/remove_log.sh), run by cron: while the *)
(* disk is too full it removes the oldest log, as long as there are more   *)
(* than min_log_num, and mails what it did.                                *)
(*                                                                         *)
(* Each command of the script is a step.  Around it tests write new logs,  *)
(* whose names are in the order of their time, the use of the disk goes up *)
(* and down for reasons of its own, and an rm may fail.                    *)
(***************************************************************************)
EXTENDS Integers, FiniteSetsExt

CONSTANTS
  Runs,          \* runs of the script
  Serial,        \* TRUE: a run starts only when none is under way
  MinLogNum,     \* min_log_num
  MaxLogs        \* bound: logs ever written

Logs == 1..MaxLogs

VARIABLES
  logs,          \* the logs in log_folder_addr
  newest,        \* the last one written
  full,          \* real use of "/" >= up_line_per
  mail_file,     \* the names in mail_file_temp, shared by all runs
  pc, real_per,  \* where a run is; "full" as it has read it
  mail_change_flag,
  oldest,        \* oldest_log_name, 0 if it is empty
  failed,        \* history: the logs that an rm could not remove
  mailed         \* history: the logs that a mail has listed

hostVars == <<logs, newest, full>>
runVars  == <<pc, real_per, mail_change_flag, oldest, failed, mailed>>
vars     == <<hostVars, mail_file, runVars>>

Init ==
  /\ newest \in 0..MaxLogs /\ logs = 1..newest /\ full \in BOOLEAN
  /\ mail_file = {} /\ failed = {} /\ mailed = {}
  /\ pc = [r \in Runs |-> "idle"] /\ real_per = [r \in Runs |-> FALSE]
  /\ mail_change_flag = [r \in Runs |-> FALSE]
  /\ oldest = [r \in Runs |-> 0]

Go(r, from, to) == pc[r] = from /\ pc' = [pc EXCEPT ![r] = to]

WriteLog ==
  /\ newest < MaxLogs
  /\ newest' = newest + 1 /\ logs' = logs \union {newest'}
  /\ UNCHANGED <<full, mail_file, runVars>>

DiskUse == full' = ~full /\ UNCHANGED <<logs, newest, mail_file, runVars>>

-----------------------------------------------------------------------------
(* The mail files are made anew. *)
Start(r) ==
  /\ Serial => \A s \in Runs : pc[s] = "idle"
  /\ Go(r, "idle", "df")
  /\ mail_file' = {}
  /\ mail_change_flag' = [mail_change_flag EXCEPT ![r] = FALSE]
  /\ oldest' = [oldest EXCEPT ![r] = 0]
  /\ UNCHANGED <<hostVars, real_per, failed, mailed>>

ReadUse(r) ==
  /\ Go(r, "df", "while")
  /\ real_per' = [real_per EXCEPT ![r] = full]
  /\ UNCHANGED <<hostVars, mail_file, mail_change_flag, oldest, failed,
                 mailed>>

(* while real_per >= up_line_per: the number of logs is taken, and it must *)
(* be more than min_log_num.                                               *)
AtLeastMin == Cardinality(logs) >= MinLogNum    \* mutant: -lt for -le
AnyNumber == TRUE                      \* mutant: no test
MoreThanMin == Cardinality(logs) > MinLogNum

Count(r) ==
  /\ Go(r, "while", "pick")
  /\ real_per[r] /\ MoreThanMin
  /\ mail_change_flag' = [mail_change_flag EXCEPT ![r] = TRUE]
  /\ UNCHANGED <<hostVars, mail_file, real_per, oldest, failed, mailed>>

(* What is in the mail file is sent, and the mail files are removed. *)
Send ==
  /\ mailed' = mailed \union mail_file
  /\ mail_file' = {}

TooSmall(r) ==
  /\ Go(r, "while", "idle")
  /\ real_per[r] /\ ~MoreThanMin
  /\ mail_change_flag' = [mail_change_flag EXCEPT ![r] = TRUE]
  /\ Send
  /\ UNCHANGED <<hostVars, real_per, oldest, failed>>

PickOldest(r) ==
  /\ Go(r, "pick", "record")
  /\ oldest' = [oldest EXCEPT ![r] = IF logs = {} THEN 0 ELSE Min(logs)]
  /\ UNCHANGED <<hostVars, mail_file, real_per, mail_change_flag, failed,
                 mailed>>

Overwrite(r) == {oldest[r]}            \* mutant: > for >>
Add(r) == mail_file \union ({oldest[r]} \ {0})

Record(r) ==
  /\ Go(r, "record", "rm")
  /\ mail_file' = Add(r)
  /\ UNCHANGED <<hostVars, real_per, mail_change_flag, oldest, failed, mailed>>

(* What oldest_log_addr names: with an empty name, all of the folder. *)
Target(r) == IF oldest[r] = 0 THEN logs ELSE logs \intersect {oldest[r]}

(* The status of rm is not looked at: what it could not remove stays. *)
RemoveOldest(r) ==
  /\ Go(r, "rm", "df")
  /\ \E gone \in SUBSET Target(r) :
       /\ logs' = logs \ gone
       /\ failed' = failed \union (Target(r) \ gone)
  /\ UNCHANGED <<newest, full, mail_file, real_per, mail_change_flag, oldest,
                 mailed>>

(* The loop is left; mail_log_num_normal, if it has been entered at all. *)
Finish(r) ==
  /\ Go(r, "while", "idle")
  /\ ~real_per[r]
  /\ IF mail_change_flag[r] THEN Send ELSE UNCHANGED <<mailed, mail_file>>
  /\ UNCHANGED <<hostVars, real_per, mail_change_flag, oldest, failed>>

Step(r) == \/ ReadUse(r) \/ Count(r) \/ TooSmall(r) \/ PickOldest(r)
           \/ Record(r) \/ RemoveOldest(r) \/ Finish(r)

Next == WriteLog \/ DiskUse \/ \E r \in Runs : Start(r) \/ Step(r)

Fairness == \A r \in Runs : WF_vars(Step(r))
-----------------------------------------------------------------------------
TypeOK ==
  /\ newest \in 0..MaxLogs /\ logs \subseteq 1..newest /\ full \in BOOLEAN
  /\ mail_file \subseteq Logs /\ failed \subseteq Logs /\ mailed \subseteq Logs
  /\ pc \in [Runs -> {"idle", "df", "while", "pick", "record", "rm"}]
  /\ real_per \in [Runs -> BOOLEAN] /\ mail_change_flag \in [Runs -> BOOLEAN]
  /\ oldest \in [Runs -> 0..MaxLogs]

(* Only the oldest log is ever removed, and never one of the last          *)
(* min_log_num.                                                            *)
LogsKept ==
  [][~(logs \subseteq logs') => /\ logs \ logs' = {Min(logs)}
                                /\ Cardinality(logs') >= MinLogNum]_vars

(* No log goes that neither a mail has listed nor the mail file has for    *)
(* the next one; and a log that a mail has listed is gone, unless an rm of *)
(* it failed.                                                              *)
MailTellsAll ==
  /\ (1..newest) \ logs \subseteq mailed \union mail_file
  /\ mailed \intersect logs \subseteq failed

(* A run ends if from some time on the disk is not full, or no test writes *)
(* a log and every rm works.  Otherwise it need not: see "Known limits" in *)
(* the README.                                                             *)
NoneWritten == newest' = newest
RmWorks ==
  \A r \in Runs : pc[r] = "rm" /\ pc'[r] # "rm" => oldest[r] \notin logs'

RunEnds ==
  <>[]~full \/ <>[][NoneWritten /\ RmWorks]_vars
    => \A r \in Runs : pc[r] # "idle" ~> pc[r] = "idle"

(* The mail lists only logs that have been moved, as it says               *)
(* (remove_log.sh:35, 51).  The code does not keep it: see "Known limits". *)
MailIsTrue == mailed \intersect logs = {}
=============================================================================

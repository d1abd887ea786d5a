------------------------------ MODULE LogMail ------------------------------
(***************************************************************************)
(* What becomes of an error that some process of the server logs, and the  *)
(* job that mails them.  The logger starts an insert into the table of     *)
(* messages to mail and does not await it.  A cron job, a process of its   *)
(* own, reads the table, sends all it read as one mail and, when the mail  *)
(* server has taken it, empties the table.                                 *)
(*                                                                         *)
(* Messages are never looked into, so the module follows those in Messages *)
(* and leaves open whether the table holds others, among them the job's    *)
(* own errors: a run may find the table not empty at any time.  Left out   *)
(* are messages below the level of errors, which are never mailed, the     *)
(* table of all messages, which nothing reads but a page, and the settings *)
(* of config.mailer with which nothing is ever sent.                       *)
(***************************************************************************)
EXTENDS Integers, FiniteSets

CONSTANTS
    Messages,   \* the errors that are followed
    Mailers,    \* runs of the cron job
    Web,        \* the process of the web server
    MaxFaults   \* bound: how often something fails or dies

ASSUME LogAssumption == Web \notin Mailers /\ MaxFaults \in Nat

VARIABLES
    said,       \* ghost: the errors that have been logged
    writes,     \* inserts on their way, each of a message by a process
    logemail,   \* the table of messages to mail
    mailer,     \* the runs of the cron job
    mailbox,    \* the messages the administrators have been mailed
    faults,     \* how much of MaxFaults is used
    excused     \* ghost: messages whose insert failed or died with its process, and those
                \* stored while a run was between its read and its delete

logVars == <<said, writes, logemail, mailer, mailbox, faults, excused>>

Asleep == [pc |-> "asleep", batch |-> {}]

LogInit ==
    /\ said = {} /\ writes = {} /\ logemail = {} /\ mailbox = {}
    /\ mailer = [j \in Mailers |-> Asleep]
    /\ faults = 0
    /\ excused = {}

Fault == faults < MaxFaults /\ faults' = faults + 1

-----------------------------------------------------------------------------
(* The logger.                                                             *)

Say(ms, by) ==
    /\ said' = said \cup ms
    /\ writes' = writes \cup [msg : ms, by : {by}]

Busy == \E j \in Mailers : mailer[j].pc \in {"sending", "sent"}

Store(w) ==
    /\ w \in writes
    /\ writes' = writes \ {w}
    /\ logemail' = logemail \cup {w.msg}
    /\ excused' = IF Busy THEN excused \cup {w.msg} ELSE excused
    /\ UNCHANGED <<said, mailer, mailbox, faults>>

(* What the database does not take is only shown on the console.           *)
StoreFails(w) ==
    /\ w \in writes
    /\ Fault
    /\ writes' = writes \ {w}
    /\ excused' = excused \cup {w.msg}
    /\ UNCHANGED <<said, logemail, mailer, mailbox>>

(* A process dies, and with it what it has not stored yet.                 *)
Forget(p) ==
    LET gone == {w \in writes : w.by = p}
    IN  /\ writes' = writes \ gone
        /\ excused' = excused \cup {w.msg : w \in gone}
        /\ UNCHANGED <<said, logemail, mailbox>>

-----------------------------------------------------------------------------
(* The cron job.                                                           *)

Read(j) ==
    /\ mailer[j].pc = "asleep"
    /\ mailer' = [mailer EXCEPT ![j] = [pc |-> "sending", batch |-> logemail]]
    /\ UNCHANGED <<said, writes, logemail, mailbox, faults, excused>>

Send(j) ==
    /\ mailer[j].pc = "sending"
    /\ mailbox' = mailbox \cup mailer[j].batch
    /\ mailer' = [mailer EXCEPT ![j].pc = "sent"]
    /\ UNCHANGED <<said, writes, logemail, faults, excused>>

(* The mail server refuses, or takes the mail and its answer is lost.      *)
SendFails(j) ==
    /\ mailer[j].pc = "sending"
    /\ Fault
    /\ \E taken \in BOOLEAN :
           mailbox' = IF taken THEN mailbox \cup mailer[j].batch ELSE mailbox
    /\ mailer' = [mailer EXCEPT ![j] = Asleep]
    /\ UNCHANGED <<said, writes, logemail, excused>>

(* Fault: the table is emptied whatever became of the mail.                *)
MayClearAlways(j) == mailer[j].pc \in {"sending", "sent"}

MayClear(j) == mailer[j].pc = "sent"

(* Fault: nothing is deleted.                                              *)
LeftAll == logemail

(* LogEmail.delete has no condition: all goes that is in the table by now. *)
Left == {}

Clear(j) ==
    /\ MayClear(j)
    /\ logemail' = Left
    /\ mailer' = [mailer EXCEPT ![j] = Asleep]
    /\ UNCHANGED <<said, writes, mailbox, faults, excused>>

(* The delete fails or the process dies.                                   *)
MailerEnds(j) ==
    /\ mailer[j].pc # "asleep"
    /\ Fault
    /\ mailer' = [mailer EXCEPT ![j] = Asleep]
    /\ UNCHANGED <<said, writes, logemail, mailbox, excused>>

LogNext ==
    \/ \E w \in writes : Store(w) \/ StoreFails(w)
    \/ \E j \in Mailers : Read(j) \/ Send(j) \/ SendFails(j) \/ Clear(j) \/ MailerEnds(j)

(* Inserts are answered, cron starts the job every hour, and a run ends    *)
(* what it has begun.                                                      *)
LogFairness ==
    /\ WF_logVars(\E w \in writes : Store(w))
    /\ \A j \in Mailers : WF_logVars(Read(j) \/ Send(j) \/ Clear(j))

-----------------------------------------------------------------------------
Announced(m) ==
    \/ m \in logemail \cup mailbox \cup excused
    \/ \E w \in writes : w.msg = m

(* An error is not forgotten on its way to the administrators: until it    *)
(* has been mailed it waits in the table, however runs of the job fail or  *)
(* die.  The exception are errors stored while a run is at work, which its *)
(* delete takes along unmailed (logMailer.js:118).                         *)
ErrorsKept == said \subseteq {m \in Messages : Announced(m)}

(* What waits to be mailed does not wait for ever, if the mail server      *)
(* fails only so often (logMailer.js:114-120).                             *)
QueueDrains == \A m \in Messages : m \in logemail ~> m \notin logemail
=============================================================================

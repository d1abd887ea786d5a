---------------------------- MODULE Acquisition ----------------------------
(***************************************************************************)
(* What Obvius data loggers send to the server: files of readings, of one  *)
(* column per meter, and configuration files that describe the meters.     *)
(* Either may come first and makes the meters it does not find.  The files *)
(* of one request are worked on side by side, and so are requests; a       *)
(* logger sends a file again until it is told SUCCESS.  What goes wrong    *)
(* behind such an answer is only logged, so the module is composed with    *)
(* LogMail.                                                                *)
(*                                                                         *)
(* What the pipeline makes of a column is ReadingPipeline; here a column   *)
(* is stored or it fails.  Requests that change nothing (status, manifest, *)
(* the modes that are not implemented, wrong credentials) are left out.    *)
(***************************************************************************)
EXTENDS LogMail, Sequences, SequencesExt

CONSTANTS
    Slots,         \* bound: requests at work at the same time
    Files,         \* log files
    Configs,       \* configuration files
    NoConfig,      \* not a configuration file
    Width(_),      \* how many columns of meters a log file has
    Described(_),  \* the meters a configuration file describes
    Serial(_),     \* the logger a file is from
    Bundles(_)     \* bound: the log files that may come in one request, for each of Slots

ASSUME ObviusAssumption ==
    /\ \A s \in Slots : Bundles(s) \subseteq Seq(Files)
    /\ \A f \in Files : Width(f) \in Nat \ {0}
    /\ \A c \in Configs : Described(c) # {} /\ Described(c) \cap Files = {}
    /\ NoConfig \notin Configs
    /\ Files \cap Configs = {}

VARIABLES
    meters,     \* names in the table of meters
    stored,     \* the columns stored as readings of a meter
    slots,      \* the requests at work
    told        \* the files an answer SUCCESS named

obviusVars == <<meters, stored, slots, told>>
vars == <<logVars, obviusVars>>

Name(f, i) == <<Serial(f), i>>
Columns(f) == {Name(f, i) : i \in 0..(Width(f) - 1)}
Names(f) == IF f \in Files THEN Columns(f) ELSE Described(f)

(* loads: how far each log file is, or each meter of the configuration     *)
(* file.                                                                   *)
Free == [config |-> NoConfig, loads |-> <<>>, answered |-> FALSE]
Find == [pc |-> "find", col |-> 0]

Init ==
    /\ LogInit
    /\ meters = {}
    /\ stored = {}
    /\ slots = [s \in Slots |-> Free]
    /\ told = {}

Goto(s, x, pc) == slots' = [slots EXCEPT ![s].loads[x].pc = pc]
At(s, x, pc) == x \in DOMAIN slots[s].loads /\ slots[s].loads[x].pc = pc
Loading(s) == DOMAIN slots[s].loads \cap Files # {}

LogUnchanged == UNCHANGED logVars
LogOtherwiseUnchanged == UNCHANGED <<logemail, mailer, mailbox, excused>>

(* Of the errors logged those are followed that say what no answer says:   *)
(* that file f failed for meter n.                                         *)
Blame(n, f) == Say({<<n, f>>}, Web)
Blames == {<<n, f>> : n \in UNION {Names(g) : g \in Files \cup Configs}, f \in Files \cup Configs}

ASSUME BlamesAssumption == Blames \subseteq Messages

-----------------------------------------------------------------------------
(* Log files.                                                              *)

(* The files are unpacked one after the other, and the loading of each is  *)
(* begun before the next is unpacked.  One that does not unpack ends the   *)
(* request with a failure; what was begun goes on and nobody watches it.   *)
SendLogs(s, b) ==
    /\ slots[s] = Free
    /\ ~(ToSet(b) \subseteq told)
    /\ \/ /\ slots' = [slots EXCEPT ![s].loads = [f \in ToSet(b) |-> Find]]
          /\ UNCHANGED faults
       \/ /\ Fault
          /\ \E k \in 1..Len(b) :
                 slots' = [slots EXCEPT ![s] =
                     [config |-> NoConfig, loads |-> [f \in ToSet(SubSeq(b, 1, k - 1)) |-> Find],
                      answered |-> TRUE]]
    /\ UNCHANGED <<said, writes>>
    /\ LogOtherwiseUnchanged
    /\ UNCHANGED <<meters, stored, told>>

Meter(s, f) == Name(f, slots[s].loads[f].col)

(* Fault: a meter that is there is not found.                              *)
FoundNever(s, f) == FALSE

Found(s, f) == Meter(s, f) \in meters

(* A search that fails is taken for one that found nothing.                *)
FindMeter(s, f) ==
    /\ f \in Files /\ At(s, f, "find")
    /\ \/ /\ Goto(s, f, IF Found(s, f) THEN "load" ELSE "create")
          /\ LogUnchanged
       \/ /\ Fault
          /\ Goto(s, f, "create")
          /\ UNCHANGED <<said, writes>>
          /\ LogOtherwiseUnchanged
    /\ UNCHANGED <<meters, stored, told>>

(* The name is unique: if someone else has made the meter since it was not *)
(* found, the file and the columns it still has end here.                  *)
CreateMeter(s, f) ==
    /\ f \in Files /\ At(s, f, "create")
    /\ IF Meter(s, f) \in meters
       THEN Goto(s, f, "failed") /\ UNCHANGED meters
       ELSE Goto(s, f, "load") /\ meters' = meters \cup {Meter(s, f)}
    /\ LogUnchanged
    /\ UNCHANGED <<stored, told>>

(* A failure of the pipeline is logged and the next column is taken.       *)
Load(s, f) ==
    LET last == slots[s].loads[f].col + 1 = Width(f)
    IN  /\ f \in Files /\ At(s, f, "load")
        /\ slots' = [slots EXCEPT ![s].loads[f] = [pc |-> IF last THEN "done" ELSE "find",
                                                    col |-> IF last THEN @.col ELSE @.col + 1]]
        /\ \/ /\ stored' = stored \cup {<<Meter(s, f), f>>}
              /\ LogUnchanged
           \/ /\ Fault
              /\ Blame(Meter(s, f), f)
              /\ LogOtherwiseUnchanged
              /\ UNCHANGED stored
        /\ UNCHANGED <<meters, told>>

(* Fault: it is enough that one of the files has been loaded.              *)
AllLoadedOne(s) == \E f \in DOMAIN slots[s].loads : At(s, f, "done")

AllLoaded(s) == \A f \in DOMAIN slots[s].loads : At(s, f, "done")

Succeed(s) ==
    /\ Loading(s) /\ ~slots[s].answered
    /\ AllLoaded(s)
    /\ slots' = [slots EXCEPT ![s].answered = TRUE]
    /\ \/ told' = told \cup DOMAIN slots[s].loads /\ UNCHANGED faults
       \/ Fault /\ UNCHANGED told  \* the answer is lost
    /\ UNCHANGED <<said, writes>>
    /\ LogOtherwiseUnchanged
    /\ UNCHANGED <<meters, stored>>

(* The first file that fails is answered; the others go on.                *)
Refuse(s) ==
    /\ Loading(s) /\ ~slots[s].answered
    /\ \E f \in DOMAIN slots[s].loads : At(s, f, "failed")
    /\ slots' = [slots EXCEPT ![s].answered = TRUE]
    /\ LogUnchanged
    /\ UNCHANGED <<meters, stored, told>>

(* What fails after the answer is at most logged.                          *)
Finish(s) ==
    /\ slots[s].answered
    /\ \A f \in DOMAIN slots[s].loads : At(s, f, "done") \/ At(s, f, "failed")
    /\ slots' = [slots EXCEPT ![s] = Free]
    /\ LogUnchanged
    /\ UNCHANGED <<meters, stored, told>>

-----------------------------------------------------------------------------
(* Configuration files.                                                    *)

(* The modbus device is a parameter of the request: a file comes alone.    *)
SendConfig(s, c) ==
    /\ slots[s] = Free
    /\ c \notin told
    /\ slots' = [slots EXCEPT ![s].config = c]
    /\ LogUnchanged
    /\ UNCHANGED <<meters, stored, told>>

Config(s) == slots[s].config

(* The file is kept, then all its meters are looked for side by side.      *)
(* Should the insert fail, nobody catches it and nobody answers.           *)
KeepConfig(s) ==
    /\ Config(s) # NoConfig /\ slots[s].loads = <<>>
    /\ \/ /\ slots' = [slots EXCEPT ![s].loads = [n \in Described(Config(s)) |-> Find]]
          /\ UNCHANGED faults
       \/ /\ Fault
          /\ slots' = [slots EXCEPT ![s] = Free]
    /\ UNCHANGED <<said, writes>>
    /\ LogOtherwiseUnchanged
    /\ UNCHANGED <<meters, stored, told>>

LookFor(s, n) ==
    /\ n \notin Files /\ At(s, n, "find")
    /\ Goto(s, n, IF n \in meters THEN "done" ELSE "create")
    /\ LogUnchanged
    /\ UNCHANGED <<meters, stored, told>>

(* An insert that fails, because the meter has come in between or for any  *)
(* other reason, is logged and the answer does not tell of it.             *)
AddMeter(s, n) ==
    /\ n \notin Files /\ At(s, n, "create")
    /\ Goto(s, n, "done")
    /\ \/ /\ n \notin meters
          /\ meters' = meters \cup {n}
          /\ LogUnchanged
       \/ /\ IF n \in meters THEN UNCHANGED faults ELSE Fault
          /\ Blame(n, Config(s))
          /\ LogOtherwiseUnchanged
          /\ UNCHANGED meters
    /\ UNCHANGED <<stored, told>>

AnswerConfig(s) ==
    /\ Config(s) # NoConfig /\ slots[s].loads # <<>>
    /\ \A n \in DOMAIN slots[s].loads : At(s, n, "done")
    /\ told' = told \cup {Config(s)}
    /\ slots' = [slots EXCEPT ![s] = Free]
    /\ LogUnchanged
    /\ UNCHANGED <<meters, stored>>

-----------------------------------------------------------------------------
(* The web server dies: the requests are gone, and what was not yet logged.*)
Crash ==
    /\ Fault
    /\ Forget(Web)
    /\ slots' = [s \in Slots |-> Free]
    /\ UNCHANGED <<mailer, meters, stored, told>>

Work(s) ==
    \/ \E f \in Files : FindMeter(s, f) \/ CreateMeter(s, f) \/ Load(s, f)
    \/ Succeed(s) \/ Refuse(s) \/ Finish(s)
    \/ KeepConfig(s) \/ AnswerConfig(s)
    \/ \E n \in DOMAIN slots[s].loads : LookFor(s, n) \/ AddMeter(s, n)

Next ==
    \/ \E s \in Slots : Work(s)
    \/ \E s \in Slots : \/ \E b \in Bundles(s) : SendLogs(s, b)
                       \/ \E c \in Configs : SendConfig(s, c)
    \/ Crash
    \/ LogNext /\ UNCHANGED obviusVars

Resend(f) == \E s \in Slots : \E b \in Bundles(s) : f \in ToSet(b) /\ SendLogs(s, b)

Spec ==
    /\ Init /\ [][Next]_vars
    /\ LogFairness
    /\ \A s \in Slots : WF_vars(Work(s))
    /\ \A f \in Files : WF_vars(Resend(f))

-----------------------------------------------------------------------------
(* What SUCCESS means.  For every meter of a file the logger was told      *)
(* about, the readings are stored, or the meter is there, or an error says *)
(* so and is on its way to the administrators: the logger will not send    *)
(* the file again (obvius.js:196, Configfile.js:117).                      *)
Settled(n, f) ==
    \/ f \in Files /\ <<n, f>> \in stored
    \/ f \in Configs /\ n \in meters
    \/ <<n, f>> \in said /\ Announced(<<n, f>>)

SuccessMeant == \A f \in told : \A n \in Names(f) : Settled(n, f)

(* Files that are sent again until they are accepted are accepted in the   *)
(* end, although loads of the same new meter make each other fail.         *)
UploadsHeard == \A f \in Files : <>(f \in told)
=============================================================================

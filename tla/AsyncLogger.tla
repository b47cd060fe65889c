---------------------------- MODULE AsyncLogger ----------------------------
(***************************************************************************)
(* mprpc's logger: the macros LOG_INFO and LOG_ERROR set the level of the  *)
(* one Logger and push a message on its queue; a detached thread takes the *)
(* messages out and writes them, each with a level and into the file of a  *)
(* day.  It chooses the day before it waits for the message, and reads the *)
(* level after it.                                                         *)
(***************************************************************************)
EXTENDS Naturals, Sequences

CONSTANTS Loggers,      \* threads that log
          MaxMessages,  \* bound: messages
          MaxDay        \* bound: days

ASSUME LoggerAssumption == MaxMessages \in Nat /\ MaxDay \in Nat \ {0}

Levels == {"info", "error"}

VARIABLES
    logLevel,           \* m_loglevel
    logQueue,           \* m_lckQue
    macro,              \* of each thread: the level of the macro it is in
    writerPc,           \* of the detached thread
    fileDay,            \* the day of the file it has opened
    message,            \* what it has taken out
    today,
    pushed, logged      \* history: all messages, and all records written

loggerVars ==
  <<logLevel, logQueue, macro, writerPc, fileDay, message, today, pushed,
    logged>>

NoMessage == [level |-> "none", by |-> "none"]

\* m_loglevel is not initialised; every macro sets it first.
LoggerInit ==
  /\ logLevel \in Levels
  /\ logQueue = << >>
  /\ macro = [t \in Loggers |-> "none"]
  /\ writerPc = "open" /\ fileDay = 0 /\ message = NoMessage
  /\ today = 1
  /\ pushed = << >> /\ logged = << >>

\* LOG_INFO, LOG_ERROR: SetLogLevel(), and then Log() with LockQueue::Push().
SetLogLevel(t, level) ==
  /\ macro[t] = "none" /\ Len(pushed) < MaxMessages /\ writerPc # "gone"
  /\ logLevel' = level
  /\ macro' = [macro EXCEPT ![t] = level]
  /\ UNCHANGED <<logQueue, writerPc, fileDay, message, today, pushed, logged>>

Log(t) ==
  /\ macro[t] # "none" /\ Len(pushed) < MaxMessages /\ writerPc # "gone"
  /\ LET msg == [level |-> macro[t], by |-> t] IN
       /\ logQueue' = Append(logQueue, msg)
       /\ pushed' = Append(pushed, msg)
  /\ macro' = [macro EXCEPT ![t] = "none"]
  /\ UNCHANGED <<logLevel, writerPc, fileDay, message, today, logged>>

\* Variant: a file that is open stays in use.
OpenFile_Once ==
  /\ writerPc = "open"
  /\ fileDay' = IF fileDay = 0 THEN today ELSE fileDay
  /\ writerPc' = "pop"
  /\ UNCHANGED <<logLevel, logQueue, macro, message, today, pushed, logged>>

\* The writer's loop: time() and fopen(), which may fail and end the process;
OpenFile ==
  /\ writerPc = "open"
  /\ fileDay' = today
  /\ writerPc' = "pop"
  /\ UNCHANGED <<logLevel, logQueue, macro, message, today, pushed, logged>>

\* LockQueue::Pop(), which waits for a message;
Pop ==
  /\ writerPc = "pop" /\ logQueue # << >>
  /\ message' = Head(logQueue)
  /\ logQueue' = Tail(logQueue)
  /\ writerPc' = "write"
  /\ UNCHANGED <<logLevel, macro, fileDay, today, pushed, logged>>

\* fputs() and fclose().
Write ==
  /\ writerPc = "write"
  /\ logged' = Append(logged, [message |-> message, file |-> fileDay,
                               label |-> logLevel, written |-> today])
  /\ message' = NoMessage
  /\ writerPc' = "open"
  /\ UNCHANGED <<logLevel, logQueue, macro, fileDay, today, pushed>>

Midnight ==
  /\ today < MaxDay /\ writerPc # "gone"
  /\ today' = today + 1
  /\ UNCHANGED <<logLevel, logQueue, macro, writerPc, fileDay, message, pushed,
                 logged>>

\* fopen() fails, or main() returns: the detached thread ends where it is, and
\* the queue is lost.
LoggerExit ==
  /\ writerPc # "gone"
  /\ writerPc' = "gone"
  /\ UNCHANGED <<logLevel, logQueue, macro, fileDay, message, today, pushed,
                 logged>>

LoggerNext ==
  \/ \E t \in Loggers : \/ \E level \in Levels : SetLogLevel(t, level)
                        \/ Log(t)
  \/ OpenFile \/ Pop \/ Write
  \/ Midnight
  \/ LoggerExit

LoggerSpec == LoggerInit /\ [][LoggerNext]_loggerVars

-----------------------------------------------------------------------------
Messages(records) == [i \in DOMAIN records |-> records[i].message]

\* Messages are written once and in the order in which they were pushed, by
\* whatever thread (lockqueue.h:13-31); the files' days never go back, and a
\* message is never filed under a day that was over when the writer had
\* finished the one before (logger.cc:15-42): only the message that ends a
\* wait over midnight comes under an old date.  The level is that of the last
\* macro entered by any thread, so that a record bears the wrong label only if
\* messages of both levels have been logged (logger.h:31-49).
LogInOrder ==
  /\ pushed = Messages(logged)
               \o (IF message = NoMessage THEN << >> ELSE <<message>>)
               \o logQueue
  /\ \A i \in DOMAIN logged :
       /\ logged[i].file <= logged[i].written
       /\ i > 1 => logged[i - 1].written <= logged[i].file
  /\ \A level \in Levels :
       (/\ \A i \in DOMAIN pushed : pushed[i].level = level
        /\ \A t \in Loggers : macro[t] \in {"none", level})
         => \A i \in DOMAIN logged : logged[i].label = level
=============================================================================

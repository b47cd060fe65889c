------------------------------ MODULE Library ------------------------------
(***************************************************************************)
(* The parts of the repository that no other part drives through states of *)
(* its own: mymuduo's Buffer, the memory pool, mprpc's logger, and the     *)
(* sequential programs.  A behaviour is one of one part, the subject; the  *)
(* others stay as they began.                                              *)
(***************************************************************************)
EXTENDS Buffer, NgxMemPool, AsyncLogger, Algorithms

VARIABLE subject

libraryVars == <<subject, bufferVars, pool, loggerVars, input>>

Init ==
  /\ subject \in {"buffer", "pool", "logger", "algorithms"}
  /\ BufferInit /\ PoolInit /\ LoggerInit /\ AlgorithmsInit
  /\ subject # "pool" => \A n \in PoolSizes : pool.size <= n
  /\ subject # "logger" => logLevel = "info"
  /\ subject # "algorithms" => input = CHOOSE i \in Inputs : TRUE

Next ==
  /\ UNCHANGED <<subject, input>>
  /\ \/ /\ subject = "buffer" /\ BufferNext
        /\ UNCHANGED <<pool, loggerVars>>
     \/ /\ subject = "pool" /\ PoolNext
        /\ UNCHANGED <<bufferVars, loggerVars>>
     \/ /\ subject = "logger" /\ LoggerNext
        /\ UNCHANGED <<bufferVars, pool>>

Spec == Init /\ [][Next]_libraryVars
=============================================================================

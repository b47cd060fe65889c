-------------------------- MODULE MCConnectionPool --------------------------
(* The pool with a small mysql.ini: the sizes are given twice, the last    *)
(* line of a key counts, and comments are skipped.                         *)
EXTENDS ConnectionPool

Line(k, v) == [key |-> k, value |-> v]

MCLines == << Line(NoKey, 0), Line("initSize", 2), Line("maxSize", 2),
              Line(NoKey, 0), Line("initSize", 1), Line("maxIdleTime", 0) >>
=============================================================================

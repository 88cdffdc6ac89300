--------------------------- MODULE MCIndexProject ---------------------------
(***************************************************************************)
(* Small instances of IndexProject: one thread of the Qt pool and the main *)
(* thread, which may run tasks too, so that two tasks overlap and a third  *)
(* reuses a daemon; one more Daemon identity than threads, so that         *)
(* PoolBound says something; three compile commands, two of whose archives *)
(* share the entry of a header, each with an older version.                *)
(***************************************************************************)
EXTENDS IndexProject

CONSTANTS m, w,               \* threads
          d1, d2, d3,         \* daemons
          p1, p2, p3,         \* idx files
          t1, t2, t3,         \* temporary files
          hdr, a, b, c, oldH, oldA   \* entry hashes

MCNewEntry == <<<<a, hdr>>, <<b, hdr>>, <<c>>>>
MCOldEntry == <<<<oldA, oldH>>, <<b, oldH>>, <<c>>>>
MCIdxPath == <<p1, p2, p3>>
MCSharedIdxPath == <<p1, p1, p3>>
MCTempPath == <<t1, t2, t3>>
=============================================================================

------------------------------ MODULE MCWatchdog ------------------------------
(* The watchdogs of both devices in one run.  The two tasks share nothing, so  *)
(* one of them runs while the other has not started: every state of each is    *)
(* reached, and none of their products.                                        *)
EXTENDS ServeLoop, RefreshLoop

SinkholeNotStarted == <<pc, spent, socks>> = <<"setup", 0, 0>>
GeneratorNotStarted == <<step, unfed>> = <<"start", 0>>

SinkholeTurn == Next /\ GeneratorNotStarted /\ UNCHANGED refreshVars
GeneratorTurn == RefreshNext /\ SinkholeNotStarted /\ UNCHANGED vars

BothInit == Init /\ RefreshInit

BothSpec == BothInit /\ [][SinkholeTurn \/ GeneratorTurn]_<<vars, refreshVars>>
===============================================================================

--------------------------------- MODULE MCGame ---------------------------------
(* Instance of GameSession for TLC: the log of a game whose mod loader     *)
(* gives up before the heap does, and whose JVM says so on the other pipe. *)
EXTENDS GameSession

MCSays ==
  [l \in Line |->
     CASE l = [stream |-> "stdout", n |-> 1] -> Text({"ModLoaderFailure", "GameError"}, TRUE, {})
       [] l = [stream |-> "stdout", n |-> 2] -> Text({"OutOfMemory"}, TRUE, {})
       [] l = [stream |-> "stderr", n |-> 1] -> Text({"NativeCrash"}, FALSE, {"hs_err_pid.log"})
       [] OTHER -> Plain]
===============================================================================

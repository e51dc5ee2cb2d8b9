------------------------------ MODULE GameSession -------------------------------
(***************************************************************************)
(* What the engine makes of a game process (launch/engine.rs and           *)
(* robust/reporter.rs).  launch_and_wait owns the process for itself: it   *)
(* waits, keeps the last lines of all games in a ring, and when the game   *)
(* crashed writes a crash log and publishes an event.  It may be dropped   *)
(* at any await.  A caller of launch keeps the process and handles it as   *)
(* GameProcess says; nothing is reported then.                             *)
(***************************************************************************)
EXTENDS GameProcess

CONSTANT RingSize    \* lines the ring keeps

ASSUME SessionAssumption == RingSize \in Nat \ {0}

VARIABLES
  supervised,  \* TRUE for launch_and_wait
  engine,      \* where launch_and_wait is after the exit
  ring,        \* the last lines of the process-wide log ring
  crashlog,    \* the crash log on the disk: a sequence of at most one
  event        \* the category of the event published, or "none"

session == <<supervised, engine, ring, crashlog, event>>
allVars == <<vars, session>>

SessionInit ==
  /\ Init /\ supervised \in BOOLEAN
  /\ engine = "waiting" /\ ring = <<>> /\ crashlog = <<>> /\ event = "none"

(* LogRing::push, for each line the caller hears. *)
Pushed(r, l) == IF Len(r) = RingSize THEN Append(Tail(r), l) ELSE Append(r, l)

HearLine ==
  /\ ring' = IF supervised /\ heard' # heard THEN Pushed(ring, Last(heard')) ELSE ring
  /\ UNCHANGED <<supervised, engine, crashlog, event>>

(* launch_and_wait waits, or is dropped with the process. *)
Supervise ==
  \/ Watch \/ Wait
  \/ DropFrom({"watch", "drain", "reap"})
  \/ engine = "returned" /\ DropFrom({"done"})

GameStep ==
  /\ Game \/ Pumps \/ (~supervised /\ Owner) \/ (supervised /\ Supervise)
  /\ HearLine

CrashLogOfRing(report) ==   \* mutant: the lines of the ring instead of the game's
  [category |-> report.category, evidence |-> report.evidence, lines |-> Texts(ring)]

(* CrashLog::new.with_logs: the lines the game's own buffer retained. *)
CrashLog(report) ==
  [category |-> report.category, evidence |-> report.evidence, lines |-> Texts(log.kept)]

(* report_crash: the log is written first, and without it there is no      *)
(* event; the failure is dropped.                                          *)
ReportCrash ==
  /\ supervised /\ owner = "done" /\ engine = "waiting"
  /\ \/ /\ Crashed(Verdict)
        /\ crashlog' = <<CrashLog(Verdict)>> /\ engine' = "written"
     \/ engine' = "returned" /\ UNCHANGED crashlog    \* clean, or the disk refuses
  /\ UNCHANGED <<vars, supervised, ring, event>>

EmitCrashEvent ==
  /\ engine = "written" /\ engine' = "returned"
  /\ event' = crashlog[1].category
  /\ UNCHANGED <<vars, supervised, ring, crashlog>>

Report == ReportCrash \/ EmitCrashEvent
SessionNext == GameStep \/ Report
SessionSpec == SessionInit /\ [][SessionNext]_allVars /\ Fairness

-----------------------------------------------------------------------------
(* Properties *)

(* A crash log holds what its verdict rests on: every line of evidence, a  *)
(* line of the category it names and none of a category before it, unless  *)
(* the signal alone decided; and the event, when it comes, says the same.  *)
ReportExplainsItself ==
  \A c \in ToSet(crashlog) :
    LET shown == {RuleOf(c.lines[i]) : i \in DOMAIN c.lines} \ {0}
        named == SelectInSeq(Rules, LAMBDA r : r = c.category)
    IN
    /\ ToSet(c.evidence) \subseteq ToSet(c.lines)
    /\ named # 0 /\ ~(c.category = "NativeCrash" /\ game = "crashed") =>
         named \in shown /\ \A r \in shown : r >= named
    /\ c.category = "Unknown" => shown = {}
    /\ event \in {"none", c.category}
===============================================================================

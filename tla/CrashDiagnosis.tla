----------------------------- MODULE CrashDiagnosis -----------------------------
(***************************************************************************)
(* The diagnosis of a finished game (launch/crash.rs), from how it ended   *)
(* and the lines that were retained.  A text is a record: the categories   *)
(* whose patterns it holds, whether it shows a Java exception, and the     *)
(* hs_err files it names; how patterns are searched is left out.           *)
(***************************************************************************)
EXTENDS Naturals, Sequences, SequencesExt, Subsequences

CONSTANT MaxEvidence     \* MAX_EVIDENCE_LINES

ASSUME EvidenceAssumption == MaxEvidence \in Nat

(* RULES: in order of priority. *)
Rules ==
  <<"OutOfMemory", "UnsupportedJavaVersion", "MissingNativeLibrary", "GraphicsFailure",
    "NativeCrash", "CorruptedFile", "MissingMainClass", "AuthenticationFailure", "DiskFull",
    "PermissionDenied", "ModLoaderFailure", "GameError">>

Text(categories, exception, files) ==
  [categories |-> categories, exception |-> exception, files |-> files]
Plain == Text({}, FALSE, {})

(* The first rule a line matches, 0 when it matches none. *)
RuleOf(t) == SelectInSeq(Rules, LAMBDA c : c \in t.categories)

BestOfLast(ts) ==   \* mutant: the last line that matches decides
  LET is == {i \in DOMAIN ts : RuleOf(ts[i]) # 0}
  IN  IF is = {} THEN 0 ELSE RuleOf(ts[CHOOSE i \in is : \A j \in is : j <= i])

(* The first rule that matches anywhere. *)
Best(ts) ==
  SelectInSeq(Rules, LAMBDA c : \E i \in DOMAIN ts : RuleOf(ts[i]) # 0 /\ Rules[RuleOf(ts[i])] = c)

(* Lines that match some rule, each once, as many as a report keeps. *)
Evidence(ts) ==
  LET fresh == {i \in DOMAIN ts : RuleOf(ts[i]) # 0 /\ \A j \in 1 .. i - 1 : ts[j] # ts[i]}
      all   == Subsequence(ts, fresh)
  IN  SubSeq(all, 1, IF Len(all) < MaxEvidence THEN Len(all) ELSE MaxEvidence)

FirstException(ts) == SelectInSeq(ts, LAMBDA t : t.exception)   \* its line, 0 when none

Named(ts, none) == IF Best(ts) = 0 THEN none ELSE Rules[Best(ts)]

(* A stop that was asked for explains any failure, SIGTERM and SIGKILL     *)
(* explain themselves; a native signal is believed unless the log names    *)
(* what led to it.                                                         *)
Category(end, ts, asked) ==
  CASE end = "clean"                         -> "CleanExit"
    [] end # "clean" /\ asked                -> "UserTerminated"
    [] ~asked /\ end = "terminated"          -> "UserTerminated"
    [] ~asked /\ end = "killed"              -> "KilledBySystem"
    [] ~asked /\ end = "crashed" ->
         LET c == Named(ts, "NativeCrash")
         IN  IF c \in {"OutOfMemory", "GraphicsFailure", "MissingNativeLibrary"}
               THEN c ELSE "NativeCrash"
    [] ~asked /\ end = "failed"              -> Named(ts, "Unknown")

Diagnose(end, ts, asked) ==
  [category |-> Category(end, ts, asked),
   evidence |-> IF end = "clean" THEN <<>> ELSE Evidence(ts),
   exception |-> IF end = "clean" THEN 0 ELSE FirstException(ts),
   files |-> UNION {t.files : t \in ToSet(ts)}]

Crashed(report) == report.category # "CleanExit"    \* CrashReport::crashed
===============================================================================

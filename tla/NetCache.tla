------------------------------- MODULE NetCache -------------------------------
(***************************************************************************)
(* Fetching one resource through the mirrors and the offline cache:        *)
(* fetch_cached (robust/cache.rs) replays NetworkClient::fetch_range       *)
(* (net/client.rs) under a RetryPolicy (robust/retry.rs), stores what it   *)
(* gets, and degrades to the stored copy when the network fails.           *)
(*                                                                         *)
(* Several callers fetch the same URL and share the entry on disk, two     *)
(* files written one after the other, each truncated and then filled.      *)
(* The process may be killed between any two of these steps.  Backoff      *)
(* delays and the freshness window of an entry (time) are left out.        *)
(***************************************************************************)
EXTENDS Integers, FiniteSets

CONSTANTS
  Caller,       \* concurrent calls of fetch_cached for one URL
  NumCands,     \* candidate URLs: the origin, then the mirrors
  MaxRetries,   \* NetworkConfig::max_retries, per candidate
  MaxAttempts,  \* RetryPolicy::max_attempts, whole fetches
  Outcomes,     \* what a request may meet: "ok", "http", "down", "broken"
  MaxFetches,   \* bound: calls of fetch_cached
  MaxCrashes    \* bound: times the process is killed

ASSUME NetAssumption ==
  /\ NumCands \in Nat \ {0} /\ MaxRetries \in Nat /\ MaxAttempts \in Nat
  /\ Outcomes \subseteq {"ok", "http", "down", "broken"}
  /\ MaxFetches \in Nat /\ MaxCrashes \in Nat

VARIABLES
  phase,     \* where each call is
  loc,       \* the locals of each call under way, and what its requests met
  answer,    \* how each call ended
  bin, meta, \* the two files of the entry
  fetches,   \* calls that may still be made
  crashes    \* times the process may still be killed

disk == <<bin, meta>>
vars == <<phase, loc, answer, disk, fetches, crashes>>

-----------------------------------------------------------------------------
Idle == "idle"
MaxOf(x, y) == IF x > y THEN x ELSE y
Budget == MaxOf(MaxAttempts, 1) * NumCands * (MaxRetries + 1)

(* The candidate asked and the failed requests to it (send_range), the     *)
(* failed fetches (retry_with_policy), last_err, force_offline; met and    *)
(* sent are for the properties: what the requests met, and how many.       *)
Locals == [cand : 1 .. NumCands, tries : 0 .. MaxRetries,
           attempt : 0 .. MaxOf(MaxAttempts, 1) - 1, error : {"none", "Network", "Download"},
           offline : BOOLEAN, met : SUBSET Outcomes, sent : 0 .. Budget + 1]
NoLocals == [cand |-> 1, tries |-> 0, attempt |-> 0, error |-> "none",
             offline |-> FALSE, met |-> {}, sent |-> 0]

TypeOK ==
  /\ phase \in [Caller -> {Idle, "request", "failed", "bin", "fillbin", "meta",
                           "fillmeta", "contains", "get"}]
  /\ loc \in [Caller -> Locals]
  /\ answer \in [Caller -> {"none", "fresh", "cached", "torn", "refused", "offline"}]
  /\ bin \in {"absent", "empty", "whole"} /\ meta \in {"absent", "empty", "whole"}
  /\ fetches \in 0 .. MaxFetches /\ crashes \in 0 .. MaxCrashes

Init ==
  /\ phase = [c \in Caller |-> Idle]
  /\ loc = [c \in Caller |-> NoLocals]
  /\ answer = [c \in Caller |-> "none"]
  /\ bin \in {"absent", "whole"} /\ meta = bin   \* what an earlier run stored
  /\ fetches = MaxFetches /\ crashes = MaxCrashes

Go(c, p) == phase' = [phase EXCEPT ![c] = p] /\ UNCHANGED answer

(* A call returns: its locals go. *)
Answer(c, a) ==
  /\ phase' = [phase EXCEPT ![c] = Idle]
  /\ answer' = [answer EXCEPT ![c] = a]
  /\ loc' = [loc EXCEPT ![c] = NoLocals]

-----------------------------------------------------------------------------
(* fetch_cached, entry *)
Begin(c, off) ==
  /\ phase[c] = Idle /\ fetches > 0 /\ fetches' = fetches - 1
  /\ phase' = [phase EXCEPT ![c] = IF off THEN "contains" ELSE "request"]
  /\ answer' = [answer EXCEPT ![c] = "none"]
  /\ loc' = [loc EXCEPT ![c].offline = off]
  /\ UNCHANGED <<disk, crashes>>

-----------------------------------------------------------------------------
(* NetworkClient::send_range *)

Meets(l, o) == [l EXCEPT !.met = @ \cup {o},
                         !.sent = IF @ > Budget THEN @ ELSE @ + 1]

GiveUpStartsOver(c, l, e) ==   \* mutant: the mirrors are asked in a circle
  /\ loc' = [loc EXCEPT ![c] = [l EXCEPT !.error = e, !.tries = 0,
                                         !.cand = (@ % NumCands) + 1]]
  /\ UNCHANGED <<phase, answer>>

(* The candidate is given up: the next one is asked, or the fetch fails    *)
(* with the error of the last.                                             *)
GiveUp(c, l, e) ==
  IF l.cand = NumCands
    THEN loc' = [loc EXCEPT ![c] = [l EXCEPT !.error = e]] /\ Go(c, "failed")
    ELSE /\ loc' = [loc EXCEPT ![c] = [l EXCEPT !.error = e, !.tries = 0, !.cand = @ + 1]]
         /\ UNCHANGED <<phase, answer>>

Responds(c) ==      \* 200 or 206 and the whole body: store it
  /\ loc' = [loc EXCEPT ![c] = NoLocals]
  /\ Go(c, "bin")

BodyBreaks(c) ==    \* the body fails after the headers: no other candidate
  /\ loc' = [loc EXCEPT ![c] = [Meets(@, "broken") EXCEPT !.error = "Network"]]
  /\ Go(c, "failed")

Refuses(c) ==       \* any other status: the next candidate at once
  GiveUp(c, Meets(loc[c], "http"), "Download")

Unreachable(c) ==   \* a transport error: the same candidate, after a backoff
  LET l == Meets(loc[c], "down")
  IN  IF l.tries < MaxRetries
        THEN /\ loc' = [loc EXCEPT ![c] = [l EXCEPT !.tries = @ + 1]]
             /\ UNCHANGED <<phase, answer>>
        ELSE GiveUp(c, l, "Network")

Request(c) ==
  /\ phase[c] = "request"
  /\ \/ "ok" \in Outcomes /\ Responds(c)
     \/ "broken" \in Outcomes /\ BodyBreaks(c)
     \/ "http" \in Outcomes /\ Refuses(c)
     \/ "down" \in Outcomes /\ Unreachable(c)
  /\ UNCHANGED <<disk, fetches, crashes>>

-----------------------------------------------------------------------------
(* retry_with_policy, then what fetch_cached makes of the last error *)

(* RcError::severity: the variants that are Transient; an HTTP status is a *)
(* Download error, whatever the status.                                    *)
Transient == {"Network", "Timeout", "Connection", "RateLimited"}
Retryable(l) == l.error \in Transient

LastAttemptLate(l) == l.attempt >= MaxAttempts   \* mutant: one too many
LastAttempt(l) == l.attempt + 1 >= MaxAttempts

Retry(c, l) ==   \* the next fetch starts from the origin
  /\ loc' = [loc EXCEPT ![c] = [l EXCEPT !.cand = 1, !.tries = 0, !.error = "none",
                                         !.attempt = @ + 1]]
  /\ Go(c, "request")

DegradeAnyway(c, l) ==   \* mutant: any error degrades
  Go(c, "contains") /\ UNCHANGED loc

Degrade(c, l) ==
  IF Retryable(l) THEN Go(c, "contains") /\ UNCHANGED loc ELSE Answer(c, "refused")

FetchFailed(c) ==
  /\ phase[c] = "failed"
  /\ IF Retryable(loc[c]) /\ ~LastAttempt(loc[c]) THEN Retry(c, loc[c]) ELSE Degrade(c, loc[c])
  /\ UNCHANGED <<disk, fetches, crashes>>

(* CacheStore::put: each file is truncated, then filled.  An I/O error     *)
(* ends it where it is, and the call answers what it fetched all the same. *)
TruncateBin(c)  == phase[c] = "bin" /\ bin' = "empty" /\ Go(c, "fillbin") /\ UNCHANGED <<meta, loc>>
FillBin(c)      == phase[c] = "fillbin" /\ bin' = "whole" /\ Go(c, "meta") /\ UNCHANGED <<meta, loc>>
TruncateMeta(c) == phase[c] = "meta" /\ meta' = "empty" /\ Go(c, "fillmeta") /\ UNCHANGED <<bin, loc>>
FillMeta(c)     == phase[c] = "fillmeta" /\ meta' = "whole" /\ Answer(c, "fresh") /\ UNCHANGED bin
PutFails(c)     == /\ phase[c] \in {"bin", "fillbin", "meta", "fillmeta"}
                   /\ Answer(c, "fresh") /\ UNCHANGED disk

Put(c) ==
  /\ TruncateBin(c) \/ FillBin(c) \/ TruncateMeta(c) \/ FillMeta(c) \/ PutFails(c)
  /\ UNCHANGED <<fetches, crashes>>

(* CacheStore::contains, then CacheStore::get: two looks at the directory. *)
StoredWithMeta == meta = "whole"   \* mutant: the side-car decides
Stored == bin # "absent"

Contains(c) ==
  /\ phase[c] = "contains"
  /\ IF Stored THEN Go(c, "get") /\ UNCHANGED loc ELSE Answer(c, "offline")
  /\ UNCHANGED <<disk, fetches, crashes>>

Get(c) ==
  /\ phase[c] = "get"
  /\ Answer(c, CASE bin = "whole"  -> "cached"
                 [] bin = "empty"  -> "torn"
                 [] bin = "absent" -> "offline")
  /\ UNCHANGED <<disk, fetches, crashes>>

Crash ==
  /\ crashes > 0 /\ crashes' = crashes - 1
  /\ phase' = [c \in Caller |-> Idle]
  /\ loc' = [c \in Caller |-> NoLocals]
  /\ answer' = [c \in Caller |-> "none"]
  /\ UNCHANGED <<disk, fetches>>

-----------------------------------------------------------------------------
Step(c) == Request(c) \/ FetchFailed(c) \/ Put(c) \/ Contains(c) \/ Get(c)

Finished == fetches = 0 /\ (\A c \in Caller : phase[c] = Idle) /\ UNCHANGED vars

Next ==
  \/ Crash \/ Finished
  \/ \E c \in Caller : Step(c) \/ \E off \in BOOLEAN : Begin(c, off)

(* The runtime polls every call; a request ends by the read timeout.       *)
Spec == Init /\ [][Next]_vars /\ \A c \in Caller : WF_vars(Step(c))

-----------------------------------------------------------------------------
(* Properties *)

Ends(c, a) == answer[c] # a /\ answer'[c] = a

(* A resource that "genuinely does not exist" is not served from the       *)
(* cache: when every request of a call was answered with an HTTP error,    *)
(* the call is refused, whatever was stored before or meanwhile.  And a    *)
(* call is refused for want of a copy only if none was stored: what a      *)
(* crash, a failed write or another call's put left of the entry hides no  *)
(* whole body.                                                             *)
EndsHonestly ==
  [][\A c \in Caller :
       /\ Ends(c, "cached") \/ Ends(c, "torn") =>
            loc[c].offline \/ ~(loc[c].met \subseteq {"http"})
       /\ bin = "whole" => ~Ends(c, "offline")]_vars

(* Two levels of retries over the candidates stay within their product.    *)
RequestsBounded == TypeOK /\ \A c \in Caller : loc[c].sent <= Budget

(* Every call ends: the retries, the candidates and the attempts run out.  *)
EveryCallEnds == \A c \in Caller : phase[c] # Idle ~> phase[c] = Idle
=============================================================================

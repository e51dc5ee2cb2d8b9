------------------------------ MODULE NetworkClient ------------------------------
(***************************************************************************)
(* The network client (net/): how NetworkClientBuilder::build finds        *)
(* addresses for the hosts it protects (net/dns.rs), how the mirrors are   *)
(* measured and one of them pinned (net/mirror.rs), and how get walks the  *)
(* candidates of a URL.  Gets and speed tests share one client and run at  *)
(* the same time.  Backoff delays are left out, and the map of latencies,  *)
(* which nothing reads.  Ranged requests are in NetCache.                  *)
(***************************************************************************)
EXTENDS Naturals, Sequences, FiniteSets, Subsequences

CONSTANTS
  Mirrors,       \* the configured mirrors, each with an id and the hosts it lists
  MojangHost,    \* MOJANG_HOSTS
  Host,          \* hosts of the URLs asked for
  Protected,     \* protected_hosts, in order
  StaticMap,     \* DnsMode::Static: the addresses of some hosts
  DohServers,    \* DnsMode::Doh: the upstreams, in order
  Body,          \* what an upstream may answer: see ParseDohJson
  Latency,       \* what a probe may measure
  GetRetries,    \* NetworkConfig::max_retries, per candidate
  User,          \* concurrent calls of get and auto_select_mirror
  MaxUses        \* bound: such calls

Origin == "origin"   \* stands for the host of a URL, beside the ids of the mirrors

ASSUME ClientAssumption ==
  /\ Latency \subseteq Nat /\ GetRetries \in Nat /\ MaxUses \in Nat
  /\ Mirrors \in Seq([id : STRING \ {Origin}, hosts : SUBSET STRING])
  /\ \A i, j \in DOMAIN Mirrors : Mirrors[i].id = Mirrors[j].id => i = j
  /\ Protected \in Seq(STRING) /\ DohServers \in Seq(STRING)

VARIABLES
  mode,        \* DnsConfig::mode
  building,    \* where build is: the host, the upstream, the record type
  overrides,   \* the addresses given to the connector
  told,        \* history: the upstreams asked for each host, and if they told an address
  pinned,      \* MirrorProvider::best
  use,         \* the locals of each call
  uses         \* calls that may still be made

clientVars == <<mode, building, overrides, told, pinned, use, uses>>

-----------------------------------------------------------------------------
(* Mirrors: of a URL the model keeps the host it names and who is asked.   *)
Nobody == "none"
Url(h, via) == [host |-> h, via |-> via]

CanMirror(m, h) == IF m.hosts = {} THEN h \in MojangHost ELSE h \in m.hosts

Rewrite(ms, h) ==   \* rewrite, over a list of mirrors
  LET able == Subsequence(ms, {i \in DOMAIN ms : CanMirror(ms[i], h)})
  IN  [i \in DOMAIN able |-> Url(h, able[i].id)]

RewriteAll(h) ==    \* the pinned one first, then the others
  LET best == {i \in DOMAIN Mirrors : Mirrors[i].id = pinned}
  IN  Rewrite(Subsequence(Mirrors, best), h)
        \o Rewrite(Subsequence(Mirrors, DOMAIN Mirrors \ best), h)

CandidateUrls(h) == <<Url(h, Origin)>> \o RewriteAll(h)

-----------------------------------------------------------------------------
(* parse_doh_json: the A (1) and AAAA (28) records of a good answer.       *)
ParseDohJson(b) ==
  IF b.json /\ b.status = 0 THEN b.types \cap {1, 28} ELSE {}

Cursor == [at |-> "proxy", host |-> 1, server |-> 1, rtype |-> "A", collected |-> {}]
NoUse  == [op |-> "none", todo |-> <<>>, tries |-> 0, sent |-> 0, asked |-> {},
           host |-> Nobody, measured |-> <<>>, answer |-> "none"]

ProtectedHosts == {Protected[i] : i \in DOMAIN Protected}

ClientInit ==
  /\ mode \in {"system", "static", "doh"}
  /\ building = Cursor /\ overrides = <<>>
  /\ told = [h \in ProtectedHosts |-> {}]
  /\ pinned = Nobody
  /\ use = [u \in User |-> NoUse] /\ uses \in 0 .. MaxUses

UsesAlone == UNCHANGED <<pinned, use, uses>>
Overriding(h, addrs) ==   \* overrides.insert
  [x \in DOMAIN overrides \cup {h} |-> IF x = h THEN addrs ELSE overrides[x]]

StaticHosts == {h \in ProtectedHosts \cap DOMAIN StaticMap : StaticMap[h] # {}}

Resolving == mode = "doh" /\ Protected # <<>> /\ DohServers # <<>>

(* to_reqwest: a proxy whose URL does not parse ends the build.            *)
BuildProxy ==
  /\ building.at = "proxy"
  /\ \/ building' = [building EXCEPT !.at = "failed"] /\ UNCHANGED overrides
     \/ /\ Resolving
        /\ building' = [building EXCEPT !.at = "query"] /\ UNCHANGED overrides
     \/ /\ ~Resolving
        /\ building' = [building EXCEPT !.at = "ready"]
        /\ overrides' = IF mode = "static" THEN [h \in StaticHosts |-> StaticMap[h]]
                                           ELSE overrides
  /\ UNCHANGED <<mode, told>> /\ UsesAlone

(* The host is done: the next one is resolved from the first upstream.     *)
NextHost(b) ==
  IF b.host = Len(Protected) THEN [b EXCEPT !.at = "ready"]
  ELSE [b EXCEPT !.host = @ + 1, !.server = 1, !.rtype = "A", !.collected = {}]

(* The upstream told no address: the next one is asked; when all were      *)
(* asked, the host is left to the system resolver.                         *)
NextServerNever(b) == NextHost(b)   \* mutant: only the first upstream is asked
NextServer(b) ==
  IF b.server = Len(DohServers) THEN NextHost(b)
  ELSE [b EXCEPT !.server = @ + 1, !.rtype = "A"]

(* resolve_host: the A and the AAAA query to one upstream; a query that    *)
(* fails gives no address, and does not fail the other one.                *)
Query(found) ==
  /\ building.at = "query"
  /\ LET b == building
         h == Protected[b.host]
         all == b.collected \cup {[server |-> b.server, type |-> t] : t \in found}
     IN /\ told' = [told EXCEPT ![h] =
                      @ \cup {[server |-> b.server, any |-> found # {}]}]
        /\ IF b.rtype = "A"
             THEN building' = [b EXCEPT !.rtype = "AAAA", !.collected = all]
                  /\ UNCHANGED overrides
             ELSE IF all = {}
             THEN building' = NextServer(b) /\ UNCHANGED overrides
             ELSE building' = NextHost(b) /\ overrides' = Overriding(h, all)
  /\ UNCHANGED mode /\ UsesAlone

QueryAnswers == \E b \in Body : Query(ParseDohJson(b))
QueryFails   == Query({})    \* no answer, an HTTP error, or the body breaks

-----------------------------------------------------------------------------
(* get *)
Begins(u, l) ==
  /\ building.at = "ready" /\ use[u].op = "none" /\ uses > 0
  /\ uses' = uses - 1 /\ use' = [use EXCEPT ![u] = l]
  /\ UNCHANGED <<mode, building, overrides, told, pinned>>

GetUrl(u, h) == Begins(u, [NoUse EXCEPT !.op = "get", !.host = h, !.todo = CandidateUrls(h)])

Becomes(u, l) ==
  use' = [use EXCEPT ![u] = l] /\ UNCHANGED <<mode, building, overrides, told, pinned, uses>>

Returns(u, l, a) == Becomes(u, [l EXCEPT !.op = "none", !.todo = <<>>, !.answer = a])

(* The candidates left after one is given up.  The list was made when the  *)
(* call began: a pin that moves does not change it.                        *)
RestByPin(l) ==   \* mutant: the list is made again, and read by position
  LET now == CandidateUrls(l.host)
  IN  SubSeq(now, Len(now) - Len(l.todo) + 2, Len(now))
Rest(l) == Tail(l.todo)

Sent(l) == [l EXCEPT !.sent = @ + 1, !.asked = @ \cup {Head(l.todo).via}]

GiveUpUrl(u, l) ==
  IF Rest(l) = <<>> THEN Returns(u, l, "refused")
                    ELSE Becomes(u, [l EXCEPT !.todo = Rest(l), !.tries = 0])

(* fetch_once: success, another status (the next candidate at once), or a  *)
(* transport error (the same one again, until the retries run out).        *)
TryCandidate(u) ==
  /\ use[u].op = "get"
  /\ LET l == Sent(use[u]) IN
     \/ Becomes(u, [l EXCEPT !.op = "again"])
     \/ GiveUpUrl(u, l)
     \/ IF l.tries < GetRetries THEN Becomes(u, [l EXCEPT !.tries = @ + 1])
                                ELSE GiveUpUrl(u, l)

(* The chosen URL is requested a second time, once: whatever status comes  *)
(* now is handed out; fetch_bytes and fetch_json read its body.            *)
GetAgain(u) ==
  /\ use[u].op = "again"
  /\ \E a \in {"response", "error_page", "broken"} : Returns(u, Sent(use[u]), a)

-----------------------------------------------------------------------------
(* auto_select_mirror: measure asks one mirror after another; speed_test   *)
(* pins the fastest that answered, the first among equals.                 *)
SpeedTest(u) ==
  Begins(u, [NoUse EXCEPT !.op = "measure",
                          !.todo = [i \in DOMAIN Mirrors |-> Url(Nobody, Mirrors[i].id)]])

Measured(u, m) ==
  LET l == Sent(use[u])
  IN  Becomes(u, [l EXCEPT !.todo = Tail(@), !.measured = Append(@, m)])

Probe(u) ==
  /\ use[u].op = "measure" /\ use[u].todo # <<>>
  /\ LET id == Head(use[u].todo).via IN
     \/ \E t \in Latency : Measured(u, [id |-> id, ok |-> TRUE, latency |-> t])
     \/ Measured(u, [id |-> id, ok |-> FALSE, latency |-> 0])

SelectBestOfAll(measured) ==   \* mutant: a mirror that fails at once is the fastest
  {measured[i].id : i \in {k \in DOMAIN measured :
      \A j \in DOMAIN measured :
        \/ measured[k].latency < measured[j].latency
        \/ measured[k].latency = measured[j].latency /\ k <= j}}

SelectBest(measured) ==
  LET ok == {k \in DOMAIN measured : measured[k].ok}
  IN  {measured[i].id : i \in {k \in ok :
      \A j \in ok : \/ measured[k].latency < measured[j].latency
                    \/ measured[k].latency = measured[j].latency /\ k <= j}}

PinBest(u) ==
  /\ use[u].op = "measure" /\ use[u].todo = <<>>
  /\ LET best == SelectBest(use[u].measured) IN
     pinned' = IF best = {} THEN pinned ELSE CHOOSE id \in best : TRUE
  /\ use' = [use EXCEPT ![u] = [@ EXCEPT !.op = "none", !.answer = "tested"]]
  /\ UNCHANGED <<mode, building, overrides, told, uses>>

UseStep(u) == TryCandidate(u) \/ GetAgain(u) \/ Probe(u) \/ PinBest(u)

ClientFinished ==
  /\ building.at = "failed" \/ (uses = 0 /\ \A u \in User : use[u].op = "none")
  /\ UNCHANGED clientVars

ClientNext ==
  \/ BuildProxy \/ QueryAnswers \/ QueryFails \/ ClientFinished
  \/ \E u \in User : UseStep(u) \/ SpeedTest(u) \/ \E h \in Host : GetUrl(u, h)

ClientSpec == ClientInit /\ [][ClientNext]_clientVars

-----------------------------------------------------------------------------
(* Properties *)

Serving(h) == {Origin} \cup {Mirrors[i].id : i \in {k \in DOMAIN Mirrors : CanMirror(Mirrors[k], h)}}

(* Nothing that might have helped is passed over, and nothing else asked.  *)
(* A get is refused only when the origin and every mirror of its host has  *)
(* been asked, each no more often than its retries allow, whatever a speed *)
(* test pins meanwhile.  A mirror is pinned only if it answered, and the   *)
(* old pin stays only if none did.  And when the client is built, each     *)
(* protected host has the addresses of one upstream that told one, or      *)
(* every upstream was asked and told none.                                 *)
AllAsked(l) ==
  /\ l.answer = "refused" => l.asked = Serving(l.host)
  /\ l.host # Nobody =>
       /\ l.asked \subseteq Serving(l.host)
       /\ l.sent <= Cardinality(Serving(l.host)) * (GetRetries + 1) + 1

ProtectedAsTold ==
  mode = "doh" /\ building.at = "ready" =>
    \A h \in ProtectedHosts :
      IF h \in DOMAIN overrides
        THEN \E t \in told[h] : t.any /\ \A a \in overrides[h] : a.server = t.server
        ELSE told[h] = [server : DOMAIN DohServers, any : {FALSE}]

NothingPassedOver ==
  [][/\ \A u \in User : AllAsked(use'[u])
     /\ ProtectedAsTold'
     /\ \A u \in User : PinBest(u) =>
          LET m == use[u].measured IN
          \/ \E i \in DOMAIN m : m[i].ok /\ m[i].id = pinned'
          \/ (\A i \in DOMAIN m : ~m[i].ok) /\ pinned' = pinned
    ]_clientVars
===============================================================================

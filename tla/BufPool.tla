--------------------------------- MODULE BufPool ---------------------------------
(***************************************************************************)
(* The pools of util/bufpool.rs.  BufPool keeps idle byte buffers in       *)
(* buckets, one for each power of two between two bounds; ObjectPool keeps *)
(* idle objects.  A worker leases one, uses it, and gives it back when the *)
(* lease is dropped, or keeps it for good.  Each bucket has its own lock.  *)
(*                                                                         *)
(* Of a buffer the model knows its capacity, its length, and how many of   *)
(* its first bytes an earlier lease wrote.                                 *)
(***************************************************************************)
EXTENDS Naturals, Sequences

CONSTANTS
  Worker,    \* threads that lease
  Cap,       \* the capacity of each bucket
  Request,   \* sizes asked for
  MaxIdle    \* buffers a bucket keeps, objects a pool keeps

ASSUME PoolAssumption ==
  /\ Cap \in Seq(Nat) /\ Len(Cap) > 0 /\ Cap[1] >= 16
  /\ \A i \in 1 .. Len(Cap) - 1 : Cap[i + 1] = 2 * Cap[i]
  /\ Request \subseteq Nat /\ MaxIdle \in Nat

VARIABLES
  bucket,    \* the idle buffers of each bucket, in the order they came back
  lease,     \* the buffer each worker holds: a sequence of at most one
  idle,      \* the idle objects: TRUE for one that was not reset
  object     \* the object each worker holds: a sequence of at most one

poolVars == <<bucket, lease, idle, object>>

-----------------------------------------------------------------------------
Bucket == 1 .. Len(Cap)
MinCap == Cap[1]
MaxCap == Cap[Len(Cap)]

Buffer == [cap : Nat, len : Nat, old : Nat]
Fresh(c) == [cap |-> c, len |-> 0, old |-> 0]         \* Vec::with_capacity

(* bucket_index_for_cap: a capacity belongs to the next power of two.      *)
BucketOfFloor(c) ==   \* mutant: to the power of two below
  {i \in Bucket : Cap[i] <= c /\ \A j \in Bucket : Cap[j] <= c => j <= i}
BucketOf(c) ==
  {i \in Bucket : MinCap <= c /\ c <= Cap[i] /\ \A j \in Bucket : c <= Cap[j] => i <= j}

(* The bucket of a request: small ones share the first.                    *)
BucketFor(n) == {i \in Bucket : n <= Cap[i] /\ \A j \in Bucket : n <= Cap[j] => i <= j}

PoolInit ==
  /\ bucket = [i \in Bucket |-> <<>>] /\ lease = [w \in Worker |-> <<>>]
  /\ idle = <<>> /\ object = [w \in Worker |-> <<>>]

Leases(w, b) == lease' = [lease EXCEPT ![w] = <<b>>]

ClearedNot(b) == b                    \* mutant: what is in it stays
Cleared(b) == [b EXCEPT !.len = 0]    \* the bytes are there, and not visible

(* acquire: the oldest idle buffer of the bucket, whatever its capacity,   *)
(* or a new one; what no bucket holds is allocated as asked for.           *)
Acquire(w, n) ==
  /\ lease[w] = <<>>
  /\ \/ \E i \in BucketFor(n) :
          IF bucket[i] = <<>>
            THEN Leases(w, Fresh(Cap[i])) /\ UNCHANGED bucket
            ELSE /\ Leases(w, Cleared(Head(bucket[i])))
                 /\ bucket' = [bucket EXCEPT ![i] = Tail(@)]
     \/ BucketFor(n) = {} /\ Leases(w, Fresh(n)) /\ UNCHANGED bucket
  /\ UNCHANGED <<idle, object>>

(* fit: exactly the capacity that is missing; the bytes up to len stay,    *)
(* the others are zero.                                                    *)
Fit(w, n) ==
  /\ lease[w] # <<>>
  /\ LET b == lease[w][1] IN
     Leases(w, IF b.cap < n THEN [cap |-> n, len |-> n, old |-> 0]
               ELSE [b EXCEPT !.len = n, !.old = IF b.len < @ THEN b.len ELSE @])
  /\ UNCHANGED <<bucket, idle, object>>

(* as_mut: the vector grows by its own rule, and its bytes move with it.   *)
Grow(w, n) ==
  /\ lease[w] # <<>> /\ lease[w][1].cap < n
  /\ LET b == lease[w][1]
         c == IF n < 2 * b.cap THEN 2 * b.cap ELSE n
     IN  Leases(w, [cap |-> c, len |-> n, old |-> IF b.len < b.old THEN b.len ELSE b.old])
  /\ UNCHANGED <<bucket, idle, object>>

IntoInner(w) ==
  /\ lease[w] # <<>> /\ lease' = [lease EXCEPT ![w] = <<>>]
  /\ UNCHANGED <<bucket, idle, object>>

(* put_back, when the lease is dropped: all that was written is of an      *)
(* earlier lease from now on.                                              *)
Kept(b) == {i \in BucketOf(b.cap) : Len(bucket[i]) < MaxIdle}

PutBack(w) ==
  /\ lease[w] # <<>> /\ lease' = [lease EXCEPT ![w] = <<>>]
  /\ LET b == lease[w][1] IN
     bucket' = [i \in Bucket |-> IF i \in Kept(b)
                                   THEN Append(bucket[i], [b EXCEPT !.old = b.len])
                                   ELSE bucket[i]]
  /\ UNCHANGED <<idle, object>>

-----------------------------------------------------------------------------
(* ObjectPool: an object is reset before it is idle.                       *)

AcquireObject(w) ==
  /\ object[w] = <<>>
  /\ IF idle = <<>>
       THEN object' = [object EXCEPT ![w] = <<FALSE>>] /\ UNCHANGED idle
       ELSE object' = [object EXCEPT ![w] = <<Head(idle)>>] /\ idle' = Tail(idle)
  /\ UNCHANGED <<bucket, lease>>

PutBackUsed(w) ==   \* mutant: reset is for the next lease to do
  /\ object[w] # <<>> /\ object' = [object EXCEPT ![w] = <<>>]
  /\ idle' = IF Len(idle) < MaxIdle THEN Append(idle, TRUE) ELSE idle
  /\ UNCHANGED <<bucket, lease>>

PutBackObject(w) ==
  /\ object[w] # <<>> /\ object' = [object EXCEPT ![w] = <<>>]
  /\ idle' = IF Len(idle) < MaxIdle THEN Append(idle, FALSE) ELSE idle
  /\ UNCHANGED <<bucket, lease>>

KeepObject(w) ==
  /\ object[w] # <<>> /\ object' = [object EXCEPT ![w] = <<>>]
  /\ UNCHANGED <<bucket, lease, idle>>

PoolStep(w) ==
  \/ \E n \in Request : Acquire(w, n) \/ Fit(w, n) \/ Grow(w, n)
  \/ IntoInner(w) \/ PutBack(w)
  \/ AcquireObject(w) \/ PutBackObject(w) \/ KeepObject(w)

PoolNext == \E w \in Worker : PoolStep(w)
PoolSpec == PoolInit /\ [][PoolNext]_poolVars

-----------------------------------------------------------------------------
(* Properties *)

(* An idle buffer lies in the bucket of its capacity: it holds more than   *)
(* half of what is asked of that bucket, and no more than the bucket says, *)
(* so that no small request pins a large buffer; and no more are kept than *)
(* the pool allows.                                                        *)
BucketsHold ==
  \A i \in Bucket :
    /\ Len(bucket[i]) <= MaxIdle
    /\ \A k \in DOMAIN bucket[i] :
         bucket[i][k].cap <= Cap[i] /\ Cap[i] < 2 * bucket[i][k].cap

(* No lease shows a byte that an earlier lease wrote, and no object is     *)
(* leased as its last user left it.                                        *)
LeaseIsClean ==
  \A w \in Worker :
    /\ \A k \in DOMAIN lease[w] : lease[w][k].old = 0 \/ lease[w][k].len = 0
    /\ \A k \in DOMAIN object[w] : ~object[w][k]

PoolIsSound == BucketsHold /\ LeaseIsClean
===============================================================================

-------------------------------- MODULE Pool --------------------------------
(***************************************************************************)
(* The chunks that the threads of the server borrow from one block of      *)
(* memory (lonewolf-util/src/pool).  The block is cut into buckets of      *)
(* equal size, a bucket into chunks of its own size, and a chunk is known  *)
(* to its borrower only by its address: where it belongs is computed from  *)
(* the address when it comes back.  The chunks of a bucket lie in several  *)
(* queues, of which a thread prefers one, and any thread may give a chunk  *)
(* back.                                                                   *)
(***************************************************************************)
EXTENDS Naturals, Sequences, FiniteSets

CONSTANTS
  Sizes,     \* BUCKET_SIZES, in units of memory
  Total,     \* total_bytes
  Requested, \* shards_per_bucket, below the number of processors
  Threads,   \* SHARD_HINTs of the threads
  MaxHeap    \* a bound on the chunks that are borrowed from the heap

PoolAssumption ==
  /\ Sizes \in Seq(Nat \ {0}) /\ Sizes # <<>> /\ Total \in Nat
  /\ Total % Len(Sizes) = 0
  /\ \A b \in 1 .. Len(Sizes) :
       Total \div Len(Sizes) >= Sizes[b] /\ (Total \div Len(Sizes)) % Sizes[b] = 0
  /\ Requested \in Nat \ {0} /\ Threads \subseteq Nat

VARIABLES
  available,  \* of each bucket, the queues of its shards
  lent,       \* the addresses of the chunks that are borrowed
  heap,       \* how many more were borrowed from the heap
  search      \* what each thread looks for, and where it has got to

vars == <<available, lent, heap, search>>

Buckets == 1 .. Len(Sizes)
BucketBytes == Total \div Len(Sizes)
Chunks(b) == BucketBytes \div Sizes[b]

\* Bucket::new.  Shards and slots are numbered from 0.
ShardCount(b) == IF Chunks(b) < Requested THEN Chunks(b) ELSE Requested
Shards(b) == 0 .. ShardCount(b) - 1

Room(b, s) ==
  Chunks(b) \div ShardCount(b) + IF s < Chunks(b) % ShardCount(b) THEN 1 ELSE 0

\* (index..chunk_count).step_by(shard_count)
FirstSlots(b, s) ==
  [k \in 1 .. (Chunks(b) - s + ShardCount(b) - 1) \div ShardCount(b) |->
     s + (k - 1) * ShardCount(b)]

Idle == [size |-> 0, bucket |-> 0, tried |-> 0]

Init ==
  /\ available = [b \in Buckets |-> [s \in Shards(b) |-> FirstSlots(b, s)]]
  /\ lent = {} /\ heap = 0
  /\ search = [t \in Threads |-> Idle]

-----------------------------------------------------------------------------

\* The first bucket from b on whose chunks are large enough; there may be none.
Fitting(b, size) == {c \in Buckets : c >= b /\ Sizes[c] >= size}

StartAt(b, size) ==
  IF Fitting(b, size) = {} THEN Len(Sizes) + 1
  ELSE CHOOSE c \in Fitting(b, size) : \A d \in Fitting(b, size) : c <= d

Allocate(t, size) ==
  /\ search[t] = Idle
  /\ search' = [search EXCEPT ![t] =
                  [size |-> size, bucket |-> StartAt(1, size), tried |-> 0]]
  /\ UNCHANGED <<available, lent, heap>>

Address(b, slot) == (b - 1) * BucketBytes + slot * Sizes[b]

\* Bucket::pop tries the preferred shard and then the others in turn, each
\* with one atomic operation, and the next larger bucket after the last.
Pop(t) ==
  LET b == search[t].bucket
      s == (t + search[t].tried) % ShardCount(b)
      q == available[b][s]
  IN  /\ b \in Buckets
      /\ IF q # <<>>
           THEN /\ available' = [available EXCEPT ![b][s] = Tail(q)]
                /\ lent' = lent \cup {Address(b, Head(q))}
                /\ search' = [search EXCEPT ![t] = Idle]
           ELSE /\ search' =
                     [search EXCEPT ![t] =
                        IF search[t].tried + 1 < ShardCount(b)
                          THEN [@ EXCEPT !.tried = @ + 1]
                          ELSE [@ EXCEPT !.bucket = StartAt(b + 1, search[t].size),
                                         !.tried = 0]]
                /\ UNCHANGED <<available, lent>>
      /\ UNCHANGED heap

\* No bucket had a chunk: GlobalChunkAllocator, which may fail.
FallBack(t, ok) ==
  /\ search[t].bucket > Len(Sizes)
  /\ ok => heap < MaxHeap
  /\ heap' = IF ok THEN heap + 1 ELSE heap
  /\ search' = [search EXCEPT ![t] = Idle]
  /\ UNCHANGED <<available, lent>>

\* Mutant: a chunk goes to the queue its last user prefers.
Home_OfThread(t, b, slot) == t % ShardCount(b)

\* The queue a chunk came from.
Home(t, b, slot) == slot % ShardCount(b)

\* The bucket and the slot are recovered from the address.
Deallocate(t, address) ==
  LET b == address \div BucketBytes + 1
      slot == (address % BucketBytes) \div Sizes[b]
  IN  /\ search[t] = Idle
      /\ address \in lent
      /\ lent' = lent \ {address}
      /\ available' = [available EXCEPT ![b][Home(t, b, slot)] = Append(@, slot)]
      /\ UNCHANGED <<heap, search>>

DeallocateHeap(t) ==
  /\ search[t] = Idle /\ heap > 0
  /\ heap' = heap - 1
  /\ UNCHANGED <<available, lent, search>>

Next ==
  \E t \in Threads :
    \/ \E size \in 1 .. Sizes[Len(Sizes)] + 1 : Allocate(t, size)
    \/ Pop(t)
    \/ \E ok \in BOOLEAN : FallBack(t, ok)
    \/ \E address \in lent : Deallocate(t, address)
    \/ DeallocateHeap(t)

Spec == Init /\ [][Next]_vars

-----------------------------------------------------------------------------
\* The memory a chunk at an address covers.
Range(b, slot) == Address(b, slot) .. Address(b, slot) + Sizes[b] - 1

(* Every chunk is either lent or in one queue, the one with room for it,   *)
(* so that the assertion of Bucket::push holds; and no two chunks overlap  *)
(* or leave the block (allocate, deallocate, Bucket::new).                 *)
ChunksExact ==
  /\ \A b \in Buckets :
       /\ \A s \in Shards(b) : Len(available[b][s]) <= Room(b, s)
       /\ \A slot \in 0 .. Chunks(b) - 1 :
            Cardinality({<<s, k>> \in Shards(b) \X (1 .. Chunks(b)) :
                           k <= Len(available[b][s]) /\ available[b][s][k] = slot})
            + (IF Address(b, slot) \in lent THEN 1 ELSE 0) = 1
  /\ \A b, c \in Buckets : \A x \in 0 .. Chunks(b) - 1, y \in 0 .. Chunks(c) - 1 :
       /\ Range(b, x) \subseteq 0 .. Total - 1
       /\ <<b, x>> # <<c, y>> => Range(b, x) \cap Range(c, y) = {}
=============================================================================

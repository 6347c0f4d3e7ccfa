----------------------------- MODULE CacheForge -----------------------------
(***************************************************************************)
(* The key-value cache of the CacheForge study: CacheSimulator over a      *)
(* CacheState, whose eviction policy only proposes and whose allocation    *)
(* authority decides.  A step is one _access with the sliding window moved *)
(* behind it.  Metrics are left out.                                       *)
(*                                                                         *)
(* A cache key carries what its text says: kind, shared, name and index.   *)
(***************************************************************************)
EXTENDS Integers, Sequences, FiniteSets

CONSTANTS
  Groups,            \* sequence of GroupSpec: [name, mode, window_blocks]
  capacity_blocks,
  Requests,          \* RequestTraces: [request_id, prompt_blocks, generated_blocks,
                     \*                 cancel_after_generated (-1: None)]
  Keys,              \* the keys of prompt_blocks
  RequestIds,
  Policies,          \* policy identities; "arbitrary" proposes anything
  MaxRequests        \* bound: requests in a behaviour

None == -1

ASSUME GroupAssumption ==
  /\ Groups \in Seq([name : STRING, mode : {"full", "sliding"}, window_blocks : Nat])
  /\ Len(Groups) > 0
  /\ \A g, h \in 1..Len(Groups) : Groups[g].name = Groups[h].name => g = h
  /\ \A g \in 1..Len(Groups) : Groups[g].mode = "sliding" => Groups[g].window_blocks > 0

ASSUME CapacityAssumption == capacity_blocks \in Nat \ {0} /\ MaxRequests \in Nat

ASSUME RequestAssumption ==
  /\ \A r \in Requests :
       /\ r.request_id \in RequestIds
       /\ r.prompt_blocks \in Seq(Keys) /\ Len(r.prompt_blocks) > 0
       /\ r.generated_blocks \in Nat
       /\ r.cancel_after_generated \in {None} \cup 0..r.generated_blocks
  /\ \A k \in Keys : k.kind = "prompt" /\ k.shared \in BOOLEAN

VARIABLES
  policy,            \* policy_id of the simulator
  blocks,            \* CacheState.blocks: block_id -> CacheBlock
  key_index,         \* CacheState.key_index: <<group, key>> -> block_id
  clock, next_block_id,
  request,           \* the request being processed, or Idle
  accesses,          \* how many of its accesses are done
  owned, windows,    \* locals of process; windows per group
  raised,            \* "no", or the RuntimeError that ended process
  served,            \* requests begun
  saved              \* <<>> or a checkpoint

cache == <<blocks, key_index, clock, next_block_id>>
locals == <<request, accesses, owned, windows>>
vars == <<policy, cache, locals, raised, served, saved>>

Idle == [request_id |-> "none", prompt_blocks |-> <<>>, generated_blocks |-> 0,
         cancel_after_generated |-> None]
NoWindows == [g \in 1..Len(Groups) |-> <<>>]

Init ==
  /\ policy \in Policies
  /\ blocks = <<>> /\ key_index = <<>> /\ clock = 0 /\ next_block_id = 0
  /\ request = Idle /\ accesses = 0 /\ owned = {} /\ windows = NoWindows
  /\ raised = "no" /\ served = 0 /\ saved = <<>>

-----------------------------------------------------------------------------
(* What process accesses: every prompt block, then the generated blocks up *)
(* to the cancellation, each in every group.                               *)
generated_key(r, i) == [kind |-> "generated", shared |-> FALSE, name |-> r.request_id, index |-> i]

Generated(r) ==
  IF r.cancel_after_generated = None THEN r.generated_blocks ELSE r.cancel_after_generated

Steps(r) == Len(r.prompt_blocks) + Generated(r)

Key(r, n) ==
  IF n <= Len(r.prompt_blocks) THEN r.prompt_blocks[n]
  ELSE generated_key(r, n - Len(r.prompt_blocks) - 1)

\* the group and the key of the next access
Group == (accesses % Len(Groups)) + 1
NextKey == Key(request, (accesses \div Len(Groups)) + 1)
Identity == <<Groups[Group].name, NextKey>>
More == accesses < Steps(request) * Len(Groups)

-----------------------------------------------------------------------------
(* The policies rank the blocks without owners; they are asked for one     *)
(* victim.  Ranks are compared from the left, the block id decides last.   *)
_evictable == {i \in DOMAIN blocks : blocks[i].owners = {}}

Less(a, b) ==
  \/ a[1] < b[1]
  \/ a[1] = b[1] /\ a[2] < b[2]
  \/ a[1] = b[1] /\ a[2] = b[2] /\ a[3] < b[3]

(* The generated table of 64 ranks, by the generator's sum of weights over *)
(* the features of the mask.                                               *)
RECENT_AGE_THRESHOLD == 3
EVICTION_RANK(b, now) ==
  100 - (IF b.key.kind = "prompt" THEN 30 ELSE 0)
      - (IF b.key.shared THEN 90 ELSE 0)
      - (IF b.reuse_count >= 2 THEN 50 ELSE 0)
      + (IF b.group = "sliding" THEN 20 ELSE 0)
      - (IF now - b.last_used <= RECENT_AGE_THRESHOLD THEN 10 ELSE 0)
      + (IF b.key.kind = "generated" THEN 70 ELSE 0)

Rank(p, i, now) ==
  LET b == blocks[i]
  IN CASE p = "fifo" -> <<0, b.created_at, i>>
       [] p = "lru" -> <<0, b.last_used, i>>
       [] p = "segmented" -> <<IF b.key.kind = "generated" THEN 0 ELSE 1, b.last_used, i>>
       [] p = "generated" -> <<-EVICTION_RANK(b, now), b.last_used, i>>

Ranked(p, now) ==
  IF _evictable = {} THEN <<>>
  ELSE <<CHOOSE i \in _evictable :
           \A j \in _evictable \ {i} : Less(Rank(p, i, now), Rank(p, j, now))>>

Unknown == next_block_id + 1000

(* What a policy may propose.  The mutation policies repeat one victim,    *)
(* here any (the code's is the first), or name a block that does not exist.*)
Proposals(p, now) ==
  CASE p = "arbitrary" ->
         {<<>>} \cup {<<i>> : i \in DOMAIN blocks} \cup {<<i, i>> : i \in DOMAIN blocks}
                \cup {<<Unknown>>}
    [] p = "duplicate" -> {<<>>} \cup {<<i, i>> : i \in _evictable}
    [] p = "unknown" -> {<<Unknown>>}
    [] OTHER -> {Ranked(p, now)}

\* Defect: a victim in use is accepted.
_valid_in_use(proposal) ==
  Len(proposal) >= 1 /\ proposal[1] \in DOMAIN blocks

(* AllocationAuthority._valid for one required victim.                     *)
_valid(proposal) ==
  /\ Len(proposal) >= 1
  /\ \A m, n \in 1..Len(proposal) : proposal[m] = proposal[n] => m = n
  /\ proposal[1] \in DOMAIN blocks
  /\ blocks[proposal[1]].owners = {}

\* Defect: an invalid proposal is not replaced.
authorize_eviction_alone(proposal, now) ==
  IF _valid(proposal) THEN <<proposal[1]>> ELSE <<>>

(* AllocationAuthority.authorize_eviction: the proposal if it is valid,    *)
(* else the victim of the LRU policy if that is; <<>> stands for its       *)
(* RuntimeError.                                                           *)
authorize_eviction(proposal, now) ==
  IF _valid(proposal) THEN <<proposal[1]>>
  ELSE IF _valid(Ranked("lru", now)) THEN Ranked("lru", now) ELSE <<>>

-----------------------------------------------------------------------------
\* owners.discard(request_id) for the blocks of S that exist.
discard(bs, S) ==
  [i \in DOMAIN bs |->
     IF i \in S THEN [bs[i] EXCEPT !.owners = @ \ {request.request_id}] ELSE bs[i]]

\* Defect: an expired block keeps its owner.
_advance_sliding_kept(bs, id) ==
  LET w == Append(windows[Group], id)
  IN IF Groups[Group].mode = "sliding" /\ Len(w) > Groups[Group].window_blocks
     THEN [blocks |-> bs, owned |-> (owned \cup {id}) \ {Head(w)},
           windows |-> [windows EXCEPT ![Group] = Tail(w)]]
     ELSE [blocks |-> bs, owned |-> owned \cup {id},
           windows |-> [windows EXCEPT
                          ![Group] = IF Groups[Group].mode = "sliding" THEN w ELSE @]]

(* _advance_sliding after block id was accessed in blocks bs: the request  *)
(* gives up the block that leaves the window.                              *)
_advance_sliding(bs, id) ==
  LET w == Append(windows[Group], id)
      e == Head(w)
  IN IF Groups[Group].mode = "sliding" /\ Len(w) > Groups[Group].window_blocks
     THEN [blocks |-> discard(bs, {e}),
           owned |-> (owned \cup {id}) \ {e},
           windows |-> [windows EXCEPT ![Group] = Tail(w)]]
     ELSE [blocks |-> bs, owned |-> owned \cup {id},
           windows |-> [windows EXCEPT
                          ![Group] = IF Groups[Group].mode = "sliding" THEN w ELSE @]]

\* The rest of an access that ended with block id in blocks bs.
Accessed(bs, id) ==
  LET a == _advance_sliding(bs, id)
  IN /\ blocks' = a.blocks /\ owned' = a.owned /\ windows' = a.windows
     /\ clock' = clock + 1
     /\ accesses' = accesses + 1

\* Defect: the index entry of the victim stays.
WithoutVictim_indexed(S) ==
  [blocks |-> [i \in DOMAIN blocks \ S |-> blocks[i]], key_index |-> key_index]

(* _evict of the victims in S: block and index entry.                      *)
WithoutVictim(S) ==
  [blocks |-> [i \in DOMAIN blocks \ S |-> blocks[i]],
   key_index |-> [k \in DOMAIN key_index \ {<<blocks[i].group, blocks[i].key>> : i \in S} |->
                    key_index[k]]]

NewBlock ==
  [group |-> Groups[Group].name, key |-> NextKey, created_at |-> clock + 1,
   last_used |-> clock + 1, reuse_count |-> 0, owners |-> {request.request_id}]

Reused(b) ==
  [b EXCEPT !.last_used = clock + 1, !.reuse_count = b.reuse_count + 1,
            !.owners = b.owners \cup {request.request_id}]

(* A block for the missing key, after the eviction of S.                   *)
Insert(S) ==
  LET v == WithoutVictim(S)
  IN /\ key_index' = [k \in DOMAIN v.key_index \cup {Identity} |->
                        IF k = Identity THEN next_block_id ELSE v.key_index[k]]
     /\ next_block_id' = next_block_id + 1
     /\ Accessed([i \in DOMAIN v.blocks \cup {next_block_id} |->
                    IF i = next_block_id THEN NewBlock ELSE v.blocks[i]],
                 next_block_id)
     /\ raised' = raised

Running == request # Idle /\ raised = "no"

(* process: the start of a request.                                        *)
process(r) ==
  /\ request = Idle /\ raised = "no" /\ served < MaxRequests
  /\ request' = r /\ accesses' = 0 /\ owned' = {} /\ windows' = NoWindows
  /\ served' = served + 1
  /\ UNCHANGED <<policy, cache, raised, saved>>

(* _access of a resident key.                                              *)
hit ==
  /\ Running /\ More /\ Identity \in DOMAIN key_index
  /\ LET id == key_index[Identity]
     IN Accessed([blocks EXCEPT ![id] = Reused(blocks[id])], id)
  /\ UNCHANGED <<policy, key_index, next_block_id, request, raised, served, saved>>

(* _access of a missing key while there is room.                           *)
miss ==
  /\ Running /\ More /\ Identity \notin DOMAIN key_index
  /\ Cardinality(DOMAIN blocks) < capacity_blocks
  /\ Insert({})
  /\ UNCHANGED <<policy, request, served, saved>>

(* _access of a missing key in a full cache.  The clock has ticked before  *)
(* a RuntimeError of the authority or of _evict; process does not return.  *)
evict ==
  /\ Running /\ More /\ Identity \notin DOMAIN key_index
  /\ Cardinality(DOMAIN blocks) >= capacity_blocks
  /\ \E proposal \in Proposals(policy, clock + 1) :
       LET victims == authorize_eviction(proposal, clock + 1)
           unused == \A n \in 1..Len(victims) : blocks[victims[n]].owners = {}
       IN \/ /\ victims # <<>> /\ unused
             /\ Insert({victims[1]})
          \/ /\ ~(victims # <<>> /\ unused)
             /\ raised' = (IF victims = <<>> THEN "exhausted" ELSE "live")
             /\ clock' = clock + 1
             /\ UNCHANGED <<blocks, key_index, next_block_id, accesses, owned, windows>>
  /\ UNCHANGED <<policy, request, served, saved>>

(* The end of process, completed or cancelled: everything owned is         *)
(* released.                                                               *)
release ==
  /\ Running /\ ~More
  /\ blocks' = discard(blocks, owned)
  /\ request' = Idle /\ accesses' = 0 /\ owned' = {} /\ windows' = NoWindows
  /\ UNCHANGED <<policy, key_index, clock, next_block_id, raised, served, saved>>

-----------------------------------------------------------------------------
(* checkpoint, between requests; snapshot leaves out the index.            *)
checkpoint ==
  /\ request = Idle
  /\ saved' = <<[policy_id |-> policy, blocks |-> blocks, clock |-> clock,
                 next_block_id |-> next_block_id]>>
  /\ UNCHANGED <<policy, cache, locals, raised, served>>

\* CacheState.restore rebuilds the index from the blocks.
Reindexed(bs) ==
  [k \in {<<bs[i].group, bs[i].key>> : i \in DOMAIN bs} |->
     CHOOSE i \in DOMAIN bs : k = <<bs[i].group, bs[i].key>>]

(* A new simulator, where the caller drops the old one or it raised.       *)
simulator(p) ==
  /\ request = Idle \/ raised # "no"
  /\ policy' = p
  /\ blocks' = <<>> /\ key_index' = <<>> /\ clock' = 0 /\ next_block_id' = 0
  /\ request' = Idle /\ accesses' = 0 /\ owned' = {} /\ windows' = NoWindows
  /\ raised' = "no"
  /\ UNCHANGED <<served, saved>>

(* restore_state, for a checkpoint of the simulator's own policy.          *)
restore_state ==
  /\ request = Idle /\ saved # <<>> /\ saved[1].policy_id = policy
  /\ blocks' = saved[1].blocks /\ key_index' = Reindexed(saved[1].blocks)
  /\ clock' = saved[1].clock /\ next_block_id' = saved[1].next_block_id
  /\ UNCHANGED <<policy, locals, raised, served, saved>>

Next ==
  \/ \E r \in Requests : process(r)
  \/ hit \/ miss \/ evict \/ release \/ checkpoint
  \/ \E p \in Policies : simulator(p)
  \/ restore_state

Spec == Init /\ [][Next]_vars

-----------------------------------------------------------------------------
(* What CacheState.validate demands, at every step and not only at the end *)
(* of a request: the capacity is kept, the index and the blocks are each   *)
(* other's inverse, and times are in order; ids are never used again.      *)
CacheValid ==
  /\ Cardinality(DOMAIN blocks) <= capacity_blocks
  /\ \A i \in DOMAIN blocks :
       /\ i < next_block_id
       /\ <<blocks[i].group, blocks[i].key>> \in DOMAIN key_index
       /\ key_index[<<blocks[i].group, blocks[i].key>>] = i
       /\ blocks[i].created_at <= blocks[i].last_used /\ blocks[i].last_used <= clock
  /\ \A k \in DOMAIN key_index :
       /\ key_index[k] \in DOMAIN blocks
       /\ k = <<blocks[key_index[k]].group, blocks[key_index[k]].key>>

(* The blocks with an owner are exactly those process will release, and    *)
(* only the running request owns any: completion, cancellation and the     *)
(* sliding windows leave no owner behind.                                  *)
OwnersAreRunning ==
  /\ owned = {i \in DOMAIN blocks : blocks[i].owners # {}}
  /\ \A i \in DOMAIN blocks : blocks[i].owners \subseteq {request.request_id}
  /\ request = Idle => owned = {}

(* Whatever the policy proposes, a block in use is neither evicted nor     *)
(* handed to _evict, which would raise.                                    *)
LiveBlocksStay ==
  [][Running => /\ raised' # "live"
                /\ \A i \in DOMAIN blocks :
                     blocks[i].owners # {} => i \in DOMAIN blocks']_vars

(* What a request needs at once: each of its keys in every full group, and *)
(* a window in every sliding one.                                          *)
Need(r) ==
  LET keys == Cardinality({Key(r, n) : n \in 1..Steps(r)})
      need[g \in 0..Len(Groups)] ==
        IF g = 0 THEN 0
        ELSE need[g - 1] + (IF Groups[g].mode = "full" THEN keys ELSE Groups[g].window_blocks)
  IN need[Len(Groups)]

(* A request dies for want of a victim only if its own blocks fill the     *)
(* cache: no policy, however bad, makes a smaller request fail.            *)
RaisesOnlyWhenTooBig == raised # "no" => Need(request) >= capacity_blocks
=============================================================================

-------------------------- MODULE CacheForgeProofs --------------------------
(***************************************************************************)
(* Proofs about CacheForge, for every set of groups, capacity, requests    *)
(* and policies, proposals of arbitrary policies included.                 *)
(***************************************************************************)
EXTENDS CacheForge, FiniteSetTheorems, WellFoundedInduction, TLAPS

AllKeys ==
  Keys \cup [kind : {"generated"}, shared : {FALSE}, name : RequestIds, index : Nat]

Block == [group : STRING, key : AllKeys, created_at : Nat, last_used : Nat,
          reuse_count : Nat, owners : SUBSET RequestIds]

Ident(b) == <<b.group, b.key>>

(* A well-formed table of blocks at time ck, with ids below nx.            *)
Table(bs, ck, nx) ==
  /\ bs \in [DOMAIN bs -> Block]
  /\ DOMAIN bs \subseteq Nat
  /\ IsFiniteSet(DOMAIN bs)
  /\ ck \in Nat /\ nx \in Nat
  /\ \A i \in DOMAIN bs :
       i < nx /\ bs[i].created_at <= bs[i].last_used /\ bs[i].last_used <= ck

(* The index ix is the inverse of the blocks' identities.                  *)
Indexed(bs, ix) ==
  /\ \A i \in DOMAIN bs : Ident(bs[i]) \in DOMAIN ix /\ ix[Ident(bs[i])] = i
  /\ \A k \in DOMAIN ix : ix[k] \in DOMAIN bs /\ k = Ident(bs[ix[k]])

Fits(bs) == Cardinality(DOMAIN bs) <= capacity_blocks

(* Only rid owns blocks, and it owns exactly those in ow.                  *)
Owns(bs, ow, rid) ==
  /\ ow = {i \in DOMAIN bs : bs[i].owners # {}}
  /\ \A i \in DOMAIN bs : bs[i].owners \subseteq {rid}

LocalsOK ==
  /\ request \in Requests \cup {Idle}
  /\ accesses \in Nat
  /\ windows \in [1..Len(Groups) -> Seq(Nat)]
  /\ request = Idle => owned = {}

(* What a checkpoint holds can be restored: its index can be rebuilt, and  *)
(* nobody owns its blocks.                                                 *)
SavedOK ==
  saved = <<>> \/ /\ Table(saved[1].blocks, saved[1].clock, saved[1].next_block_id)
                  /\ Fits(saved[1].blocks)
                  /\ Indexed(saved[1].blocks, Reindexed(saved[1].blocks))
                  /\ \A i \in DOMAIN saved[1].blocks : saved[1].blocks[i].owners = {}

IInv ==
  /\ Table(blocks, clock, next_block_id)
  /\ Indexed(blocks, key_index)
  /\ Fits(blocks)
  /\ Owns(blocks, owned, request.request_id)
  /\ LocalsOK
  /\ SavedOK

-----------------------------------------------------------------------------
LEMMA RequestsAreNotIdle == ASSUME NEW r \in Requests PROVE r # Idle
  BY RequestAssumption DEF Idle

(* The next access is of one of the groups and of a key of the request.    *)
LEMMA NextAccess ==
  ASSUME IInv, Running, More
  PROVE  /\ Group \in 1..Len(Groups)
         /\ Groups[Group].name \in STRING
         /\ Groups[Group].window_blocks \in Nat
         /\ NextKey \in AllKeys
         /\ request.request_id \in RequestIds
<1>1. request \in Requests
  BY DEF IInv, LocalsOK, Running
<1>2. /\ Len(Groups) \in Nat \ {0}
      /\ Groups \in Seq([name : STRING, mode : {"full", "sliding"}, window_blocks : Nat])
  BY GroupAssumption
<1>3. Group \in 1..Len(Groups)
  <2> DEFINE L == Len(Groups)
  <2>1. accesses \in Nat /\ L \in Nat \ {0}
    BY <1>2 DEF IInv, LocalsOK
  <2> HIDE DEF L
  <2>2. (accesses % L) + 1 \in 1..L
    BY <2>1
  <2> QED
    BY <2>2 DEF Group, L
<1>4. Groups[Group].name \in STRING /\ Groups[Group].window_blocks \in Nat
  <2> DEFINE T == [name : STRING, mode : {"full", "sliding"}, window_blocks : Nat]
  <2>1. Groups \in Seq(T)
    BY <1>2
  <2> HIDE DEF T
  <2>2. Groups[Group] \in T
    BY <1>3, <2>1
  <2> QED
    BY <2>2 DEF T
<1>5. request.request_id \in RequestIds
  BY <1>1, RequestAssumption
<1>6. NextKey \in AllKeys
  <2> DEFINE n == (accesses \div Len(Groups)) + 1
             p == request.prompt_blocks
  <2>1. accesses \div Len(Groups) \in Nat
    <3> DEFINE L == Len(Groups)
    <3>1. accesses \in Nat /\ L \in Nat \ {0}
      BY <1>2 DEF IInv, LocalsOK
    <3> HIDE DEF L
    <3>2. accesses \div L \in Nat
      BY <3>1
    <3> QED
      BY <3>2 DEF L
  <2>2. n \in Nat \ {0}
    BY <2>1
  <2>3. p \in Seq(Keys) /\ Len(p) \in Nat
    BY <1>1, RequestAssumption
  <2> HIDE DEF n, p
  <2>4. CASE n <= Len(p)
    <3>1. p[n] \in Keys
      BY <2>2, <2>3, <2>4
    <3> QED
      BY <3>1, <2>4 DEF NextKey, Key, AllKeys, n, p
  <2>5. CASE ~(n <= Len(p))
    <3>1. n - Len(p) - 1 \in Nat
      BY <2>2, <2>3, <2>5
    <3>2. generated_key(request, n - Len(p) - 1) \in AllKeys
      BY <3>1, <1>5 DEF generated_key, AllKeys
    <3> QED
      BY <3>2, <2>5 DEF NextKey, Key, n, p
  <2> QED
    BY <2>4, <2>5
<1> QED
  BY <1>3, <1>4, <1>5, <1>6

-----------------------------------------------------------------------------
(* A request gives up the blocks of S: nothing else changes.               *)
LEMMA Disown ==
  ASSUME NEW bs, NEW ix, NEW ck, NEW nx, NEW ow, NEW S,
         Table(bs, ck, nx), Indexed(bs, ix), Fits(bs), Owns(bs, ow, request.request_id)
  PROVE  /\ Table(discard(bs, S), ck, nx) /\ Indexed(discard(bs, S), ix)
         /\ Fits(discard(bs, S))
         /\ Owns(discard(bs, S), ow \ S, request.request_id)
         /\ DOMAIN discard(bs, S) = DOMAIN bs
<1> DEFINE cs == discard(bs, S)
<1>1. DOMAIN cs = DOMAIN bs
  BY DEF discard
<1>2. \A i \in DOMAIN bs :
        /\ bs[i] \in Block /\ cs[i] \in Block
        /\ cs[i].group = bs[i].group /\ cs[i].key = bs[i].key
        /\ cs[i].created_at = bs[i].created_at /\ cs[i].last_used = bs[i].last_used
        /\ cs[i].owners = IF i \in S THEN {} ELSE bs[i].owners
  BY DEF Table, Block, Owns, discard
<1>3. Table(cs, ck, nx)
  <2>1. cs = [i \in DOMAIN cs |-> cs[i]]
    BY DEF discard
  <2> HIDE DEF cs
  <2> QED
    BY <1>1, <1>2, <2>1 DEF Table
<1> HIDE DEF cs
<1>4. Indexed(cs, ix)
  <2>1. \A i \in DOMAIN bs : Ident(cs[i]) = Ident(bs[i])
    BY <1>2 DEF Ident
  <2> QED
    BY <1>1, <2>1 DEF Indexed
<1>5. Owns(cs, ow \ S, request.request_id)
  BY <1>1, <1>2 DEF Owns
<1> QED
  BY <1>1, <1>3, <1>4, <1>5 DEF Fits, cs

(* The end of an access: block id is in bs, and the request owns it there. *)
LEMMA AccessEnds ==
  ASSUME IInv, Running, More, NEW bs, NEW id \in Nat, NEW ix, NEW nx,
         Table(bs, clock + 1, nx), Indexed(bs, ix), Fits(bs),
         Owns(bs, owned \cup {id}, request.request_id),
         Accessed(bs, id)
  PROVE  /\ Table(blocks', clock', nx) /\ Indexed(blocks', ix) /\ Fits(blocks')
         /\ Owns(blocks', owned', request.request_id)
         /\ accesses' \in Nat
         /\ windows' \in [1..Len(Groups) -> Seq(Nat)]
         /\ DOMAIN blocks' = DOMAIN bs
<1> DEFINE w == Append(windows[Group], id)
           e == Head(w)
           rid == request.request_id
           cs == discard(bs, {e})
<1>1. Group \in 1..Len(Groups)
  BY NextAccess
<1>2. windows \in [1..Len(Groups) -> Seq(Nat)] /\ accesses \in Nat
  BY DEF IInv, LocalsOK
<1>3. w \in Seq(Nat) /\ w # <<>> /\ Tail(w) \in Seq(Nat)
  <2>1. windows[Group] \in Seq(Nat)
    BY <1>1, <1>2
  <2> QED
    BY <2>1
<1>4. clock' = clock + 1 /\ accesses' = accesses + 1
  BY DEF Accessed
<1>5. CASE Groups[Group].mode = "sliding" /\ Len(w) > Groups[Group].window_blocks
  <2>1. /\ blocks' = cs
        /\ owned' = (owned \cup {id}) \ {e}
        /\ windows' = [windows EXCEPT ![Group] = Tail(w)]
    BY <1>5 DEF Accessed, _advance_sliding
  <2>2. /\ Table(cs, clock + 1, nx) /\ Indexed(cs, ix) /\ Fits(cs)
        /\ Owns(cs, (owned \cup {id}) \ {e}, rid)
        /\ DOMAIN cs = DOMAIN bs
    <3> HIDE DEF e
    <3> QED
      BY Disown
  <2>3. windows' \in [1..Len(Groups) -> Seq(Nat)]
    <3> HIDE DEF w
    <3> QED
      BY <2>1, <1>2, <1>3
  <2> HIDE DEF cs, e
  <2> QED
    BY <2>1, <2>2, <2>3, <1>2, <1>4
<1>6. CASE ~(Groups[Group].mode = "sliding" /\ Len(w) > Groups[Group].window_blocks)
  <2>1. /\ blocks' = bs
        /\ owned' = owned \cup {id}
        /\ windows' = [windows EXCEPT
                         ![Group] = IF Groups[Group].mode = "sliding" THEN w ELSE @]
    BY <1>6 DEF Accessed, _advance_sliding
  <2>2. windows' \in [1..Len(Groups) -> Seq(Nat)]
    <3> HIDE DEF w
    <3> QED
      BY <2>1, <1>1, <1>2, <1>3
  <2> QED
    BY <2>1, <2>2, <1>2, <1>4
<1> QED
  BY <1>5, <1>6

(* A missing key gets a new block after the eviction of S, which is empty  *)
(* or one unowned block, where that leaves room.                           *)
LEMMA Inserts ==
  ASSUME IInv, Running, More, Identity \notin DOMAIN key_index,
         NEW S \in SUBSET DOMAIN blocks,
         \A i \in S : blocks[i].owners = {},
         Cardinality(DOMAIN blocks \ S) < capacity_blocks,
         Insert(S)
  PROVE  /\ Table(blocks', clock', next_block_id') /\ Indexed(blocks', key_index')
         /\ Fits(blocks')
         /\ Owns(blocks', owned', request.request_id)
         /\ accesses' \in Nat
         /\ windows' \in [1..Len(Groups) -> Seq(Nat)]
         /\ \A i \in DOMAIN blocks : blocks[i].owners # {} => i \in DOMAIN blocks'
<1> DEFINE D == DOMAIN blocks \ S
           n == next_block_id
           gone == {<<blocks[i].group, blocks[i].key>> : i \in S}
           bs == [i \in D \cup {n} |-> IF i = n THEN NewBlock ELSE blocks[i]]
           ix == [k \in (DOMAIN key_index \ gone) \cup {Identity} |->
                    IF k = Identity THEN n ELSE key_index[k]]
<1>1. /\ key_index' = ix
      /\ next_block_id' = n + 1
      /\ Accessed(bs, n)
  <2>1. /\ WithoutVictim(S).blocks = [i \in D |-> blocks[i]]
        /\ WithoutVictim(S).key_index = [k \in DOMAIN key_index \ gone |-> key_index[k]]
    BY DEF WithoutVictim
  <2>2. [i \in DOMAIN WithoutVictim(S).blocks \cup {n} |->
           IF i = n THEN NewBlock ELSE WithoutVictim(S).blocks[i]] = bs
    BY <2>1
  <2>3. [k \in DOMAIN WithoutVictim(S).key_index \cup {Identity} |->
           IF k = Identity THEN n ELSE WithoutVictim(S).key_index[k]] = ix
    BY <2>1
  <2> HIDE DEF bs, ix
  <2> QED
    BY <2>2, <2>3 DEF Insert
<1>2. n \in Nat /\ n \notin DOMAIN blocks /\ clock \in Nat
  BY DEF IInv, Table
<1>3. NewBlock \in Block /\ Ident(NewBlock) = Identity
  BY <1>2, NextAccess DEF NewBlock, Block, Identity, Ident
<1>4. DOMAIN bs = D \cup {n} /\ bs[n] = NewBlock /\ \A i \in D : bs[i] = blocks[i]
  BY <1>2
<1>5. IsFiniteSet(D) /\ IsFiniteSet(D \cup {n}) /\ Cardinality(D \cup {n}) <= capacity_blocks
  <2>1. IsFiniteSet(DOMAIN blocks)
    BY DEF IInv, Table
  <2>2. IsFiniteSet(D)
    BY <2>1, FS_Subset
  <2>3. IsFiniteSet(D \cup {n}) /\ Cardinality(D \cup {n}) = Cardinality(D) + 1
    BY <1>2, <2>2, FS_AddElement
  <2>4. Cardinality(D) \in Nat
    BY <2>2, FS_CardinalityType
  <2> QED
    BY <2>2, <2>3, <2>4, CapacityAssumption
<1> HIDE DEF bs
<1>6. Table(bs, clock + 1, n + 1)
  <2>1. \A i \in D : /\ blocks[i] \in Block /\ i \in Nat /\ i < n
                     /\ blocks[i].created_at <= blocks[i].last_used
                     /\ blocks[i].last_used <= clock
    BY DEF IInv, Table
  <2>2. \A i \in D : blocks[i].last_used \in Nat /\ blocks[i].created_at \in Nat
    BY <2>1 DEF Block
  <2>3. NewBlock.created_at = clock + 1 /\ NewBlock.last_used = clock + 1
    BY DEF NewBlock
  <2>4. bs \in [DOMAIN bs -> Block]
    <3>1. bs = [i \in DOMAIN bs |-> bs[i]]
      BY <1>4 DEF bs
    <3> QED
      BY <3>1, <1>3, <1>4, <2>1
  <2>5. \A i \in DOMAIN bs :
          /\ i < n + 1
          /\ bs[i].created_at <= bs[i].last_used /\ bs[i].last_used <= clock + 1
    BY <1>2, <1>4, <2>1, <2>2, <2>3
  <2> QED
    BY <1>2, <1>4, <1>5, <2>1, <2>4, <2>5 DEF Table
<1>7. Indexed(bs, ix)
  <2>1. \A i \in DOMAIN blocks :
          /\ Ident(blocks[i]) \in DOMAIN key_index /\ key_index[Ident(blocks[i])] = i
          /\ Ident(blocks[i]) # Identity
    BY DEF IInv, Indexed
  <2>2. \A k \in DOMAIN key_index :
          key_index[k] \in DOMAIN blocks /\ k = Ident(blocks[key_index[k]])
    BY DEF IInv, Indexed
  <2>3. gone = {Ident(blocks[i]) : i \in S}
    BY DEF Ident
  <2> HIDE DEF gone
  <2>4. \A i \in D : Ident(blocks[i]) \notin gone
    BY <2>1, <2>3
  <2>5. \A k \in DOMAIN key_index \ gone : key_index[k] \in D
    BY <2>2, <2>3
  <2> HIDE DEF D
  <2>6. \A i \in DOMAIN bs : Ident(bs[i]) \in DOMAIN ix /\ ix[Ident(bs[i])] = i
    <3>1. \A i \in D : i \in DOMAIN blocks
      BY DEF D
    <3> QED
      BY <1>3, <1>4, <2>1, <2>4, <3>1
  <2>7. \A k \in DOMAIN ix : ix[k] \in DOMAIN bs /\ k = Ident(bs[ix[k]])
    BY <1>3, <1>4, <2>2, <2>5
  <2> QED
    BY <2>6, <2>7 DEF Indexed
<1>8. Owns(bs, owned \cup {n}, request.request_id)
  <2>1. NewBlock.owners = {request.request_id}
    BY DEF NewBlock
  <2>2. Owns(blocks, owned, request.request_id)
    BY DEF IInv
  <2> QED
    BY <1>4, <2>1, <2>2 DEF Owns
<1>9. Fits(bs)
  BY <1>4, <1>5 DEF Fits
<1>10. DOMAIN blocks' = D \cup {n}
  BY <1>1, <1>2, <1>4, <1>6, <1>7, <1>8, <1>9, AccessEnds
<1> HIDE DEF ix
<1> QED
  BY <1>1, <1>2, <1>6, <1>7, <1>8, <1>9, <1>10, AccessEnds

-----------------------------------------------------------------------------
LEMMA InitIInv == Init => IInv
<1> SUFFICES ASSUME Init PROVE IInv
  OBVIOUS
<1>1. /\ blocks = <<>> /\ key_index = <<>> /\ DOMAIN blocks = {} /\ DOMAIN key_index = {}
      /\ clock = 0 /\ next_block_id = 0 /\ owned = {} /\ saved = <<>>
      /\ request = Idle /\ accesses = 0 /\ windows = NoWindows
  BY DEF Init
<1>2. Table(blocks, clock, next_block_id)
  BY <1>1, FS_EmptySet DEF Table
<1>3. Indexed(blocks, key_index) /\ Owns(blocks, owned, request.request_id)
  BY <1>1 DEF Indexed, Owns
<1>4. Fits(blocks)
  BY <1>1, FS_EmptySet, CapacityAssumption DEF Fits
<1>5. LocalsOK /\ SavedOK
  BY <1>1 DEF LocalsOK, SavedOK, NoWindows
<1> QED
  BY <1>2, <1>3, <1>4, <1>5 DEF IInv

(* _access of a resident key.                                              *)
LEMMA ReuseFacts ==
  ASSUME clock \in Nat, request.request_id \in RequestIds, NEW b \in Block
  PROVE  /\ Reused(b) \in Block
         /\ Reused(b).group = b.group /\ Reused(b).key = b.key
         /\ Reused(b).created_at = b.created_at /\ Reused(b).last_used = clock + 1
         /\ Reused(b).owners = b.owners \cup {request.request_id}
<1> DEFINE t == clock + 1
           n == b.reuse_count + 1
           o == b.owners \cup {request.request_id}
<1>1. t \in Nat /\ n \in Nat /\ o \in SUBSET RequestIds
  BY DEF Block
<1>2. Reused(b) = [b EXCEPT !.last_used = t, !.reuse_count = n, !.owners = o]
  BY DEF Reused
<1> HIDE DEF t, n, o
<1>3. /\ Reused(b) \in Block
      /\ Reused(b).group = b.group /\ Reused(b).key = b.key
      /\ Reused(b).created_at = b.created_at /\ Reused(b).last_used = t
      /\ Reused(b).owners = o
  BY <1>1, <1>2 DEF Block
<1> QED
  BY <1>3 DEF t, o

LEMMA HitKeeps ==
  ASSUME IInv, hit
  PROVE  IInv' /\ DOMAIN blocks' = DOMAIN blocks
<1> DEFINE id == key_index[Identity]
           rid == request.request_id
           bs == [blocks EXCEPT ![id] = Reused(blocks[id])]
<1>1. Running /\ More /\ Accessed(bs, id)
  BY DEF hit
<1>2. id \in DOMAIN blocks /\ id \in Nat
  BY DEF hit, IInv, Indexed, Table
<1>3. rid \in RequestIds
  BY <1>1, NextAccess
<1>4. /\ Table(blocks, clock, next_block_id) /\ Indexed(blocks, key_index)
      /\ Fits(blocks) /\ Owns(blocks, owned, rid)
  BY DEF IInv
<1>5. DOMAIN bs = DOMAIN blocks
  OBVIOUS
<1>6. \A i \in DOMAIN blocks :
        /\ blocks[i] \in Block /\ bs[i] \in Block
        /\ bs[i].group = blocks[i].group /\ bs[i].key = blocks[i].key
        /\ bs[i].created_at = blocks[i].created_at
        /\ bs[i].last_used = IF i = id THEN clock + 1 ELSE blocks[i].last_used
        /\ bs[i].owners = IF i = id THEN blocks[i].owners \cup {rid} ELSE blocks[i].owners
  <2>1. clock \in Nat /\ \A i \in DOMAIN blocks : blocks[i] \in Block
    BY <1>4 DEF Table
  <2>2. \A i \in DOMAIN blocks : bs[i] = IF i = id THEN Reused(blocks[id]) ELSE blocks[i]
    <3> HIDE DEF id
    <3> QED
      OBVIOUS
  <2>3. \A b \in Block :
          /\ Reused(b) \in Block
          /\ Reused(b).group = b.group /\ Reused(b).key = b.key
          /\ Reused(b).created_at = b.created_at /\ Reused(b).last_used = clock + 1
          /\ Reused(b).owners = b.owners \cup {rid}
    BY <1>3, <2>1, ReuseFacts
  <2> HIDE DEF bs, id, rid
  <2> TAKE i \in DOMAIN blocks
  <2>4. blocks[i] \in Block
    BY <2>1
  <2>5. CASE i = id
    <3>1. bs[i] = Reused(blocks[i])
      BY <2>2, <2>5
    <3> QED
      BY <2>3, <2>4, <2>5, <3>1
  <2>6. CASE i # id
    <3>1. bs[i] = blocks[i]
      BY <2>2, <2>6
    <3> QED
      BY <2>4, <2>6, <3>1
  <2> QED
    BY <2>5, <2>6
<1> HIDE DEF bs, id, rid
<1>7. Table(bs, clock + 1, next_block_id)
  <2>1. bs = [i \in DOMAIN bs |-> bs[i]]
    BY DEF bs
  <2>2. bs \in [DOMAIN bs -> Block]
    BY <2>1, <1>5, <1>6
  <2>3. \A i \in DOMAIN blocks : blocks[i].last_used \in Nat /\ blocks[i].created_at \in Nat
    BY <1>6 DEF Block
  <2>4. /\ clock \in Nat /\ clock + 1 \in Nat
        /\ \A i \in DOMAIN blocks : /\ i < next_block_id
                                   /\ blocks[i].created_at <= blocks[i].last_used
                                   /\ blocks[i].last_used <= clock
    BY <1>4 DEF Table
  <2>5. \A i \in DOMAIN bs :
          bs[i].created_at <= bs[i].last_used /\ bs[i].last_used <= clock + 1
    <3> TAKE i \in DOMAIN bs
    <3>1. /\ blocks[i].created_at \in Nat /\ blocks[i].last_used \in Nat
          /\ blocks[i].created_at <= blocks[i].last_used /\ blocks[i].last_used <= clock
      BY <1>5, <2>3, <2>4
    <3>2. /\ bs[i].created_at = blocks[i].created_at
          /\ bs[i].last_used = clock + 1 \/ bs[i].last_used = blocks[i].last_used
      BY <1>5, <1>6
    <3> QED
      BY <2>4, <3>1, <3>2
  <2> QED
    BY <2>2, <2>4, <2>5, <1>4, <1>5 DEF Table
<1>8. Indexed(bs, key_index)
  <2>1. \A i \in DOMAIN blocks : Ident(bs[i]) = Ident(blocks[i])
    BY <1>6 DEF Ident
  <2> QED
    BY <1>4, <1>5, <2>1 DEF Indexed
<1>9. Fits(bs) /\ Owns(bs, owned \cup {id}, rid)
  BY <1>2, <1>4, <1>5, <1>6 DEF Fits, Owns
<1>10. /\ Table(blocks', clock', next_block_id) /\ Indexed(blocks', key_index)
       /\ Fits(blocks') /\ Owns(blocks', owned', rid)
       /\ accesses' \in Nat
       /\ windows' \in [1..Len(Groups) -> Seq(Nat)]
       /\ DOMAIN blocks' = DOMAIN bs
  BY <1>1, <1>2, <1>7, <1>8, <1>9, AccessEnds DEF rid
<1>11. /\ key_index' = key_index /\ next_block_id' = next_block_id
       /\ request' = request /\ saved' = saved
  BY DEF hit
<1>12. SavedOK'
  BY <1>11 DEF IInv, SavedOK
<1>13. LocalsOK'
  BY <1>1, <1>10, <1>11 DEF IInv, LocalsOK, Running
<1> QED
  BY <1>5, <1>10, <1>11, <1>12, <1>13 DEF IInv, rid

(* What both forms of _access of a missing key leave in place.             *)
LEMMA InsertKeeps ==
  ASSUME IInv, Running, More, Identity \notin DOMAIN key_index,
         NEW S \in SUBSET DOMAIN blocks,
         \A i \in S : blocks[i].owners = {},
         Cardinality(DOMAIN blocks \ S) < capacity_blocks,
         Insert(S), request' = request, saved' = saved
  PROVE  /\ IInv'
         /\ \A i \in DOMAIN blocks : blocks[i].owners # {} => i \in DOMAIN blocks'
<1>1. SavedOK'
  BY DEF IInv, SavedOK
<1>2. LocalsOK'
  BY Inserts DEF IInv, LocalsOK, Running
<1> QED
  BY <1>1, <1>2, Inserts DEF IInv

(* The authority returns nothing, or one resident block without owners.    *)
LEMMA AuthorityIsSafe ==
  ASSUME NEW proposal, NEW now
  PROVE  LET v == authorize_eviction(proposal, now)
         IN v = <<>> \/ /\ Len(v) = 1
                        /\ v[1] \in DOMAIN blocks
                        /\ blocks[v[1]].owners = {}
<1> DEFINE lru == Ranked("lru", now)
<1>1. lru = <<>> \/ Len(lru) = 1
  BY DEF Ranked
<1> HIDE DEF lru
<1> QED
  BY <1>1 DEF authorize_eviction, _valid, lru

(* _access of a missing key in a full cache, whatever was proposed: one    *)
(* unowned block goes, or the cache stays as it is.                        *)
LEMMA EvictKeeps ==
  ASSUME IInv, evict
  PROVE  /\ IInv'
         /\ raised' # "live"
         /\ \A i \in DOMAIN blocks : blocks[i].owners # {} => i \in DOMAIN blocks'
<1>1. /\ Running /\ More /\ Identity \notin DOMAIN key_index
      /\ request' = request /\ saved' = saved
  BY DEF evict
<1>2. PICK proposal \in Proposals(policy, clock + 1) :
        LET victims == authorize_eviction(proposal, clock + 1)
            unused == \A n \in 1..Len(victims) : blocks[victims[n]].owners = {}
        IN \/ /\ victims # <<>> /\ unused
              /\ Insert({victims[1]})
           \/ /\ ~(victims # <<>> /\ unused)
              /\ raised' = (IF victims = <<>> THEN "exhausted" ELSE "live")
              /\ clock' = clock + 1
              /\ UNCHANGED <<blocks, key_index, next_block_id, accesses, owned, windows>>
  BY DEF evict
<1> DEFINE v == authorize_eviction(proposal, clock + 1)
<1>3. v = <<>> \/ /\ Len(v) = 1
                  /\ v[1] \in DOMAIN blocks
                  /\ blocks[v[1]].owners = {}
  BY AuthorityIsSafe
<1>4. \/ v # <<>> /\ Insert({v[1]})
      \/ /\ v = <<>> /\ raised' = "exhausted" /\ clock' = clock + 1
         /\ UNCHANGED <<blocks, key_index, next_block_id, accesses, owned, windows>>
  <2> HIDE DEF v
  <2>1. v # <<>> => \A n \in 1..Len(v) : blocks[v[n]].owners = {}
    <3> SUFFICES ASSUME v # <<>>, NEW n \in 1..Len(v) PROVE blocks[v[n]].owners = {}
      OBVIOUS
    <3>1. Len(v) = 1 /\ blocks[v[1]].owners = {}
      BY <1>3
    <3>2. n = 1
      BY <3>1
    <3> QED
      BY <3>1, <3>2
  <2> QED
    BY <1>2, <2>1 DEF v
<1> HIDE DEF v
<1>5. CASE v # <<>> /\ Insert({v[1]})
  <2> DEFINE S == {v[1]}
  <2>1. v[1] \in DOMAIN blocks /\ blocks[v[1]].owners = {}
    BY <1>3, <1>5
  <2>2. Cardinality(DOMAIN blocks \ S) < capacity_blocks
    <3>1. IsFiniteSet(DOMAIN blocks) /\ Cardinality(DOMAIN blocks) <= capacity_blocks
      BY DEF IInv, Table, Fits
    <3>2. Cardinality(DOMAIN blocks \ S) = Cardinality(DOMAIN blocks) - 1
      BY <2>1, <3>1, FS_RemoveElement
    <3>3. Cardinality(DOMAIN blocks) \in Nat
      BY <3>1, FS_CardinalityType
    <3> QED
      BY <3>1, <3>2, <3>3, CapacityAssumption
  <2>3. S \in SUBSET DOMAIN blocks /\ \A i \in S : blocks[i].owners = {}
    BY <2>1
  <2>4. Insert(S)
    BY <1>5
  <2>5. raised' # "live"
    BY <1>1, <1>5 DEF Insert, Running
  <2> HIDE DEF S
  <2> QED
    BY <1>1, <2>2, <2>3, <2>4, <2>5, InsertKeeps
<1>6. CASE /\ v = <<>> /\ raised' = "exhausted" /\ clock' = clock + 1
           /\ UNCHANGED <<blocks, key_index, next_block_id, accesses, owned, windows>>
  <2>1. Table(blocks, clock + 1, next_block_id)
    <3>1. Table(blocks, clock, next_block_id)
      BY DEF IInv
    <3>2. \A i \in DOMAIN blocks : blocks[i].last_used \in Nat
      BY <3>1 DEF Table, Block
    <3> QED
      BY <3>1, <3>2 DEF Table
  <2>2. SavedOK' /\ LocalsOK'
    BY <1>1, <1>6 DEF IInv, SavedOK, LocalsOK
  <2> QED
    BY <1>1, <1>6, <2>1, <2>2 DEF IInv
<1> QED
  BY <1>4, <1>5, <1>6

(* The index of a well-formed table can be rebuilt from its blocks.        *)
LEMMA Rebuild ==
  ASSUME NEW bs, NEW ix, Indexed(bs, ix)
  PROVE  Indexed(bs, Reindexed(bs))
<1> DEFINE rx == Reindexed(bs)
<1>1. Reindexed(bs) = [k \in {Ident(bs[i]) : i \in DOMAIN bs} |->
                         CHOOSE i \in DOMAIN bs : k = Ident(bs[i])]
  BY DEF Reindexed, Ident
<1>2. \A i, j \in DOMAIN bs : Ident(bs[i]) = Ident(bs[j]) => i = j
  BY DEF Indexed
<1>3. \A k \in DOMAIN rx : rx[k] \in DOMAIN bs /\ k = Ident(bs[rx[k]])
  <2> TAKE k \in DOMAIN rx
  <2>1. \E i \in DOMAIN bs : k = Ident(bs[i])
    BY <1>1
  <2>2. rx[k] = CHOOSE i \in DOMAIN bs : k = Ident(bs[i])
    BY <1>1
  <2> QED
    BY <2>1, <2>2
<1>4. \A i \in DOMAIN bs : Ident(bs[i]) \in DOMAIN rx
  BY <1>1
<1> HIDE DEF rx
<1>5. \A i \in DOMAIN bs : rx[Ident(bs[i])] = i
  BY <1>2, <1>3, <1>4
<1>6. Indexed(bs, rx)
  BY <1>3, <1>4, <1>5 DEF Indexed
<1> QED
  BY <1>6 DEF rx

-----------------------------------------------------------------------------
LEMMA NextIInv == IInv /\ [Next]_vars => IInv'
<1> SUFFICES ASSUME IInv, [Next]_vars PROVE IInv'
  OBVIOUS
<1>1. ASSUME NEW r \in Requests, process(r) PROVE IInv'
  <2>1. /\ UNCHANGED <<blocks, key_index, clock, next_block_id, saved>>
        /\ request = Idle /\ request' = r /\ accesses' = 0 /\ owned' = {}
        /\ windows' = NoWindows
    BY <1>1 DEF process, cache
  <2>2. \A i \in DOMAIN blocks : blocks[i].owners = {}
    BY <2>1 DEF IInv, LocalsOK, Owns
  <2>3. Owns(blocks, {}, r.request_id)
    BY <2>2 DEF Owns
  <2>4. LocalsOK'
    BY <2>1 DEF LocalsOK, NoWindows
  <2>5. SavedOK'
    BY <2>1 DEF IInv, SavedOK
  <2> QED
    BY <2>1, <2>3, <2>4, <2>5 DEF IInv
<1>2. CASE hit
  BY <1>2, HitKeeps
<1>3. CASE miss
  <2>1. /\ Running /\ More /\ Identity \notin DOMAIN key_index /\ Insert({})
        /\ Cardinality(DOMAIN blocks) < capacity_blocks
        /\ request' = request /\ saved' = saved
    BY <1>3 DEF miss
  <2>2. DOMAIN blocks \ {} = DOMAIN blocks
    OBVIOUS
  <2> QED
    BY <2>1, <2>2, InsertKeeps
<1>4. CASE evict
  BY <1>4, EvictKeeps
<1>5. CASE release
  <2> DEFINE cs == discard(blocks, owned)
  <2>1. /\ blocks' = cs
        /\ UNCHANGED <<key_index, clock, next_block_id, saved>>
        /\ request' = Idle /\ accesses' = 0 /\ owned' = {} /\ windows' = NoWindows
    BY <1>5 DEF release
  <2>2. /\ Table(cs, clock, next_block_id) /\ Indexed(cs, key_index) /\ Fits(cs)
        /\ Owns(cs, owned \ owned, request.request_id)
    BY Disown DEF IInv
  <2> HIDE DEF cs
  <2>3. Owns(cs, {}, Idle.request_id)
    BY <2>2 DEF Owns
  <2>4. LocalsOK'
    BY <2>1 DEF LocalsOK, NoWindows
  <2>5. SavedOK'
    BY <2>1 DEF IInv, SavedOK
  <2> QED
    BY <2>1, <2>2, <2>3, <2>4, <2>5 DEF IInv
<1>6. CASE checkpoint
  <2>1. /\ UNCHANGED <<blocks, key_index, clock, next_block_id, request, accesses, owned, windows>>
        /\ request = Idle
        /\ saved' = <<[policy_id |-> policy, blocks |-> blocks, clock |-> clock,
                       next_block_id |-> next_block_id]>>
    BY <1>6 DEF checkpoint, cache, locals
  <2>2. /\ saved'[1].blocks = blocks /\ saved'[1].clock = clock
        /\ saved'[1].next_block_id = next_block_id
    BY <2>1
  <2>3. \A i \in DOMAIN blocks : blocks[i].owners = {}
    BY <2>1 DEF IInv, LocalsOK, Owns
  <2>4. Indexed(blocks, Reindexed(blocks))
    BY Rebuild DEF IInv
  <2>5. SavedOK'
    BY <2>2, <2>3, <2>4 DEF IInv, SavedOK
  <2>6. LocalsOK'
    BY <2>1 DEF IInv, LocalsOK
  <2> QED
    BY <2>1, <2>5, <2>6 DEF IInv
<1>7. ASSUME NEW p \in Policies, simulator(p) PROVE IInv'
  <2>1. /\ blocks' = <<>> /\ key_index' = <<>> /\ clock' = 0 /\ next_block_id' = 0
        /\ request' = Idle /\ accesses' = 0 /\ owned' = {} /\ windows' = NoWindows
        /\ saved' = saved
    BY <1>7 DEF simulator
  <2>2. DOMAIN blocks' = {} /\ DOMAIN key_index' = {}
    BY <2>1
  <2>3. Table(blocks', clock', next_block_id')
    BY <2>1, <2>2, FS_EmptySet DEF Table
  <2>4. Indexed(blocks', key_index') /\ Owns(blocks', owned', request'.request_id)
    BY <2>1, <2>2 DEF Indexed, Owns
  <2>5. Fits(blocks')
    BY <2>2, FS_EmptySet, CapacityAssumption DEF Fits
  <2>6. LocalsOK'
    BY <2>1 DEF LocalsOK, NoWindows
  <2>7. SavedOK'
    BY <2>1 DEF IInv, SavedOK
  <2> QED
    BY <2>3, <2>4, <2>5, <2>6, <2>7 DEF IInv
<1>8. CASE restore_state
  <2> DEFINE bs == saved[1].blocks
  <2>1. /\ request = Idle /\ saved # <<>>
        /\ blocks' = bs /\ key_index' = Reindexed(bs)
        /\ clock' = saved[1].clock /\ next_block_id' = saved[1].next_block_id
        /\ UNCHANGED <<request, accesses, owned, windows, saved>>
    BY <1>8 DEF restore_state, locals
  <2>2. /\ Table(bs, saved[1].clock, saved[1].next_block_id) /\ Fits(bs)
        /\ Indexed(bs, Reindexed(bs))
        /\ \A i \in DOMAIN bs : bs[i].owners = {}
    BY <2>1 DEF IInv, SavedOK
  <2> HIDE DEF bs
  <2>3. owned = {}
    BY <2>1 DEF IInv, LocalsOK
  <2>4. Owns(bs, owned, request.request_id)
    BY <2>2, <2>3 DEF Owns
  <2>5. LocalsOK' /\ SavedOK'
    BY <2>1 DEF IInv, LocalsOK, SavedOK
  <2> QED
    BY <2>1, <2>2, <2>4, <2>5 DEF IInv
<1>9. CASE UNCHANGED vars
  BY <1>9 DEF vars, cache, locals, IInv, Table, Indexed, Fits, Owns, LocalsOK, SavedOK
<1> QED
  BY <1>1, <1>2, <1>3, <1>4, <1>5, <1>6, <1>7, <1>8, <1>9 DEF Next

(* The inductive invariant: a well-formed table and its inverse index      *)
(* within the capacity, owners that are exactly what process will release, *)
(* and a checkpoint that can be restored.                                  *)
THEOREM CacheInvariance == Spec => []IInv
  BY InitIInv, NextIInv, PTL DEF Spec

(* CacheState.validate would succeed in every reachable state: capacity,   *)
(* index and times hold under every policy, also after restore_state.      *)
THEOREM CacheValidTheorem == Spec => []CacheValid
<1>1. IInv => CacheValid
  BY DEF IInv, CacheValid, Table, Indexed, Fits, Ident
<1> QED
  BY <1>1, CacheInvariance, PTL

(* Only the running request owns blocks, and exactly those that process    *)
(* will release.                                                           *)
THEOREM OwnersTheorem == Spec => []OwnersAreRunning
<1>1. IInv => OwnersAreRunning
  BY DEF IInv, OwnersAreRunning, Owns, LocalsOK
<1> QED
  BY <1>1, CacheInvariance, PTL

(* No proposal, from any policy, makes the cache drop a block in use or    *)
(* makes _evict raise.                                                     *)
THEOREM LiveBlocksTheorem == Spec => LiveBlocksStay
<1> DEFINE Stay == Running => /\ raised' # "live"
                              /\ \A i \in DOMAIN blocks :
                                   blocks[i].owners # {} => i \in DOMAIN blocks'
<1>1. ASSUME IInv, [Next]_vars, Running PROVE Stay
  <2>1. request # Idle /\ raised = "no"
    BY <1>1 DEF Running
  <2>2. CASE hit
    <3>1. raised' = raised
      BY <2>2 DEF hit
    <3> QED
      BY <1>1, <2>1, <2>2, <3>1, HitKeeps
  <2>3. CASE miss
    <3>1. /\ Running /\ More /\ Identity \notin DOMAIN key_index /\ Insert({})
          /\ Cardinality(DOMAIN blocks \ {}) < capacity_blocks
          /\ request' = request /\ saved' = saved
      BY <2>3 DEF miss
    <3>2. raised' = raised
      BY <3>1 DEF Insert
    <3> QED
      BY <1>1, <2>1, <3>1, <3>2, InsertKeeps
  <2>4. CASE evict
    BY <1>1, <2>4, EvictKeeps
  <2>5. CASE release
    BY <2>1, <2>5 DEF release, discard
  <2>6. CASE UNCHANGED vars
    BY <2>1, <2>6 DEF vars, cache
  <2>7. /\ ~checkpoint /\ ~restore_state
        /\ \A r \in Requests : ~process(r)
        /\ \A p \in Policies : ~simulator(p)
    BY <2>1 DEF checkpoint, restore_state, process, simulator
  <2> QED
    BY <1>1, <2>2, <2>3, <2>4, <2>5, <2>6, <2>7 DEF Next
<1>2. IInv /\ [Next]_vars => [Stay]_vars
  BY <1>1
<1> HIDE DEF Stay
<1>3. Spec => [][Stay]_vars
  BY <1>2, CacheInvariance, PTL DEF Spec
<1> QED
  BY <1>3 DEF LiveBlocksStay, Stay

-----------------------------------------------------------------------------
(* Why a small request is never refused a block.  What the request owns is *)
(* what it asked for: in a full group one block per key, in a sliding one  *)
(* the blocks of the window.                                               *)

InWindow(i, g) == \E m \in 1..Len(windows[g]) : windows[g][m] = i

InGroup(i, g) ==
  /\ blocks[i].group = Groups[g].name
  /\ Groups[g].mode = "sliding" => InWindow(i, g)

Asked(i) == \E n \in 1..Steps(request) : blocks[i].key = Key(request, n)

Demanded ==
  request # Idle =>
    /\ \A i \in owned : Asked(i) /\ \E g \in 1..Len(Groups) : InGroup(i, g)
    /\ \A g \in 1..Len(Groups) :
         Groups[g].mode = "sliding" => Len(windows[g]) <= Groups[g].window_blocks

(* The least-number principle for a set, which serves as induction.        *)
LEMMA LeastNatural ==
  ASSUME NEW T, T \subseteq Nat, T # {}
  PROVE  \E x \in T : \A y \in T : ~(y < x)
<1>1. IsWellFoundedOn(OpToRel(<, Nat), Nat)
  BY NatLessThanWellFounded
<1>2. PICK x \in T : \A y \in T : <<y, x>> \notin OpToRel(<, Nat)
  BY <1>1, WFMin
<1>3. \A y \in T : ~(y < x)
  BY <1>2 DEF OpToRel
<1> QED
  BY <1>3

LEMMA GroupType ==
  ASSUME NEW g \in 1..Len(Groups)
  PROVE  Groups[g].window_blocks \in Nat /\ Groups[g].mode \in {"full", "sliding"}
<1> DEFINE T == [name : STRING, mode : {"full", "sliding"}, window_blocks : Nat]
<1>1. Groups \in Seq(T)
  BY GroupAssumption
<1> HIDE DEF T
<1>2. Groups[g] \in T
  BY <1>1
<1> QED
  BY <1>2 DEF T

(* The next key is one of the request's.                                   *)
LEMMA NextIsAsked ==
  ASSUME IInv, Running, More
  PROVE  \E n \in 1..Steps(request) : NextKey = Key(request, n)
<1> DEFINE L == Len(Groups)
           q == accesses \div L
           S == Steps(request)
<1>1. L \in Nat \ {0} /\ accesses \in Nat
  BY GroupAssumption DEF IInv, LocalsOK
<1>2. S \in Nat
  <2>1. request \in Requests
    BY DEF IInv, LocalsOK, Running
  <2>2. Len(request.prompt_blocks) \in Nat /\ Generated(request) \in Nat
    BY <2>1, RequestAssumption DEF Generated, None
  <2> QED
    BY <2>2 DEF Steps
<1>3. accesses < S * L
  BY DEF More
<1> HIDE DEF L, S
<1>4. q \in Nat /\ q * L <= accesses
  BY <1>1
<1> HIDE DEF q
<1>5. q < S
  <2> SUFFICES ASSUME q >= S PROVE FALSE
    BY <1>2, <1>4
  <2>1. PICK d \in Nat : q = S + d
    <3>1. q - S \in Nat /\ q = S + (q - S)
      BY <1>2, <1>4
    <3> QED
      BY <3>1
  <2>2. q * L = S * L + d * L
    BY <1>1, <1>2, <2>1
  <2>3. d * L \in Nat /\ S * L \in Nat /\ q * L \in Nat
    BY <1>1, <1>2, <1>4
  <2> QED
    BY <1>1, <1>3, <1>4, <2>2, <2>3
<1>6. q + 1 \in 1..S
  BY <1>2, <1>4, <1>5
<1>7. NextKey = Key(request, q + 1)
  BY DEF NextKey, q, L
<1> QED
  BY <1>6, <1>7 DEF S

(* Where the elements of a window are after an access of block id.         *)
LEMMA WindowMoves ==
  ASSUME NEW w \in Seq(Nat), NEW id \in Nat
  PROVE  LET a == Append(w, id)
         IN /\ Len(a) = Len(w) + 1 /\ Len(Tail(a)) = Len(w) /\ Len(w) \in Nat
            /\ \E m \in 1..Len(a) : a[m] = id
            /\ \A i : (\E m \in 1..Len(w) : w[m] = i) => \E m \in 1..Len(a) : a[m] = i
            /\ \A i : (\E m \in 1..Len(a) : a[m] = i) /\ i # Head(a) =>
                      \E m \in 1..Len(Tail(a)) : Tail(a)[m] = i
<1> DEFINE a == Append(w, id)
<1>1. a \in Seq(Nat) /\ Len(a) = Len(w) + 1 /\ Len(w) \in Nat /\ a # <<>>
  OBVIOUS
<1>2. a[Len(w) + 1] = id /\ \A m \in 1..Len(w) : a[m] = w[m]
  OBVIOUS
<1> HIDE DEF a
<1>3. \E m \in 1..Len(a) : a[m] = id
  BY <1>1, <1>2
<1>4. ASSUME NEW m \in 1..Len(w) PROVE m \in 1..Len(a) /\ a[m] = w[m]
  BY <1>1, <1>2
<1>5. Len(Tail(a)) = Len(w) /\ Head(a) = a[1]
  BY <1>1
<1>6. ASSUME NEW m \in 1..Len(a), a[m] # Head(a)
      PROVE  \E n \in 1..Len(Tail(a)) : Tail(a)[n] = a[m]
  <2>1. m # 1
    BY <1>5, <1>6
  <2>2. m - 1 \in 1..Len(Tail(a)) /\ Tail(a)[m - 1] = a[m]
    BY <1>1, <1>5, <2>1
  <2> QED
    BY <2>2
<1> QED
  BY <1>1, <1>3, <1>4, <1>5, <1>6 DEF a

(* An access keeps the account: the block it ends with was asked for, and  *)
(* what leaves the window is no longer owned.                              *)
LEMMA AccessDemands ==
  ASSUME IInv, Demanded, Running, More, NEW bs, NEW id \in Nat, Accessed(bs, id),
         request' = request,
         \A i \in DOMAIN bs : bs[i] \in Block,
         id \in DOMAIN bs, bs[id].group = Groups[Group].name, bs[id].key = NextKey,
         \A i \in owned : /\ i \in DOMAIN bs
                          /\ bs[i].group = blocks[i].group /\ bs[i].key = blocks[i].key
  PROVE  Demanded'
<1> DEFINE w == windows[Group]
           a == Append(w, id)
           e == Head(a)
<1>1. Group \in 1..Len(Groups) /\ windows \in [1..Len(Groups) -> Seq(Nat)]
  BY NextAccess DEF IInv, LocalsOK
<1>2. w \in Seq(Nat)
  BY <1>1
<1>3. request # Idle
  BY DEF Running
<1>4. /\ \A i \in owned : Asked(i) /\ \E g \in 1..Len(Groups) : InGroup(i, g)
      /\ \A g \in 1..Len(Groups) :
           Groups[g].mode = "sliding" => Len(windows[g]) <= Groups[g].window_blocks
  BY <1>3 DEF Demanded
<1> DEFINE over == Groups[Group].mode = "sliding" /\ Len(a) > Groups[Group].window_blocks
<1>5. /\ blocks' = IF over THEN discard(bs, {e}) ELSE bs
      /\ owned' = IF over THEN (owned \cup {id}) \ {e} ELSE owned \cup {id}
      /\ windows' = [windows EXCEPT ![Group] = IF over THEN Tail(a)
                                               ELSE IF Groups[Group].mode = "sliding" THEN a ELSE @]
  BY DEF Accessed, _advance_sliding
<1>6. /\ Len(a) = Len(w) + 1 /\ Len(Tail(a)) = Len(w) /\ Len(w) \in Nat
      /\ \E m \in 1..Len(a) : a[m] = id
      /\ \A i : InWindow(i, Group) => \E m \in 1..Len(a) : a[m] = i
      /\ \A i : (\E m \in 1..Len(a) : a[m] = i) /\ i # e =>
                \E m \in 1..Len(Tail(a)) : Tail(a)[m] = i
  BY <1>2, WindowMoves DEF InWindow
<1>7. \A g \in 1..Len(Groups) :
        windows'[g] = IF g # Group THEN windows[g] ELSE IF over THEN Tail(a)
                      ELSE IF Groups[Group].mode = "sliding" THEN a ELSE w
  <2> HIDE DEF a, over
  <2> QED
    BY <1>1, <1>5
<1>8. \A i \in DOMAIN bs : blocks'[i].group = bs[i].group /\ blocks'[i].key = bs[i].key
  <2>1. \A i \in DOMAIN bs : /\ discard(bs, {e})[i].group = bs[i].group
                             /\ discard(bs, {e})[i].key = bs[i].key
    <3> HIDE DEF e
    <3> QED
      BY DEF discard, Block
  <2> HIDE DEF e, over
  <2> QED
    BY <1>5, <2>1
<1>9. owned' \subseteq owned \cup {id}
  BY <1>5
<1>10. ASSUME NEW i \in owned' PROVE Asked(i)'
  <2>1. CASE i = id
    <3>1. blocks'[i].key = NextKey
      BY <1>8, <2>1
    <3> QED
      BY <3>1, NextIsAsked DEF Asked
  <2>2. CASE i \in owned
    <3>1. blocks'[i].key = blocks[i].key
      BY <1>8, <2>2
    <3> QED
      BY <1>4, <2>2, <3>1 DEF Asked
  <2> QED
    BY <1>9, <2>1, <2>2
<1>11. ASSUME NEW i \in owned', NEW g \in 1..Len(Groups), blocks'[i].group = Groups[g].name,
              Groups[g].mode = "sliding" => \/ InWindow(i, g)
                                            \/ g = Group /\ i = id
       PROVE  InGroup(i, g)'
  <2>1. CASE Groups[g].mode # "sliding"
    BY <1>11, <2>1 DEF InGroup
  <2>2. CASE Groups[g].mode = "sliding" /\ g # Group
    BY <1>7, <1>11, <2>2 DEF InGroup, InWindow
  <2>3. CASE Groups[g].mode = "sliding" /\ g = Group
    <3>1. \E m \in 1..Len(a) : a[m] = i
      BY <1>6, <1>11, <2>3
    <3>2. CASE over
      <4>1. i # e /\ windows'[g] = Tail(a)
        BY <1>5, <1>7, <2>3, <3>2
      <4> QED
        BY <1>6, <1>11, <3>1, <4>1 DEF InGroup, InWindow
    <3>3. CASE ~over
      <4>1. windows'[g] = a
        BY <1>7, <2>3, <3>3
      <4> QED
        BY <1>11, <3>1, <4>1 DEF InGroup, InWindow
    <3> QED
      BY <3>2, <3>3
  <2> QED
    BY <2>1, <2>2, <2>3
<1>12. ASSUME NEW i \in owned' PROVE \E g \in 1..Len(Groups) : InGroup(i, g)'
  <2>1. CASE i = id
    <3>1. blocks'[i].group = Groups[Group].name
      BY <1>8, <2>1
    <3> QED
      BY <1>1, <1>11, <2>1, <3>1
  <2>2. CASE i \in owned
    <3>1. PICK g \in 1..Len(Groups) : InGroup(i, g)
      BY <1>4, <2>2
    <3>2. blocks'[i].group = Groups[g].name
      BY <1>8, <2>2, <3>1 DEF InGroup
    <3> QED
      BY <1>11, <3>1, <3>2 DEF InGroup
  <2> QED
    BY <1>9, <2>1, <2>2
<1>13. ASSUME NEW g \in 1..Len(Groups), Groups[g].mode = "sliding"
       PROVE  Len(windows'[g]) <= Groups[g].window_blocks
  <2>1. Len(windows[g]) <= Groups[g].window_blocks /\ Groups[g].window_blocks \in Nat
    BY <1>4, <1>13, GroupType
  <2> HIDE DEF a
  <2>2. CASE g # Group
    BY <1>7, <2>1, <2>2
  <2>3. CASE g = Group /\ over
    BY <1>6, <1>7, <2>1, <2>3
  <2>4. CASE g = Group /\ ~over
    BY <1>6, <1>7, <1>13, <2>1, <2>4
  <2> QED
    BY <2>2, <2>3, <2>4
<1> QED
  BY <1>10, <1>12, <1>13 DEF Demanded

LEMMA HitDemands ==
  ASSUME IInv, Demanded, hit
  PROVE  Demanded'
<1> DEFINE id == key_index[Identity]
           bs == [blocks EXCEPT ![id] = Reused(blocks[id])]
<1>1. /\ Running /\ More /\ Accessed(bs, id) /\ request' = request
      /\ Identity \in DOMAIN key_index
  BY DEF hit
<1>2. /\ id \in DOMAIN blocks /\ id \in Nat
      /\ blocks[id].group = Groups[Group].name /\ blocks[id].key = NextKey
  BY <1>1 DEF IInv, Indexed, Table, Ident, Identity
<1>3. \A i \in owned : i \in DOMAIN blocks
  BY DEF IInv, Owns
<1>4. /\ Reused(blocks[id]) \in Block /\ Reused(blocks[id]).group = blocks[id].group
      /\ Reused(blocks[id]).key = blocks[id].key
      /\ \A i \in DOMAIN blocks : blocks[i] \in Block
  <2>1. clock \in Nat /\ \A i \in DOMAIN blocks : blocks[i] \in Block
    BY DEF IInv, Table
  <2>2. blocks[id] \in Block
    BY <1>2, <2>1
  <2>3. request.request_id \in RequestIds
    BY <1>1, NextAccess
  <2> HIDE DEF id
  <2> QED
    BY <2>1, <2>2, <2>3, ReuseFacts
<1> HIDE DEF id
<1>5. /\ DOMAIN bs = DOMAIN blocks
      /\ \A i \in DOMAIN blocks : bs[i] = IF i = id THEN Reused(blocks[id]) ELSE blocks[i]
  OBVIOUS
<1> HIDE DEF bs
<1>6. \A i \in DOMAIN bs : /\ bs[i] \in Block
                           /\ bs[i].group = blocks[i].group /\ bs[i].key = blocks[i].key
  BY <1>4, <1>5
<1>7. bs[id].group = Groups[Group].name /\ bs[id].key = NextKey /\ id \in DOMAIN bs
  BY <1>2, <1>5, <1>6
<1> QED
  BY <1>1, <1>2, <1>3, <1>5, <1>6, <1>7, AccessDemands

LEMMA InsertDemands ==
  ASSUME IInv, Demanded, Running, More, NEW S \in SUBSET DOMAIN blocks,
         \A i \in S : blocks[i].owners = {}, Insert(S), request' = request
  PROVE  Demanded'
<1> DEFINE D == DOMAIN blocks \ S
           n == next_block_id
           bs == [i \in D \cup {n} |-> IF i = n THEN NewBlock ELSE blocks[i]]
<1>1. Accessed(bs, n)
  <2>1. WithoutVictim(S).blocks = [i \in D |-> blocks[i]]
    BY DEF WithoutVictim
  <2>2. [i \in DOMAIN WithoutVictim(S).blocks \cup {n} |->
           IF i = n THEN NewBlock ELSE WithoutVictim(S).blocks[i]] = bs
    BY <2>1
  <2> HIDE DEF bs
  <2> QED
    BY <2>2 DEF Insert
<1>2. /\ n \in Nat /\ n \notin DOMAIN blocks /\ clock \in Nat
      /\ \A i \in DOMAIN blocks : blocks[i] \in Block
  BY DEF IInv, Table
<1>3. /\ NewBlock \in Block /\ NewBlock.group = Groups[Group].name
      /\ NewBlock.key = NextKey
  BY <1>2, NextAccess DEF NewBlock, Block
<1>4. owned \subseteq D
  BY DEF IInv, Owns
<1>5. /\ DOMAIN bs = D \cup {n} /\ bs[n] = NewBlock
      /\ \A i \in D : bs[i] = blocks[i]
  BY <1>2
<1> HIDE DEF bs
<1>6. \A i \in DOMAIN bs : bs[i] \in Block
  BY <1>2, <1>3, <1>5
<1>7. \A i \in owned : i \in DOMAIN bs /\ bs[i] = blocks[i]
  BY <1>4, <1>5
<1>8. n \in DOMAIN bs /\ bs[n].group = Groups[Group].name /\ bs[n].key = NextKey
  BY <1>3, <1>5
<1> QED
  BY <1>1, <1>2, <1>6, <1>7, <1>8, AccessDemands

-----------------------------------------------------------------------------
(* Counting: what the request owns is at most what it needs.               *)

KeysOf(r) == {Key(r, n) : n \in 1..Steps(r)}
Share(r, g) == IF Groups[g].mode = "full" THEN Cardinality(KeysOf(r)) ELSE Groups[g].window_blocks
Needing(r, f) ==
  f = [g \in 0..Len(Groups) |-> IF g = 0 THEN 0 ELSE f[g - 1] + Share(r, g)]

LEMMA NeedingExists == ASSUME NEW r PROVE \E f : Needing(r, f)
<1> DEFINE L(n, f) == f = [g \in 0..n |-> IF g = 0 THEN 0 ELSE f[g - 1] + Share(r, g)]
           T == {n \in Nat : ~\E f : L(n, f)}
<1>1. T = {}
  <2> SUFFICES ASSUME T # {} PROVE FALSE
    OBVIOUS
  <2>1. PICK n \in T : \A m \in T : ~(m < n)
    BY LeastNatural
  <2>2. CASE n = 0
    <3> DEFINE h == [g \in 0..0 |-> 0]
    <3>1. L(0, h)
      OBVIOUS
    <3> QED
      BY <2>2, <3>1
  <2>3. CASE n # 0
    <3>0. n \in Nat /\ n - 1 \in Nat /\ n - 1 < n
      BY <2>3
    <3>1. n - 1 \in Nat /\ n - 1 \notin T
      BY <2>1, <3>0, Zenon
    <3>2. PICK f : L(n - 1, f)
      BY <3>1
    <3> DEFINE h == [g \in 0..n |-> IF g = n THEN f[n - 1] + Share(r, n) ELSE f[g]]
    <3>3. \A g \in 0..n : h[g] = IF g = 0 THEN 0 ELSE h[g - 1] + Share(r, g)
      BY <2>3, <3>0, <3>2
    <3>4. L(n, h)
      BY <3>3
    <3> QED
      BY <3>4
  <2> QED
    BY <2>2, <2>3
<1>2. Len(Groups) \in Nat
  BY GroupAssumption
<1> QED
  BY <1>1, <1>2 DEF Needing

LEMMA NeedIs ==
  ASSUME NEW r
  PROVE  \E f : Needing(r, f) /\ Need(r) = f[Len(Groups)]
<1> DEFINE f == CHOOSE h : Needing(r, h)
<1>1. Needing(r, f)
  BY NeedingExists, Zenon
<1>2. Need(r) = f[Len(Groups)]
  BY DEF Need, Needing, Share, KeysOf
<1> QED
  BY <1>1, <1>2

OwnedIn(g) == {i \in owned : InGroup(i, g)}

LEMMA OwnedFinite ==
  ASSUME IInv
  PROVE  IsFiniteSet(owned)
<1>1. owned \in SUBSET DOMAIN blocks /\ IsFiniteSet(DOMAIN blocks)
  BY DEF IInv, Owns, Table
<1> QED
  BY <1>1, FS_Subset

LEMMA KeysFinite ==
  ASSUME NEW r \in Requests
  PROVE  IsFiniteSet(KeysOf(r))
<1> DEFINE f == [n \in 1..Steps(r) |-> Key(r, n)]
<1>1. Steps(r) \in Nat
  <2>1. Len(r.prompt_blocks) \in Nat /\ Generated(r) \in Nat
    BY RequestAssumption DEF Generated, None
  <2> QED
    BY <2>1 DEF Steps
<1>2. f \in Surjection(1..Steps(r), KeysOf(r))
  BY DEF Surjection, KeysOf
<1>3. IsFiniteSet(1..Steps(r))
  BY <1>1, FS_Interval
<1> HIDE DEF f
<1> QED
  BY <1>2, <1>3, FS_Surjection

LEMMA OwnedInGroup ==
  ASSUME IInv, Demanded, request # Idle, NEW g \in 1..Len(Groups)
  PROVE  /\ IsFiniteSet(OwnedIn(g)) /\ Cardinality(OwnedIn(g)) \in Nat
         /\ Share(request, g) \in Nat
         /\ Cardinality(OwnedIn(g)) <= Share(request, g)
<1>1. request \in Requests
  BY DEF IInv, LocalsOK
<1>2. IsFiniteSet(OwnedIn(g)) /\ Cardinality(OwnedIn(g)) \in Nat
  BY OwnedFinite, FS_Subset, FS_CardinalityType DEF OwnedIn
<1>3. IsFiniteSet(KeysOf(request)) /\ Cardinality(KeysOf(request)) \in Nat
  BY <1>1, KeysFinite, FS_CardinalityType
<1>4. Groups[g].window_blocks \in Nat /\ Groups[g].mode \in {"full", "sliding"}
  BY GroupType
<1>5. CASE Groups[g].mode = "full"
  <2> DEFINE f == [i \in OwnedIn(g) |-> blocks[i].key]
  <2>1. \A i \in OwnedIn(g) : /\ i \in DOMAIN blocks
                              /\ blocks[i].group = Groups[g].name
                              /\ blocks[i].key \in KeysOf(request)
    BY DEF IInv, Owns, OwnedIn, InGroup, Demanded, Asked, KeysOf
  <2>2. \A i, j \in OwnedIn(g) : blocks[i].key = blocks[j].key => i = j
    <3>1. \A i \in OwnedIn(g) : key_index[<<Groups[g].name, blocks[i].key>>] = i
      BY <2>1 DEF IInv, Indexed, Ident
    <3> QED
      BY <3>1
  <2>3. f \in Injection(OwnedIn(g), KeysOf(request))
    BY <2>1, <2>2 DEF Injection, IsInjective
  <2> HIDE DEF f
  <2>4. Cardinality(OwnedIn(g)) <= Cardinality(KeysOf(request))
    BY <1>3, <2>3, FS_Injection
  <2> QED
    BY <1>2, <1>3, <1>5, <2>4 DEF Share
<1>6. CASE Groups[g].mode = "sliding"
  <2> DEFINE w == windows[g]
             E == {w[m] : m \in 1..Len(w)}
             f == [m \in 1..Len(w) |-> w[m]]
  <2>1. w \in Seq(Nat) /\ Len(w) \in Nat /\ Len(w) <= Groups[g].window_blocks
    BY <1>6 DEF IInv, LocalsOK, Demanded
  <2>2. OwnedIn(g) \subseteq E
    BY <1>6 DEF OwnedIn, InGroup, InWindow
  <2> HIDE DEF w
  <2>3. f \in Surjection(1..Len(w), E)
    BY DEF Surjection
  <2>4. ExistsSurjection(1..Len(w), E)
    BY <2>3 DEF ExistsSurjection
  <2> HIDE DEF E
  <2>5. IsFiniteSet(E) /\ Cardinality(E) <= Len(w) /\ Cardinality(E) \in Nat
    BY <2>1, <2>4, FS_NatSurjection, FS_SurjCardinalityBound, FS_CardinalityType
  <2>6. Cardinality(OwnedIn(g)) <= Cardinality(E)
    BY <2>2, <2>5, FS_Subset
  <2> QED
    BY <1>2, <1>4, <1>6, <2>1, <2>5, <2>6 DEF Share
<1> QED
  BY <1>2, <1>4, <1>5, <1>6

LEMMA OwnedIsNeeded ==
  ASSUME IInv, Demanded, request # Idle
  PROVE  Cardinality(owned) <= Need(request) /\ Need(request) \in Nat
<1> DEFINE U(g) == {i \in owned : \E h \in 1..g : InGroup(i, h)}
<1>1. PICK f : Needing(request, f) /\ Need(request) = f[Len(Groups)]
  BY NeedIs
<1>2. Len(Groups) \in Nat
  BY GroupAssumption
<1>3. /\ f[0] = 0
      /\ \A g \in 1..Len(Groups) : f[g] = f[g - 1] + Share(request, g)
  BY <1>1, <1>2 DEF Needing
<1>4. \A g \in 0..Len(Groups) : IsFiniteSet(U(g)) /\ Cardinality(U(g)) \in Nat
  BY OwnedFinite, FS_Subset, FS_CardinalityType
<1> DEFINE Good(g) == f[g] \in Nat /\ Cardinality(U(g)) <= f[g]
           T == {g \in 0..Len(Groups) : ~Good(g)}
<1>5. T = {}
  <2> SUFFICES ASSUME T # {} PROVE FALSE
    OBVIOUS
  <2>0. T \subseteq Nat
    OBVIOUS
  <2>1. PICK g \in T : \A m \in T : ~(m < g)
    BY <2>0, LeastNatural, Zenon
  <2>2. CASE g = 0
    <3>1. U(0) = {}
      OBVIOUS
    <3>2. Cardinality(U(0)) = 0
      BY <3>1, FS_EmptySet
    <3> QED
      BY <1>3, <2>2, <3>2
  <2>3. CASE g # 0
    <3>1. /\ g \in 1..Len(Groups) /\ g - 1 \in 0..Len(Groups) /\ g - 1 < g
      BY <1>2, <2>3
    <3>2. g - 1 \notin T
      BY <2>1, <3>1, Zenon
    <3>3. Good(g - 1)
      BY <3>1, <3>2
    <3>4. U(g) = U(g - 1) \cup OwnedIn(g)
      BY <3>1 DEF OwnedIn
    <3>5. /\ IsFiniteSet(OwnedIn(g)) /\ Cardinality(OwnedIn(g)) \in Nat
          /\ Share(request, g) \in Nat
          /\ Cardinality(OwnedIn(g)) <= Share(request, g)
      BY <3>1, OwnedInGroup
    <3>6. IsFiniteSet(U(g - 1)) /\ Cardinality(U(g - 1)) \in Nat
      BY <1>4, <3>1
    <3> HIDE DEF U
    <3>7. Cardinality(U(g)) <= Cardinality(U(g - 1)) + Cardinality(OwnedIn(g))
      <4>1. Cardinality(U(g)) = Cardinality(U(g - 1)) + Cardinality(OwnedIn(g))
                                  - Cardinality(U(g - 1) \cap OwnedIn(g))
        BY <3>4, <3>5, <3>6, FS_Union
      <4>2. Cardinality(U(g - 1) \cap OwnedIn(g)) \in Nat
        <5>1. U(g - 1) \cap OwnedIn(g) \in SUBSET U(g - 1)
          OBVIOUS
        <5> QED
          BY <3>6, <5>1, FS_Subset, FS_CardinalityType
      <4> QED
        BY <3>5, <3>6, <4>1, <4>2
    <3>8. Cardinality(U(g)) \in Nat
      BY <1>4
    <3> QED
      BY <1>3, <3>1, <3>3, <3>5, <3>6, <3>7, <3>8
  <2> QED
    BY <2>2, <2>3
<1>6. Good(Len(Groups))
  <2>1. Len(Groups) \in 0..Len(Groups)
    BY <1>2
  <2> HIDE DEF Good
  <2> QED
    BY <1>5, <2>1, Zenon
<1>7. U(Len(Groups)) = owned
  BY DEF Demanded
<1> QED
  BY <1>1, <1>6, <1>7

(* While a block is free of owners, the LRU fallback finds a victim.       *)
LEMMA LeastRecentExists ==
  ASSUME IInv, _evictable # {}, NEW now
  PROVE  _valid(Ranked("lru", now))
<1> DEFINE E == _evictable
<1>0. /\ DOMAIN blocks \subseteq Nat
      /\ \A i \in DOMAIN blocks : blocks[i] \in Block
  BY DEF IInv, Table
<1>1. /\ E \subseteq Nat /\ E \subseteq DOMAIN blocks
      /\ \A i \in E : blocks[i].last_used \in Nat /\ blocks[i].owners = {}
  BY <1>0 DEF Block, _evictable
<1> DEFINE times == {blocks[i].last_used : i \in E}
<1>2. times \subseteq Nat /\ times # {}
  BY <1>1
<1>3. PICK t \in times : \A u \in times : ~(u < t)
  BY <1>2, LeastNatural, Zenon
<1> DEFINE oldest == {i \in E : blocks[i].last_used = t}
<1>4. oldest \subseteq Nat /\ oldest # {}
  BY <1>1, <1>3
<1>5. PICK i \in oldest : \A j \in oldest : ~(j < i)
  BY <1>4, LeastNatural, Zenon
<1>6. \A j \in E : Rank("lru", j, now) = <<0, blocks[j].last_used, j>>
  BY DEF Rank
<1>7. ASSUME NEW j \in E \ {i}
      PROVE  Less(Rank("lru", i, now), Rank("lru", j, now))
  <2>1. /\ i \in E /\ blocks[i].last_used = t /\ i \in Nat /\ j \in Nat /\ i # j
        /\ t \in Nat /\ blocks[j].last_used \in Nat /\ ~(blocks[j].last_used < t)
    BY <1>1, <1>3, <1>5
  <2>2. blocks[j].last_used = t => i < j
    BY <1>5, <2>1
  <2>3. t < blocks[j].last_used \/ (t = blocks[j].last_used /\ i < j)
    BY <2>1, <2>2
  <2> QED
    BY <1>6, <2>1, <2>3 DEF Less
<1>8. \E x \in E : \A j \in E \ {x} : Less(Rank("lru", x, now), Rank("lru", j, now))
  <2>1. i \in E
    BY <1>5
  <2> QED
    BY <1>7, <2>1
<1> DEFINE x == CHOOSE x \in _evictable :
                  \A j \in _evictable \ {x} : Less(Rank("lru", x, now), Rank("lru", j, now))
<1>9. x \in E
  BY <1>8
<1>10. Ranked("lru", now) = <<x>>
  BY DEF Ranked
<1> HIDE DEF x
<1>11. Len(<<x>>) = 1 /\ <<x>>[1] = x
  OBVIOUS
<1>12. x \in DOMAIN blocks /\ blocks[x].owners = {}
  BY <1>1, <1>9
<1> QED
  BY <1>10, <1>11, <1>12 DEF _valid

(* The authority gives up only when the request owns the whole cache.      *)
LEMMA ExhaustedIsFull ==
  ASSUME IInv, Demanded, request # Idle, NEW proposal, NEW now,
         authorize_eviction(proposal, now) = <<>>,
         Cardinality(DOMAIN blocks) >= capacity_blocks
  PROVE  Need(request) >= capacity_blocks
<1>1. _evictable = {}
  <2> SUFFICES ASSUME _evictable # {} PROVE FALSE
    OBVIOUS
  <2>1. _valid(Ranked("lru", now))
    BY LeastRecentExists
  <2>2. Ranked("lru", now) # <<>>
    BY DEF Ranked
  <2>3. <<proposal[1]>> # <<>>
    OBVIOUS
  <2> QED
    BY <2>1, <2>2, <2>3 DEF authorize_eviction
<1>2. owned = DOMAIN blocks
  BY <1>1 DEF IInv, Owns, _evictable
<1>3. Cardinality(owned) <= Need(request) /\ Need(request) \in Nat
  BY OwnedIsNeeded
<1>4. Cardinality(owned) \in Nat
  BY OwnedFinite, FS_CardinalityType
<1> QED
  BY <1>2, <1>3, <1>4, CapacityAssumption

LEMMA DemandedInit == Init => Demanded
  BY DEF Init, Demanded

(* Steps that leave the running request and what it owns alone.            *)
LEMMA DemandedKept ==
  ASSUME Demanded, UNCHANGED <<blocks, request, owned, windows>>
  PROVE  Demanded'
  BY DEF Demanded, Asked, InGroup, InWindow

LEMMA EvictDemands ==
  ASSUME IInv, Demanded, evict
  PROVE  /\ Demanded'
         /\ raised' # "no" => Need(request) >= capacity_blocks
<1>1. /\ Running /\ More /\ request # Idle /\ raised = "no" /\ request' = request
      /\ Cardinality(DOMAIN blocks) >= capacity_blocks
  BY DEF evict, Running
<1>2. PICK proposal \in Proposals(policy, clock + 1) :
        LET victims == authorize_eviction(proposal, clock + 1)
            unused == \A n \in 1..Len(victims) : blocks[victims[n]].owners = {}
        IN \/ /\ victims # <<>> /\ unused
              /\ Insert({victims[1]})
           \/ /\ ~(victims # <<>> /\ unused)
              /\ raised' = (IF victims = <<>> THEN "exhausted" ELSE "live")
              /\ clock' = clock + 1
              /\ UNCHANGED <<blocks, key_index, next_block_id, accesses, owned, windows>>
  BY DEF evict
<1> DEFINE v == authorize_eviction(proposal, clock + 1)
<1>3. v = <<>> \/ /\ Len(v) = 1
                  /\ v[1] \in DOMAIN blocks
                  /\ blocks[v[1]].owners = {}
  BY AuthorityIsSafe
<1>4. \/ v # <<>> /\ Insert({v[1]})
      \/ v = <<>> /\ UNCHANGED <<blocks, owned, windows>>
  <2> HIDE DEF v
  <2>1. v # <<>> => \A n \in 1..Len(v) : blocks[v[n]].owners = {}
    <3> SUFFICES ASSUME v # <<>>, NEW n \in 1..Len(v) PROVE blocks[v[n]].owners = {}
      OBVIOUS
    <3>1. Len(v) = 1 /\ blocks[v[1]].owners = {}
      BY <1>3
    <3>2. n = 1
      BY <3>1
    <3> QED
      BY <3>1, <3>2
  <2> QED
    BY <1>2, <2>1 DEF v
<1>5. CASE v # <<>> /\ Insert({v[1]})
  <2> DEFINE S == {v[1]}
  <2> HIDE DEF v
  <2>1. S \in SUBSET DOMAIN blocks /\ \A i \in S : blocks[i].owners = {}
    BY <1>3, <1>5
  <2>2. Insert(S)
    BY <1>5
  <2>3. raised' = raised
    BY <2>2 DEF Insert
  <2> HIDE DEF S
  <2>4. Demanded'
    BY <1>1, <2>1, <2>2, InsertDemands
  <2> QED
    BY <1>1, <2>3, <2>4
<1>6. CASE v = <<>> /\ UNCHANGED <<blocks, owned, windows>>
  <2>1. Demanded'
    BY <1>1, <1>6, DemandedKept
  <2>2. Need(request) >= capacity_blocks
    BY <1>1, <1>6, ExhaustedIsFull
  <2> QED
    BY <2>1, <2>2
<1> QED
  BY <1>4, <1>5, <1>6

LEMMA DemandedStep ==
  ASSUME IInv, Demanded, RaisesOnlyWhenTooBig, [Next]_vars
  PROVE  Demanded' /\ RaisesOnlyWhenTooBig'
<1>0. request' = request => Need(request)' = Need(request)
  BY DEF Need, Key, Steps, Generated, generated_key
<1>1. ASSUME NEW r \in Requests, process(r) PROVE Demanded' /\ raised' = "no"
  <2>1. owned' = {} /\ windows' = NoWindows /\ raised' = "no"
    BY <1>1 DEF process
  <2>2. \A g \in 1..Len(Groups) : Len(windows'[g]) = 0 /\ Groups[g].window_blocks \in Nat
    BY <2>1, GroupType DEF NoWindows
  <2> QED
    BY <2>1, <2>2 DEF Demanded
<1>2. CASE hit
  <2>1. raised' = "no"
    BY <1>2 DEF hit, Running
  <2> QED
    BY <1>2, <2>1, HitDemands DEF RaisesOnlyWhenTooBig
<1>3. CASE miss
  <2>1. /\ Running /\ More /\ Insert({}) /\ request' = request /\ {} \in SUBSET DOMAIN blocks
    BY <1>3 DEF miss
  <2>2. raised' = "no"
    BY <2>1 DEF Insert, Running
  <2>3. Demanded'
    BY <2>1, InsertDemands
  <2> QED
    BY <2>2, <2>3 DEF RaisesOnlyWhenTooBig
<1>4. CASE evict
  <2>1. request' = request
    BY <1>4 DEF evict
  <2> QED
    BY <1>0, <1>4, <2>1, EvictDemands DEF RaisesOnlyWhenTooBig
<1>5. CASE release
  BY <1>5 DEF release, Running, Demanded, RaisesOnlyWhenTooBig
<1>6. CASE checkpoint
  <2>1. UNCHANGED <<blocks, request, owned, windows, raised>>
    BY <1>6 DEF checkpoint, cache, locals
  <2> QED
    BY <1>0, <2>1, DemandedKept DEF RaisesOnlyWhenTooBig
<1>7. ASSUME NEW p \in Policies, simulator(p) PROVE Demanded' /\ RaisesOnlyWhenTooBig'
  BY <1>7 DEF simulator, Demanded, RaisesOnlyWhenTooBig
<1>8. CASE restore_state
  <2>1. request = Idle /\ request' = request /\ raised' = raised
    BY <1>8 DEF restore_state, locals
  <2> QED
    BY <1>0, <2>1 DEF Demanded, RaisesOnlyWhenTooBig
<1>9. CASE UNCHANGED vars
  <2>1. UNCHANGED <<blocks, request, owned, windows, raised>>
    BY <1>9 DEF vars, cache, locals
  <2> QED
    BY <1>0, <2>1, DemandedKept DEF RaisesOnlyWhenTooBig
<1>10. ASSUME raised' = "no" PROVE RaisesOnlyWhenTooBig'
  BY <1>10 DEF RaisesOnlyWhenTooBig
<1> QED
  BY <1>1, <1>2, <1>3, <1>4, <1>5, <1>6, <1>7, <1>8, <1>9, <1>10 DEF Next

(* A request is refused a block only when its own blocks fill the cache:   *)
(* no policy, however bad its proposals, makes a smaller request fail.     *)
THEOREM RaisesTheorem == Spec => []RaisesOnlyWhenTooBig
<1> DEFINE J == Demanded /\ RaisesOnlyWhenTooBig
<1>1. Init => J
  BY DemandedInit DEF Init, RaisesOnlyWhenTooBig
<1>2. IInv /\ J /\ [Next]_vars => J'
  BY DemandedStep
<1>3. J => RaisesOnlyWhenTooBig
  OBVIOUS
<1> HIDE DEF J
<1> QED
  BY <1>1, <1>2, <1>3, CacheInvariance, PTL DEF Spec
=============================================================================

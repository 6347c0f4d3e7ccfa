---------------------------- MODULE MCCacheForge ----------------------------
(* Instance of CacheForge for TLC.                                         *)
EXTENDS CacheForge

\* DEFAULT_GROUPS with a window of one block
MCGroups == << [name |-> "full", mode |-> "full", window_blocks |-> 0],
               [name |-> "sliding", mode |-> "sliding", window_blocks |-> 1] >>

MCKey(name, shared) == [kind |-> "prompt", shared |-> shared, name |-> name, index |-> 0]
MCSystem == MCKey("s", TRUE)
MCUser == MCKey("u", FALSE)
MCOther == MCKey("v", FALSE)
MCKeys == {MCSystem, MCUser, MCOther}

Trace(id, prompt, generated, cancel) ==
  [request_id |-> id, prompt_blocks |-> prompt, generated_blocks |-> generated,
   cancel_after_generated |-> cancel]

\* A shared prefix, a repeated block, a cancellation, generated blocks, and a
\* request larger than the cache.
MCRequests ==
  { Trace("r1", <<MCSystem, MCUser>>, 0, None), Trace("r2", <<MCSystem>>, 2, 1),
    Trace("r3", <<MCUser, MCUser>>, 1, None), Trace("r4", <<MCOther>>, 1, 1),
    Trace("r5", <<MCSystem, MCUser, MCOther>>, 1, None) }

MCRequestIds == {"r1", "r2", "r3", "r4", "r5"}
=============================================================================

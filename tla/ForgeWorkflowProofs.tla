------------------------ MODULE ForgeWorkflowProofs ------------------------
(***************************************************************************)
(* Proofs about the Forge workflow wrapper, for every cap, every supported *)
(* range and every amount of output.                                       *)
(***************************************************************************)
EXTENDS ForgeWorkflow, TLAPS

Loop == {"while", "select", "poll", "for"}
Terminating == {"_terminate", "killpg", "wait_term", "killpg_again", "wait_kill"}

Types ==
  /\ request \in [declared : BOOLEAN, command : Commands, output_bytes : OutputBytes]
  /\ pc \in Loop \cup Terminating \cup {"main", "finally", "report", "done"}
  /\ after \in {"finally", "report"} /\ raising \in BOOLEAN
  /\ selector \subseteq Streams /\ events \subseteq Streams
  /\ outputs \in [Streams -> Nat] /\ written \in [Streams -> Nat]
  /\ pipe \in [Streams -> {0, 1}] /\ writers \in [Streams -> SUBSET Writers]
  /\ child \in [state : {"none", "running", "exiting", "zombie", "reaped"}, code : Int]

(* What was written was read or is still in the pipe.                      *)
Conserved == \A s \in Streams : outputs[s] + pipe[s] = written[s]

(* The outcome is "completed" from Popen until something else is known,    *)
(* and while it is, nothing has passed the cap.                            *)
WithinCap ==
  /\ pc \in Loop => outcome = "completed"
  /\ pc = "main" => outcome = "none" /\ outputs = Zero
  /\ outcome = "completed" => PolicySupported(output_cap) /\ \A s \in Streams : outputs[s] <= output_cap

(* A stream leaves the selector at its end, and the loop ends as completed *)
(* only when every stream has ended.                                       *)
EndSeen ==
  /\ pc \in Loop => \A s \in Streams \ selector : Eof(s)
  /\ pc \notin Loop /\ outcome = "completed" => \A s \in Streams : Eof(s)

Reaped ==
  /\ pc = "main" => child.state = "none"
  /\ pc = "report" /\ ~raising => child.state = "reaped"
  /\ NoChildLeft

Judged ==
  /\ pc # "done" => status = "none"
  /\ status = "PASS" =>
       outcome = "completed" /\ ~raising /\ child = [state |-> "reaped", code |-> 0]

(* While the outcome is "completed" only the finally clause sends signals. *)
Signals ==
  /\ pc \in Loop \cup {"main"} => signalled = "none"
  /\ outcome = "completed" /\ (signalled # "none" \/ pc \in Terminating) => after = "report"

IInv == Signals /\ Types /\ Conserved /\ WithinCap /\ OutputBounded /\ EndSeen /\ Reaped /\ Judged

LEMMA InitHolds == Init => IInv
<1> SUFFICES ASSUME Init PROVE IInv
  OBVIOUS
<1> USE DEF Init, Zero, Loop, Terminating, Streams
<1>1. Types
  <2>1. request \in [declared : BOOLEAN, command : Commands, output_bytes : OutputBytes]
    BY Zenon
  <2>2. outputs \in [Streams -> Nat] /\ written \in [Streams -> Nat] /\ pipe \in [Streams -> {0, 1}]
    OBVIOUS
  <2>3. writers \in [Streams -> SUBSET Writers]
    OBVIOUS
  <2>4. child \in [state : {"none", "running", "exiting", "zombie", "reaped"}, code : Int]
    OBVIOUS
  <2> HIDE DEF Streams
  <2> QED
    BY <2>1, <2>2, <2>3, <2>4 DEF Types
<1>2. Conserved /\ OutputBounded /\ WithinCap /\ EndSeen
  BY DEF Conserved, OutputBounded, WithinCap, EndSeen
<1>3. Reaped /\ Judged /\ Signals
  BY DEF Reaped, Judged, Signals, NoChildLeft
<1> QED
  BY <1>1, <1>2, <1>3 DEF IInv

(* The supervisor's own steps.                                             *)
LEMMA SuperviseKeeps == IInv /\ Supervise => IInv'
<1> SUFFICES ASSUME IInv, Supervise PROVE IInv'
  OBVIOUS
<1> USE LimitsAssumption DEF IInv, PolicySupported, Types, Conserved, WithinCap, OutputBounded, EndSeen, Reaped, Signals, Judged,
      NoChildLeft, Loop, Terminating, Streams, output_cap, Eof, Polled, Reap, processes
<1>1. CASE refuse
  BY <1>1 DEF refuse, Finish, PolicySupported, Zero
<1>2. CASE Popen
  BY <1>2 DEF Popen, PolicySupported, Zero, Writers
<1>3. CASE while
  BY <1>3 DEF while
<1>4. CASE select
  BY <1>4 DEF select
<1>5. CASE poll
  BY <1>5 DEF poll
<1>6. CASE end_for
  BY <1>6 DEF end_for
<1>7. ASSUME NEW s \in Streams, read(s) PROVE IInv'
  <2> USE <1>7 DEF read, Ready
  <2>1. Types'
    OBVIOUS
  <2>2. Conserved'
    OBVIOUS
  <2>3. outputs'[s] <= output_cap + 1 /\ PolicySupported(output_cap)
    OBVIOUS
  <2>4. WithinCap' /\ OutputBounded'
    BY <2>3
  <2>5. EndSeen'
    OBVIOUS
  <2>6. Reaped' /\ Judged' /\ Signals'
    OBVIOUS
  <2> QED
    BY <2>1, <2>2, <2>4, <2>5, <2>6
<1>8. CASE _terminate
  BY <1>8 DEF _terminate
<1>9. CASE killpg
  BY <1>9 DEF killpg
<1>10. CASE wait_term
  BY <1>10 DEF wait_term
<1>11. CASE wait_kill
  BY <1>11 DEF wait_kill
<1>12. CASE finally
  BY <1>12 DEF finally
<1>13. CASE report
  BY <1>13 DEF report, Finish, StatusOf
<1> QED
  BY <1>1, <1>2, <1>3, <1>4, <1>5, <1>6, <1>7, <1>8, <1>9, <1>10, <1>11, <1>12, <1>13
  DEF Supervise

(* The steps of the child, the helper and the clock.                       *)
LEMMA ProcessesKeep ==
  ASSUME IInv
  PROVE  /\ \A w \in Writers, s \in Streams : write(w, s) \/ close(w, s) => IInv'
         /\ fork => IInv'
         /\ \A code \in {-1, 0, 1} : child_exit(code) => IInv'
         /\ child_zombie \/ helper_exit \/ deadline => IInv'
<1> USE DEF IInv, PolicySupported, Types, Conserved, WithinCap, OutputBounded, EndSeen, Reaped, Signals,
      Judged, NoChildLeft, Loop, Terminating, Streams, output_cap, Eof, processes, supervisor
<1>1. ASSUME NEW w \in Writers, NEW s \in Streams, write(w, s) PROVE IInv'
  BY <1>1 DEF write, Running
<1>2. ASSUME NEW w \in Writers, NEW s \in Streams, close(w, s) PROVE IInv'
  BY <1>2 DEF close, Running
<1>3. ASSUME fork PROVE IInv'
  BY <1>3 DEF fork
<1>4. ASSUME NEW code \in {-1, 0, 1}, child_exit(code) PROVE IInv'
  BY <1>4 DEF child_exit
<1>5. ASSUME child_zombie PROVE IInv'
  BY <1>5 DEF child_zombie
<1>6. ASSUME helper_exit PROVE IInv'
  BY <1>6 DEF helper_exit
<1>7. ASSUME deadline PROVE IInv'
  BY <1>7 DEF deadline
<1> QED
  BY <1>1, <1>2, <1>3, <1>4, <1>5, <1>6, <1>7

(* The inductive invariant: the accounting of written, piped and collected *)
(* output against the phases of run_workflow and the life of the child.    *)
THEOREM WorkflowInvariance == Spec => []IInv
<1>1. IInv /\ [Next]_vars => IInv'
  <2> SUFFICES ASSUME IInv, [Next]_vars PROVE IInv'
    OBVIOUS
  <2>1. CASE Next
    BY <2>1, SuperviseKeeps, ProcessesKeep DEF Next
  <2>2. CASE UNCHANGED vars
    BY <2>2 DEF vars, supervisor, processes, IInv, Types, Conserved, WithinCap, OutputBounded,
      EndSeen, Reaped, Signals, Judged, NoChildLeft, output_cap, Eof
  <2> QED
    BY <2>1, <2>2
<1> QED
  BY InitHolds, <1>1, PTL DEF Spec

(* A reported PASS vouches for the whole output: exit code 0, every unit   *)
(* written by the child or its helper collected, none beyond the cap, and  *)
(* no signal but one of the finally clause, sent after both streams ended. *)
THEOREM PassTheorem == Spec => []PassHasWholeOutput
<1>1. IInv => PassHasWholeOutput
  BY DEF IInv, Types, PassHasWholeOutput, Judged, Signals, EndSeen, Conserved, WithinCap, Eof, Loop, Streams
<1> QED
  BY WorkflowInvariance, <1>1, PTL

(* run_workflow reports a result only for a child that was reaped, or for  *)
(* none.                                                                   *)
THEOREM NoChildTheorem == Spec => []NoChildLeft
<1>1. IInv => NoChildLeft
  BY DEF IInv, Reaped
<1> QED
  BY WorkflowInvariance, <1>1, PTL

(* A stream never holds more than one read of 64 KiB (the unit of output)  *)
(* beyond the cap, and nothing under a cap the policy does not support.    *)
THEOREM OutputTheorem == Spec => []OutputBounded
<1>1. IInv => OutputBounded
  BY DEF IInv
<1> QED
  BY WorkflowInvariance, <1>1, PTL
============================================================================

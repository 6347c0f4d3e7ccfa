--------------------------- MODULE ForgeWorkflow ---------------------------
(***************************************************************************)
(* The Forge workflow wrapper: main of forge_workflow_hardened.py, then    *)
(* run_workflow of forge_workflow.py, which supervises one child process   *)
(* through a selector over its two pipes, a deadline and an output cap,    *)
(* and reports a status.                                                   *)
(*                                                                         *)
(* Beside the supervisor run the child and a helper: a process the child   *)
(* started, which inherited the pipes and the process group.  Output is    *)
(* counted in units of one pipe buffer (64 KiB is both the size of a pipe  *)
(* and of a read).                                                         *)
(***************************************************************************)
EXTENDS Integers, FiniteSets

CONSTANTS
  OutputBytes,            \* values of limits.output_bytes in mncs-forge.toml
  PolicyMin, PolicyMax,   \* the supported range of output_bytes
  HelperAllowed,          \* whether the child may start a helper
  MaxWrites               \* bound: units written to one pipe

ASSUME LimitsAssumption ==
  /\ OutputBytes \subseteq Int
  /\ PolicyMin \in Nat /\ PolicyMax \in Nat
  /\ HelperAllowed \in BOOLEAN /\ MaxWrites \in Nat

Streams == {"stdout", "stderr"}
Writers == {"child", "helper"}
Zero == [s \in Streams |-> 0]

(* What argv[0] may name: a path or a bare command, and what it leads to.  *)
Commands ==
  [form : {"bare", "absolute", "relative"}, found : BOOLEAN,
   in_root : BOOLEAN, executable : BOOLEAN]

VARIABLES
  request,     \* [declared, command, output_bytes]: arguments and configuration
  pc,          \* where the supervisor is
  after,       \* where _terminate returns to
  raising,     \* a TimeoutExpired of process.wait is propagating
  outcome, status,
  selector,    \* registered streams
  events,      \* streams still to read in this iteration
  outputs,     \* units collected per stream
  expired,     \* the deadline has passed
  child,       \* [state, code]
  helper,      \* "absent", "running", "gone"
  signalled,   \* the strongest signal sent to the process group
  pipe,        \* units in each pipe
  writers,     \* who holds the write end of each pipe
  written      \* units ever written to each pipe

supervisor == <<pc, after, raising, outcome, status, selector, events, outputs>>
processes == <<child, helper, pipe, writers, written>>
vars == <<request, supervisor, expired, processes, signalled>>

-----------------------------------------------------------------------------
(* _resolve_executable and shutil_which: only a relative path is confined  *)
(* to the repository root; a bare command must be found executable.        *)
_resolve_executable(c) ==
  /\ c.found /\ c.executable
  /\ c.form = "relative" => c.in_root

(* load_forge_workflow_policy refuses a cap outside the supported range.   *)
PolicySupported(n) == n \in PolicyMin..PolicyMax

output_cap == request.output_bytes

Polled == child.state \in {"zombie", "reaped"}   \* process.poll() is not None
Reap == IF Polled THEN [child EXCEPT !.state = "reaped"] ELSE child

Eof(s) == pipe[s] = 0 /\ writers[s] = {}
Ready(s) == pipe[s] > 0 \/ writers[s] = {}

Init ==
  /\ request \in [declared : BOOLEAN, command : Commands, output_bytes : OutputBytes]
  /\ request.command.form # "relative" => request.command.in_root
  /\ pc = "main" /\ after = "finally" /\ raising = FALSE
  /\ outcome = "none" /\ status = "none"
  /\ selector = {} /\ events = {} /\ outputs = Zero
  /\ expired = FALSE
  /\ child = [state |-> "none", code |-> 0] /\ helper = "absent"
  /\ signalled = "none"
  /\ pipe = Zero /\ writers = [s \in Streams |-> {}] /\ written = Zero

-----------------------------------------------------------------------------
(* The supervisor.                                                         *)

Finish(o, st) == pc' = "done" /\ outcome' = o /\ status' = st

(* An unsupported policy is a ValueError that nothing catches; arguments   *)
(* that name no declared workflow, and a command that does not resolve to  *)
(* an executable, are reported as unsupported.                             *)
refuse ==
  /\ pc = "main"
  /\ \/ /\ ~PolicySupported(output_cap)
        /\ Finish("none", "none") /\ raising' = TRUE
     \/ /\ PolicySupported(output_cap)
        /\ ~request.declared \/ ~_resolve_executable(request.command)
        /\ Finish("unsupported", "UNKNOWN") /\ UNCHANGED raising
  /\ UNCHANGED <<request, after, selector, events, outputs, expired, processes, signalled>>

Popen ==
  /\ pc = "main"
  /\ PolicySupported(output_cap)
  /\ request.declared /\ _resolve_executable(request.command)
  /\ child' = [state |-> "running", code |-> 0]
  /\ writers' = [s \in Streams |-> {"child"}]
  /\ selector' = Streams
  /\ outcome' = "completed"
  /\ pc' = "while"
  /\ UNCHANGED <<request, after, raising, status, events, outputs, expired, helper,
                 signalled, pipe, written>>

\* Defect: the remaining time is not looked at.
while_without_deadline ==
  /\ pc = "while"
  /\ pc' = IF selector = {} THEN "finally" ELSE "select"
  /\ UNCHANGED <<request, after, raising, outcome, status, selector, events, outputs,
                 expired, processes, signalled>>

(* The head of the loop: no stream left, or no time left, ends it.         *)
while ==
  /\ pc = "while"
  /\ \/ selector = {} /\ pc' = "finally" /\ UNCHANGED <<after, outcome>>
     \/ /\ selector # {} /\ expired
        /\ outcome' = "timeout"
        /\ pc' = "_terminate" /\ after' = "finally"
     \/ selector # {} /\ ~expired /\ pc' = "select" /\ UNCHANGED <<after, outcome>>
  /\ UNCHANGED <<request, raising, status, selector, events, outputs, expired,
                 processes, signalled>>

(* selector.select: the ready streams, or none after 0.1 s; in that case a *)
(* child that has exited makes the code read every registered stream.      *)
select ==
  /\ pc = "select"
  /\ LET ready == {s \in selector : Ready(s)}
     IN \/ /\ ready # {}
           /\ events' = ready /\ pc' = "for" /\ UNCHANGED child
        \/ /\ ready = {}
           /\ pc' = "poll" /\ UNCHANGED <<events, child>>
  /\ UNCHANGED <<request, after, raising, outcome, status, selector, outputs, expired,
                 helper, signalled, pipe, writers, written>>

(* process.poll() after a silent select.                                   *)
poll ==
  /\ pc = "poll"
  /\ child' = Reap
  /\ events' = IF Polled THEN selector ELSE {}
  /\ pc' = "for"
  /\ UNCHANGED <<request, after, raising, outcome, status, selector, outputs, expired,
                 helper, signalled, pipe, writers, written>>

\* Defect: the cap is compared with the length before the chunk.
read_late_cap(s) ==
  /\ pc = "for" /\ s \in events /\ Ready(s)
  /\ pipe' = [pipe EXCEPT ![s] = 0]
  /\ outputs' = [outputs EXCEPT ![s] = @ + pipe[s]]
  /\ selector' = IF Eof(s) THEN selector \ {s} ELSE selector
  /\ IF outputs[s] > output_cap
     THEN outcome' = "output_limit" /\ events' = {} /\ pc' = "_terminate" /\ after' = "finally"
     ELSE events' = events \ {s} /\ UNCHANGED <<outcome, pc, after>>
  /\ UNCHANGED <<request, raising, status, expired, child, helper, signalled, writers, written>>

(* os.read blocks while a writer holds an empty pipe open.  An empty chunk *)
(* is the end of the stream; one that passes the cap leaves both loops.    *)
read(s) ==
  /\ pc = "for" /\ s \in events /\ Ready(s)
  /\ pipe' = [pipe EXCEPT ![s] = 0]
  /\ outputs' = [outputs EXCEPT ![s] = @ + pipe[s]]
  /\ selector' = IF Eof(s) THEN selector \ {s} ELSE selector
  /\ IF outputs'[s] > output_cap /\ ~Eof(s)
     THEN outcome' = "output_limit" /\ events' = {} /\ pc' = "_terminate" /\ after' = "finally"
     ELSE events' = events \ {s} /\ UNCHANGED <<outcome, pc, after>>
  /\ UNCHANGED <<request, raising, status, expired, child, helper, signalled, writers, written>>

end_for ==
  /\ pc = "for" /\ events = {}
  /\ pc' = "while"
  /\ UNCHANGED <<request, after, raising, outcome, status, selector, events, outputs,
                 expired, processes, signalled>>

(* _terminate: nothing for a child that has exited.                        *)
_terminate ==
  /\ pc = "_terminate"
  /\ child' = Reap
  /\ pc' = IF Polled THEN after ELSE "killpg"
  /\ UNCHANGED <<request, after, raising, outcome, status, selector, events, outputs,
                 expired, helper, signalled, pipe, writers, written>>

(* os.killpg: SIGTERM on the way in, SIGKILL once wait(timeout=1) gave up. *)
(* The call may fail with an OSError: the first failure skips to SIGKILL,  *)
(* the second is passed over.                                              *)
killpg ==
  /\ \/ /\ pc = "killpg" /\ pc' = "wait_term"
        /\ signalled' = IF signalled = "none" THEN "SIGTERM" ELSE signalled
     \/ pc = "killpg" /\ pc' = "killpg_again" /\ UNCHANGED signalled
     \/ pc = "killpg_again" /\ pc' = "wait_kill" /\ signalled' = "SIGKILL"
     \/ pc = "killpg_again" /\ pc' = "wait_kill" /\ UNCHANGED signalled
  /\ UNCHANGED <<request, after, raising, outcome, status, selector, events, outputs,
                 expired, processes>>

(* process.wait(timeout=1): the child is reaped, or SIGKILL follows.       *)
wait_term ==
  /\ pc = "wait_term"
  /\ child' = Reap
  /\ pc' = IF Polled THEN after ELSE "killpg_again"
  /\ UNCHANGED <<request, after, raising, outcome, status, selector, events, outputs,
                 expired, helper, signalled, pipe, writers, written>>

(* process.wait(timeout=2): a second TimeoutExpired is not caught here.  It *)
(* passes through the finally clause of run_workflow.                      *)
wait_kill ==
  /\ pc = "wait_kill"
  /\ pc' = after
  /\ \/ Polled /\ child' = Reap /\ UNCHANGED raising
     \/ ~Polled /\ raising' = TRUE /\ UNCHANGED child
  /\ UNCHANGED <<request, after, outcome, status, selector, events, outputs, expired,
                 helper, signalled, pipe, writers, written>>

\* Defect: the finally clause only closes the selector.
finally_without_terminate ==
  /\ pc = "finally"
  /\ selector' = {}
  /\ child' = Reap
  /\ pc' = "report"
  /\ UNCHANGED <<request, after, raising, outcome, status, events, outputs, expired, helper,
                 signalled, pipe, writers, written>>

(* finally: close the selector; a child still alive is terminated.         *)
finally ==
  /\ pc = "finally"
  /\ selector' = {}
  /\ child' = Reap
  /\ IF Polled THEN pc' = "report" /\ UNCHANGED after
               ELSE pc' = "_terminate" /\ after' = "report"
  /\ UNCHANGED <<request, raising, outcome, status, events, outputs, expired, helper,
                 signalled, pipe, writers, written>>

\* Defect: the outcome of the loop is not consulted.
StatusOf_returncode(o, code) ==
  IF code = 0 THEN "PASS" ELSE IF code > 0 THEN "FAIL" ELSE "UNKNOWN"

(* The status of a final outcome and a return code.                        *)
StatusOf(o, code) ==
  IF o = "completed" /\ code = 0 THEN "PASS"
  ELSE IF o = "failed" THEN "FAIL" ELSE "UNKNOWN"

(* The outcome refined by the return code, and the status: or the          *)
(* exception that was propagating.                                         *)
report ==
  /\ pc = "report"
  /\ LET o == IF outcome # "completed" \/ child.code = 0 THEN outcome
              ELSE IF child.code < 0 THEN "crash" ELSE "failed"
     IN IF raising THEN pc' = "done" /\ UNCHANGED <<outcome, status>>
        ELSE Finish(o, StatusOf(o, child.code))
  /\ UNCHANGED <<request, after, raising, selector, events, outputs, expired,
                 processes, signalled>>

-----------------------------------------------------------------------------
(* The processes and the clock.                                            *)

Running(w) == IF w = "child" THEN child.state = "running" ELSE helper = "running"

write(w, s) ==
  /\ Running(w) /\ w \in writers[s] /\ signalled # "SIGKILL"
  /\ pipe[s] = 0 /\ written[s] < MaxWrites
  /\ pipe' = [pipe EXCEPT ![s] = 1]
  /\ written' = [written EXCEPT ![s] = @ + 1]
  /\ UNCHANGED <<request, supervisor, expired, child, helper, signalled, writers>>

(* The child starts a process that inherits the pipes it still has open.   *)
fork ==
  /\ HelperAllowed /\ child.state = "running" /\ helper = "absent" /\ signalled # "SIGKILL"
  /\ helper' = "running"
  /\ writers' = [s \in Streams |-> IF "child" \in writers[s] THEN Writers ELSE {}]
  /\ UNCHANGED <<request, supervisor, expired, child, signalled, pipe, written>>

close(w, s) ==
  /\ Running(w) /\ w \in writers[s] /\ signalled # "SIGKILL"
  /\ writers' = [writers EXCEPT ![s] = @ \ {w}]
  /\ UNCHANGED <<request, supervisor, expired, child, helper, signalled, pipe, written>>

(* Exit: the descriptors are closed before the exit status can be polled.  *)
(* A code below zero is a death by signal, the only one SIGKILL leaves.    *)
child_exit(code) ==
  /\ child.state = "running"
  /\ signalled = "SIGKILL" => code < 0
  /\ child' = [state |-> "exiting", code |-> code]
  /\ writers' = [s \in Streams |-> writers[s] \ {"child"}]
  /\ UNCHANGED <<request, supervisor, expired, helper, signalled, pipe, written>>

child_zombie ==
  /\ child.state = "exiting"
  /\ child' = [child EXCEPT !.state = "zombie"]
  /\ UNCHANGED <<request, supervisor, expired, helper, signalled, pipe, writers, written>>

helper_exit ==
  /\ helper = "running"
  /\ helper' = "gone"
  /\ writers' = [s \in Streams |-> writers[s] \ {"helper"}]
  /\ UNCHANGED <<request, supervisor, expired, child, signalled, pipe, written>>

deadline ==
  /\ pc \notin {"main", "done"} /\ ~expired
  /\ expired' = TRUE
  /\ UNCHANGED <<request, supervisor, processes, signalled>>

Supervise ==
  \/ refuse \/ Popen \/ while \/ select \/ poll \/ end_for
  \/ (\E s \in Streams : read(s))
  \/ _terminate \/ killpg \/ wait_term \/ wait_kill \/ finally \/ report

Next ==
  \/ Supervise
  \/ (\E w \in Writers, s \in Streams : write(w, s) \/ close(w, s))
  \/ fork \/ (\E code \in {-1, 0, 1} : child_exit(code)) \/ child_zombie \/ helper_exit
  \/ deadline

(* The supervisor and the clock advance, and an exiting process becomes    *)
(* reapable.  Nothing obliges the child or the helper to end.              *)
Spec ==
  /\ Init /\ [][Next]_vars
  /\ WF_vars(Supervise) /\ WF_vars(deadline) /\ WF_vars(child_zombie)

-----------------------------------------------------------------------------
(* Properties.                                                             *)

(* PASS vouches for the whole output of a child that ended with code 0:    *)
(* everything it and its helper ever wrote was collected within the cap,   *)
(* whatever the order in which data, end of file, exit and deadline were   *)
(* seen.  It does not say that the child was left alone to its end: the    *)
(* finally clause sends SIGTERM to a child that has closed both pipes and  *)
(* runs on, and one that answers it with exit 0 is a PASS.  No other       *)
(* signal goes with a PASS: not one sent at the deadline or at the cap.    *)
PassHasWholeOutput ==
  status = "PASS" =>
    /\ child = [state |-> "reaped", code |-> 0]
    /\ \A s \in Streams : /\ writers[s] = {} /\ outputs[s] = written[s]
                          /\ outputs[s] <= output_cap
    /\ signalled # "none" => after = "report"

(* A result is only reported for a child that was reaped: run_workflow     *)
(* never reads returncode while it is still None, and leaves no child.     *)
NoChildLeft ==
  pc = "done" /\ ~raising => child.state \in {"none", "reaped"}

(* Memory: a stream passes the cap by at most one read of 64 KiB, the unit *)
(* of this model, since the length is tested after the chunk was added;    *)
(* reading stops there, and under an unsupported cap nothing is read.      *)
OutputBounded ==
  \A s \in Streams : outputs[s] # 0 => PolicySupported(output_cap) /\ outputs[s] <= output_cap + 1

BlockedOnHelper ==
  pc = "for" /\ Polled /\ \E s \in events : pipe[s] = 0 /\ writers[s] = {"helper"}

(* run_workflow returns within its deadline and grace periods, unless it   *)
(* blocks for good in os.read on a pipe that only a helper holds open: a   *)
(* silent select and a poll that finds the child gone make it read a       *)
(* stream that is not ready, and no deadline ends that read.               *)
ReturnsUnlessHelper == <>(pc = "done") \/ <>[]BlockedOnHelper
============================================================================

---------------------------- MODULE ComposedHost ----------------------------
(***************************************************************************)
(* The wave-three host of the composed gateway (go-host/main.go) and its   *)
(* Rust authority.  The host sums the values of its input, one by one,     *)
(* each checked by the authority or by readable Go code, and saves a       *)
(* checkpoint after each.  Successive runs, with any configuration, share  *)
(* one checkpoint path; a run may be killed at any point, the authority    *)
(* may fail, writes may fail, and the file may be changed from outside.    *)
(***************************************************************************)
EXTENDS Integers, Sequences

CONSTANTS
  Inputs,       \* texts on stdin: sequences of frames, -1 for a malformed one
  Configs,      \* configurations of configFromEnvironment
  maxMessages,  \* 64 in the code
  Builds        \* contract, binding and generator identities of host builds

ASSUME InputsAssumption ==
  /\ maxMessages \in Nat
  /\ Inputs \subseteq Seq(Int)
  /\ \A c \in Configs :
       {c.checkpointPath, c.resume, c.rollback, c.fallback, c.allowReplace} \subseteq BOOLEAN

readableAuthority == "go-readable-authority-v2"
rustAuthority == "rust-authority-v2"

VARIABLES
  build,    \* identities compiled into the installed host
  disk,     \* the checkpoint file: <<>>, or <<checkpoint>>
  damaged,  \* the file was changed from outside since the host renamed it
  run,      \* the host process: its pc and the locals of main and execute
  record    \* <<>>, or what the last run returned, until something else happens

vars == <<build, disk, damaged, run, record>>

-----------------------------------------------------------------------------
(* parseValues: well-formed frames (parseNative), at most maxMessages.     *)
parseValues(t) == Len(t) <= maxMessages /\ \A i \in 1..Len(t) : t[i] >= 0

Sum(vs, n) ==
  LET sum[i \in 0..n] == IF i = 0 THEN 0 ELSE sum[i - 1] + vs[i]
  IN sum[n]

(* checkpointDigest: SHA-256 over the other fields, taken to be injective. *)
checkpointDigest(c) == <<c.build, c.authority, c.input, c.processed, c.sum>>

Sealed(c) == [c EXCEPT !.digest = checkpointDigest(c)]

newCheckpoint(vs, a) ==
  Sealed([build |-> build, authority |-> a, input |-> vs, processed |-> 0,
          sum |-> 0, digest |-> <<>>])

\* Defect: the replacement flag admits either direction.
validateCheckpoint_any(c, vs, a, allowReplace) ==
  /\ c.build = build
  /\ c.input = vs
  /\ c.processed \in 0..Len(vs)
  /\ c.digest = checkpointDigest(c)
  /\ c.sum = Sum(vs, c.processed)
  /\ c.authority = a \/ allowReplace

validateCheckpoint(c, vs, a, allowReplace) ==
  /\ c.build = build
  /\ c.input = vs
  /\ c.processed \in 0..Len(vs)
  /\ c.digest = checkpointDigest(c)
  /\ c.sum = Sum(vs, c.processed)
  /\ \/ c.authority = a
     \/ allowReplace /\ c.authority = rustAuthority /\ a = readableAuthority

-----------------------------------------------------------------------------
(* The authority process a, given its n-th line (from 0), the request i of *)
(* the protocol V2 with value v.  Lines it cannot parse get ERR.           *)
Reply(a, n, i, v) ==
  IF a.crash_after = n THEN [status |-> "EOF", id |-> 0, value |-> 0]
  ELSE IF a.wrong_version THEN [status |-> "ERR", id |-> 0, value |-> 0]
  ELSE IF a.partial_at = n THEN [status |-> "PARTIAL", id |-> i, value |-> 0]
  ELSE [status |-> "OK", id |-> i, value |-> v]

-----------------------------------------------------------------------------
NoState == [build |-> "none", authority |-> "none", input |-> <<>>, processed |-> 0,
            sum |-> 0, digest |-> <<>>]

(* No host is running.                                                     *)
Idle == [pc |-> "idle", cfg |-> CHOOSE c \in Configs : TRUE, values |-> <<>>,
         authority |-> "none", state |-> NoState, requests |-> 0, recovered |-> FALSE,
         replaced |-> FALSE, replacing |-> FALSE, saving |-> "none"]

cfg == run.cfg
values == run.values
state == run.state

Init ==
  /\ build \in Builds
  /\ disk = <<>> /\ damaged = FALSE /\ run = Idle /\ record = <<>>

(* main: input that does not parse ends the run at once.                   *)
main(c, t) ==
  /\ run.pc = "idle"
  /\ record' = <<>>
  /\ LET a == IF c.rollback THEN readableAuthority ELSE rustAuthority
     IN run' = IF parseValues(t)
               THEN [Idle EXCEPT !.pc = "execute", !.cfg = c, !.values = t,
                                 !.authority = a, !.state = newCheckpoint(t, a)]
               ELSE Idle
  /\ UNCHANGED <<build, disk, damaged>>

(* readCheckpoint and validateCheckpoint accept the file.                  *)
Restorable ==
  /\ cfg.checkpointPath /\ disk # <<>>
  /\ validateCheckpoint(disk[1], values, run.authority, cfg.allowReplace)

(* execute up to the choice of the processing loop: restore the checkpoint *)
(* or refuse it, and rewrite it when its authority is being replaced.      *)
execute ==
  /\ run.pc = "execute"
  /\ \/ ~cfg.resume /\ run' = [run EXCEPT !.pc = "process"]
     \/ /\ cfg.resume /\ Restorable /\ disk[1].authority = run.authority
        /\ run' = [run EXCEPT !.pc = "process", !.state = disk[1], !.recovered = TRUE]
     \/ /\ cfg.resume /\ Restorable /\ disk[1].authority # run.authority
        /\ run' = [run EXCEPT !.pc = "write", !.saving = "restored",
                     !.state = Sealed([disk[1] EXCEPT !.authority = run.authority]),
                     !.recovered = TRUE, !.replaced = TRUE]
     \/ cfg.resume /\ ~Restorable /\ run' = Idle
  /\ UNCHANGED <<build, disk, damaged, record>>

\* Defect: the readable authority starts again from nothing.
AfterFailure_restarting(r) ==
  IF ~r.replacing /\ r.cfg.fallback /\ r.cfg.allowReplace /\ r.state.processed < Len(r.values)
  THEN [r EXCEPT !.state = Sealed([@ EXCEPT !.authority = readableAuthority,
                                            !.processed = 0]),
                 !.replacing = TRUE, !.saving = "fallback", !.pc = "write"]
  ELSE Idle

(* After an error of the processing loop execute switches to the readable  *)
(* authority once, if it may and values are left; otherwise the run ends.  *)
AfterFailure(r) ==
  IF ~r.replacing /\ r.cfg.fallback /\ r.cfg.allowReplace /\ r.state.processed < Len(r.values)
  THEN [r EXCEPT !.state = Sealed([@ EXCEPT !.authority = readableAuthority]),
                 !.replacing = TRUE, !.saving = "fallback", !.pc = "write"]
  ELSE Idle

Readable == run.authority = readableAuthority \/ run.replacing
More == state.processed < Len(values)

(* applyValue, in memory; the checkpoint is written next.                  *)
applyValue(r, v) ==
  LET applied == [r.state EXCEPT !.sum = @ + v, !.processed = @ + 1]
  IN [r EXCEPT !.state = Sealed(applied), !.saving = "applied", !.pc = "write"]

processReadable ==
  /\ run.pc = "process" /\ Readable /\ More
  /\ run' = applyValue(run, values[state.processed + 1])
  /\ UNCHANGED <<build, disk, damaged, record>>

\* Defect: exec.Command without the context: a silent process is waited for.
handshake_patient ==
  /\ run.pc = "process" /\ ~Readable
  /\ cfg.authority.kind = "v2" /\ run' = [run EXCEPT !.pc = "running", !.requests = 0]
  /\ UNCHANGED <<build, disk, damaged, record>>

(* runAuthority: start the process and read its first line.  The V1        *)
(* authority sends none, and the context then kills it.                    *)
handshake ==
  /\ run.pc = "process" /\ ~Readable
  /\ \/ cfg.authority.kind = "v2" /\ run' = [run EXCEPT !.pc = "running", !.requests = 0]
     \/ run' = AfterFailure(run)  \* no path, no start, wrong first line, too late
  /\ UNCHANGED <<build, disk, damaged, record>>

(* One request and its response, checked against the request.              *)
exchange ==
  /\ run.pc = "running" /\ More
  /\ LET i == state.processed
         v == values[i + 1]
         r == Reply(cfg.authority, run.requests, i, v)
     IN /\ r = [status |-> "OK", id |-> i, value |-> v]
        /\ run' = applyValue([run EXCEPT !.requests = @ + 1], v)
  /\ UNCHANGED <<build, disk, damaged, record>>

(* A rejected, misordered, partial or missing response, a failed exit, or  *)
(* the context's deadline, which kills the process at any time.            *)
exchange_fails ==
  /\ run.pc = "running"
  /\ run' = AfterFailure(run)
  /\ UNCHANGED <<build, disk, damaged, record>>

(* Every value done: close stdin, wait for exit, write the last checkpoint.*)
complete ==
  /\ run.pc = "running" \/ (run.pc = "process" /\ Readable)
  /\ ~More
  /\ run' = [run EXCEPT !.saving = "final", !.pc = "write"]
  /\ UNCHANGED <<build, disk, damaged, record>>

\* Defect: os.WriteFile on the checkpoint path itself, which truncates it.
writeTemporary_in_place ==
  /\ run.pc = "write"
  /\ disk' = IF cfg.checkpointPath THEN <<NoState>> ELSE disk
  /\ run' = [run EXCEPT !.pc = "rename"]
  /\ UNCHANGED <<build, damaged, record>>

(* writeCheckpoint, before the rename: the temporary file, never read.     *)
writeTemporary ==
  /\ run.pc = "write"
  /\ run' = [run EXCEPT !.pc = "rename"]
  /\ UNCHANGED <<build, disk, damaged, record>>

(* An error of writeCheckpoint counts as a failure of the loop only for an *)
(* applied value; everywhere else execute returns it.                      *)
writeFails ==
  /\ run.pc \in {"write", "rename"} /\ cfg.checkpointPath
  /\ run' = IF run.saving = "applied" THEN AfterFailure(run) ELSE Idle
  /\ UNCHANGED <<build, disk, damaged, record>>

InjectedFailure ==
  ~run.replacing /\ cfg.failAfter > 0 /\ state.processed = cfg.failAfter

(* The rename, and what follows a checkpoint: the injected failure or the  *)
(* next value, the processing loop, or the final record.                   *)
rename ==
  /\ run.pc = "rename"
  /\ disk' = IF cfg.checkpointPath THEN <<Sealed(state)>> ELSE disk
  /\ damaged' = (damaged /\ ~cfg.checkpointPath)
  /\ \/ /\ run.saving = "applied"
        /\ run' = IF InjectedFailure THEN AfterFailure(run)
                  ELSE [run EXCEPT !.pc = IF Readable THEN "process" ELSE "running"]
        /\ UNCHANGED record
     \/ /\ run.saving \in {"restored", "fallback"}
        /\ run' = [run EXCEPT !.pc = "process", !.replaced = TRUE]
        /\ UNCHANGED record
     \/ /\ run.saving = "final"
        /\ run' = Idle
        /\ record' = <<[checkpoint |-> state, values |-> values, replaced |-> run.replaced,
                        allowReplace |-> cfg.allowReplace]>>
  /\ UNCHANGED build

(* The host is killed.                                                     *)
crash ==
  /\ run.pc # "idle"
  /\ run' = Idle
  /\ UNCHANGED <<build, disk, damaged, record>>

(* The file is edited between runs, with or without a fresh digest, or the *)
(* host is rebuilt: one such change between two checkpoints.               *)
damage ==
  /\ run.pc = "idle" /\ disk # <<>> /\ ~damaged
  /\ \E c \in {[disk[1] EXCEPT !.sum = @ + 1], [disk[1] EXCEPT !.processed = @ + 1]} :
       disk' \in {<<c>>, <<Sealed(c)>>}
  /\ damaged' = TRUE /\ record' = <<>>
  /\ UNCHANGED <<build, run>>

rebuild ==
  /\ run.pc = "idle" /\ ~damaged
  /\ build' \in Builds \ {build}
  /\ damaged' = (disk # <<>>) /\ record' = <<>>
  /\ UNCHANGED <<disk, run>>

Host ==
  \/ execute \/ processReadable \/ handshake \/ exchange \/ exchange_fails \/ complete
  \/ writeTemporary \/ writeFails \/ rename

Next ==
  \/ (\E c \in Configs, t \in Inputs : main(c, t))
  \/ Host \/ crash \/ damage \/ rebuild

(* A run that is not killed goes on: the context bounds every wait for the *)
(* authority.                                                              *)
Spec == Init /\ [][Next]_vars /\ WF_vars(Host)

-----------------------------------------------------------------------------
(* Properties.                                                             *)

(* Whatever is on disk, whatever failed and whoever processed the values   *)
(* so far, the state in memory is the sum of the prefix it claims: values  *)
(* are applied once each, in order, and an altered checkpoint is refused.  *)
StateIsPrefix ==
  run.pc # "idle" =>
    /\ state.input = values /\ state.build = build
    /\ state.sum = Sum(values, state.processed)

(* Unless the file was changed from outside, a later run with the same     *)
(* input and the authority the checkpoint names restores it, however the   *)
(* run that wrote it ended (contract: atomic, identity-bound checkpoints). *)
CheckpointResumable ==
  disk # <<>> /\ ~damaged =>
    validateCheckpoint(disk[1], disk[1].input, disk[1].authority, FALSE)

(* "uninterrupted, recovered, and readable-replacement executions must     *)
(* emit the same output digest": the record holds the sum of the input,    *)
(* and at no point on the way there is the state anything but a prefix.    *)
SameOutput ==
  /\ StateIsPrefix
  /\ record # <<>> =>
       LET r == record[1]
       IN /\ r.checkpoint.processed = Len(r.values)
          /\ r.checkpoint.sum = Sum(r.values, Len(r.values))
          /\ r.replaced => r.allowReplace

(* A resumed run never takes the file back: no processed value is lost,    *)
(* the input stays, and the authority changes only from Rust to readable   *)
(* under the explicit flag.                                                *)
ResumeKeepsProgress ==
  [][run.pc # "idle" /\ cfg.resume /\ disk' # disk =>
       /\ disk'[1].processed >= disk[1].processed
       /\ disk'[1].input = disk[1].input
       /\ \/ disk'[1].authority = disk[1].authority
          \/ /\ cfg.allowReplace /\ disk[1].authority = rustAuthority
             /\ disk'[1].authority = readableAuthority]_vars

(* Every run ends, whatever the authority does.                            *)
RunsEnd == run.pc # "idle" ~> run.pc = "idle"
=============================================================================

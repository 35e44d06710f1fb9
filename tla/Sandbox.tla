------------------------------ MODULE Sandbox ------------------------------
(***************************************************************************)
(* The tool sandbox, tools/sandbox.py: a tool runs in a forked child, under *)
(* limits, and sends its pickled result through a pipe; where there is no  *)
(* fork it runs on a thread that cannot be stopped.  One call at a time.   *)
(*                                                                         *)
(* Abstractions: the pipe and the reads are counted in reads of 64 KiB,    *)
(* time in ticks since the call began, up to one past the deadline.  A     *)
(* tool is a record: what it would return ("ok", "error", or "none" when   *)
(* a limit kills it), the reads its result takes, whether it ever ends.    *)
(***************************************************************************)
EXTENDS Integers

CONSTANTS
  WallClock,            (* wall_clock_s                                     *)
  MaxOutput,            (* max_output_bytes                                 *)
  PipeSize

ASSUME SandboxAssumption == WallClock \in Nat /\ {MaxOutput, PipeSize} \subseteq Nat \ {0}

VARIABLES
  platform,             (* HAVE_POSIX                                       *)
  tool,                 (* of the last call                                 *)
  child,                (* the child process, or the thread                 *)
  toWrite, pipe, got,   (* of the result: unsent, in the pipe, read         *)
  parent,               (* where the caller is                              *)
  elapsed,
  outcome,              (* of the last call                                 *)
  leaked                (* threads left running by tools that end, or not   *)

sandboxVars ==
  <<platform, tool, child, toWrite, pipe, got, parent, elapsed, outcome, leaked>>

NoThreads == [ending |-> 0, hanging |-> 0]

SandboxInit ==
  /\ platform \in {"posix", "thread"}
  /\ tool = [result |-> "ok", size |-> 1, ends |-> TRUE]
  /\ child = "gone" /\ toWrite = 0 /\ pipe = 0 /\ got = 0
  /\ parent = "idle" /\ elapsed = 0 /\ outcome = "ok"
  /\ leaked = NoThreads

(* fork(), or Thread.start()                                               *)
Run(t) ==
  /\ parent = "idle"
  /\ tool' = t /\ child' = "running"
  /\ toWrite' = 0 /\ pipe' = 0 /\ got' = 0 /\ elapsed' = 0
  /\ parent' = IF platform = "posix" THEN "check" ELSE "join"
  /\ UNCHANGED <<platform, outcome, leaked>>

Answer(o) == parent' = "idle" /\ outcome' = o

Tick ==
  /\ parent # "idle"
  /\ elapsed <= WallClock
  /\ elapsed' = elapsed + 1
  /\ UNCHANGED <<platform, tool, child, toWrite, pipe, got, parent, outcome, leaked>>

(* The tool returns or raises, which the child pickles and cuts to size;   *)
(* or a limit kills it, which a thread knows nothing of                    *)
Finish ==
  /\ child = "running"
  /\ tool.ends
  /\ IF platform = "thread" \/ tool.result = "none"
     THEN child' = "exited" /\ UNCHANGED toWrite
     ELSE /\ child' = "writing"
          /\ toWrite' = IF tool.size > MaxOutput THEN MaxOutput ELSE tool.size
  /\ UNCHANGED <<platform, tool, pipe, got, parent, elapsed, outcome, leaked>>

Write ==
  /\ child = "writing"
  /\ pipe < PipeSize
  /\ pipe' = pipe + 1
  /\ toWrite' = toWrite - 1
  /\ child' = IF toWrite = 1 THEN "exited" ELSE "writing"
  /\ UNCHANGED <<platform, tool, got, parent, elapsed, outcome, leaked>>

(* mutant: the killed child is not waited for                              *)
DeadlineZombie ==
  /\ parent = "check"
  /\ IF elapsed > WallClock
     THEN child' = "exited" /\ pipe' = 0 /\ toWrite' = 0 /\ Answer("timeout")
     ELSE parent' = "read" /\ UNCHANGED <<child, pipe, toWrite, outcome>>
  /\ UNCHANGED <<platform, tool, got, elapsed, leaked>>

(* The deadline is looked at before a read, which blocks                   *)
Deadline ==
  /\ parent = "check"
  /\ IF elapsed > WallClock
     THEN child' = "gone" /\ pipe' = 0 /\ toWrite' = 0 /\ Answer("timeout")
     ELSE parent' = "read" /\ UNCHANGED <<child, pipe, toWrite, outcome>>
  /\ UNCHANGED <<platform, tool, got, elapsed, leaked>>

Read ==
  /\ parent = "read"
  /\ pipe > 0
  /\ pipe' = pipe - 1 /\ got' = got + 1
  /\ parent' = "check"
  /\ UNCHANGED <<platform, tool, child, toWrite, elapsed, outcome, leaked>>

(* A cut pickle does not load: that exception is not a ToolError           *)
EndOfFile ==
  /\ parent = "read"
  /\ pipe = 0
  /\ child = "exited"
  /\ child' = "gone"
  /\ Answer(IF got = 0 THEN "error" ELSE IF tool.size > MaxOutput THEN "exception" ELSE tool.result)
  /\ UNCHANGED <<platform, tool, toWrite, pipe, got, elapsed, leaked>>

Join ==
  /\ parent = "join"
  /\ child = "exited"
  /\ child' = "gone"
  /\ Answer(IF tool.result = "error" THEN "error" ELSE "ok")
  /\ UNCHANGED <<platform, tool, toWrite, pipe, got, elapsed, leaked>>

(* The thread is left running                                              *)
JoinTimeout ==
  /\ parent = "join"
  /\ child = "running"
  /\ elapsed >= WallClock
  /\ child' = "gone"
  /\ leaked' = IF tool.ends THEN [leaked EXCEPT !.ending = @ + 1]
                            ELSE [leaked EXCEPT !.hanging = @ + 1]
  /\ Answer("timeout")
  /\ UNCHANGED <<platform, tool, toWrite, pipe, got, elapsed>>

LeakEnds ==
  /\ leaked.ending > 0
  /\ leaked' = [leaked EXCEPT !.ending = @ - 1]
  /\ UNCHANGED <<platform, tool, child, toWrite, pipe, got, parent, elapsed, outcome>>

-----------------------------------------------------------------------------
(* A call that is answered leaves no child behind, running or unreaped,    *)
(* whichever way it ended; what it returns is the whole of what the tool   *)
(* returned, never a piece of it; it times out only past the deadline, and *)
(* a thread is left behind only where there is no fork.  A call that is    *)
(* not answered yet has a child to wait for, which has sent all but what   *)
(* is on its way, and has not let go of the pipe before it did.            *)
SandboxAnswers ==
  /\ parent = "idle" =>
       /\ child = "gone" /\ pipe = 0 /\ toWrite = 0
       /\ outcome = "timeout" => elapsed >= WallClock
       /\ platform = "posix" =>
            /\ outcome \in {"ok", "exception"} => tool.ends /\ tool.result # "none"
            /\ outcome = "ok" => tool.result = "ok" /\ tool.size <= MaxOutput
            /\ got > 0 /\ outcome \in {"ok", "error"} => got = tool.size
  /\ parent # "idle" => child # "gone"
  /\ child = "exited" => toWrite = 0
  /\ platform = "posix" => leaked = NoThreads
=============================================================================

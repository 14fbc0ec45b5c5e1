----------------------------- MODULE Subprocess -----------------------------
(***************************************************************************)
(* What bash_ebuild_generate_environment_file, ebuild_manifest_update,     *)
(* git_fetch and git_create_worktree have in common: launch a child with   *)
(* its output in two pipes, read both to their end side by side            *)
(* (corral::allOf of two read_loops), then wait for the exit status.       *)
(*                                                                         *)
(* The child, the pipes and the children of the child are the operating    *)
(* system's.  A pipe holds a bounded amount; who writes more is blocked    *)
(* until it is read.  A pipe ends when nobody is left who could write.     *)
(***************************************************************************)
EXTENDS Naturals, Sequences, Functions

CONSTANTS
    Outputs,   \* what a child may write: sequences of Stream
    Capacity,  \* how many writes a pipe holds
    Buffer     \* how many of them read_loop's buffer holds

Stream == {"out", "err"}

\* The child, and what it leaves in the background.
Writer == {"child", "heir"}

ASSUME SubprocessAssumption ==
    /\ Outputs \subseteq Seq(Stream)
    /\ Capacity \in Nat \ {0}
    /\ Buffer \in Nat \ {0}

VARIABLES
    call,      \* where the calling coroutine is
    reader,    \* the two read_loops
    received,  \* how much each has appended to its string
    broken,    \* pipes whose reads end with an error that is not eof
    written,   \* how much was written into each pipe
    output,    \* what is still to be written
    child,     \* the child process, and its exit status
    open       \* who can still write into each pipe

vars == <<call, reader, received, broken, written, output, child, open>>

os == <<written, output, child, open>>

Over == {"returned", "failed", "threw", "cancelled"}

Status == {"exited 0", "exited 1"}

InPipe(s) == written[s] - received[s]

Init ==
    /\ call = "idle"
    /\ reader = [s \in Stream |-> "reading"]
    /\ received = [s \in Stream |-> 0]
    /\ broken = {}
    /\ written = [s \in Stream |-> 0]
    /\ output = <<>>
    /\ child = "absent"
    /\ open = [s \in Stream |-> {}]

---------------------------------------------------------------------------
(* The caller.                                                             *)

\* The process object is constructed, or its constructor throws.
Launch ==
    /\ call = "idle"
    /\ \/ /\ call' = "reading"
          /\ child' = "running"
          /\ output' \in Outputs
          /\ open' = [s \in Stream |-> {"child"}]
       \/ call' = "threw" /\ UNCHANGED <<child, output, open>>
    /\ UNCHANGED <<reader, received, broken, written>>

\* Mutant: the second stream is read after the first.
ReadsOneAfterTheOther(s) ==
    /\ call = "reading"
    /\ reader[s] = "reading"
    /\ s = "err" => reader["out"] = "done"
    /\ s \notin broken
    /\ InPipe(s) > 0
    /\ \E n \in 1..Buffer :
          n <= InPipe(s) /\ received' = [received EXCEPT ![s] = @ + n]
    /\ UNCHANGED <<call, reader, broken, os>>

\* async_read_some gives what is there, up to the buffer's size.
Reads(s) ==
    /\ call = "reading"
    /\ reader[s] = "reading"
    /\ s \notin broken
    /\ InPipe(s) > 0
    /\ \E n \in 1..Buffer :
          n <= InPipe(s) /\ received' = [received EXCEPT ![s] = @ + n]
    /\ UNCHANGED <<call, reader, broken, os>>

\* Mutant: the child's exit is taken for the end of its output.
EndsWithChild(s) ==
    /\ call = "reading"
    /\ reader[s] = "reading"
    /\ s \notin broken
    /\ child # "running"
    /\ reader' = [reader EXCEPT ![s] = "done"]
    /\ UNCHANGED <<call, received, broken, os>>

\* The pipe is empty and nobody can write: eof, the only way out of read_loop.
ReadsEof(s) ==
    /\ call = "reading"
    /\ reader[s] = "reading"
    /\ s \notin broken
    /\ InPipe(s) = 0
    /\ open[s] = {}
    /\ reader' = [reader EXCEPT ![s] = "done"]
    /\ UNCHANGED <<call, received, broken, os>>

\* Another error, from now on: read_loop warns and reads again, for ever.
Breaks(s) ==
    /\ call = "reading"
    /\ reader[s] = "reading"
    /\ broken' = broken \cup {s}
    /\ UNCHANGED <<call, reader, received, os>>

\* corral::allOf is over.
AllRead ==
    /\ call = "reading"
    /\ \A s \in Stream : reader[s] = "done"
    /\ call' = "waiting"
    /\ UNCHANGED <<reader, received, broken, os>>

\* Mutant: the exit status is not looked at.
WaitsOnly ==
    /\ call = "waiting"
    /\ child \in Status
    /\ call' = "returned"
    /\ UNCHANGED <<reader, received, broken, os>>

\* async_wait: the status may have been there for long, or the child may have
\* closed its streams and go on.
Waits ==
    /\ call = "waiting"
    /\ \/ child = "exited 0" /\ call' = "returned"
       \/ child = "exited 1" /\ call' = "failed"
    /\ UNCHANGED <<reader, received, broken, os>>

\* A cancelled caller is destroyed at its await: the process object kills the
\* child (and nobody else).
Unwinds ==
    /\ call \in {"reading", "waiting"}
    /\ call' = "cancelled"
    /\ IF child = "running"
       THEN /\ child' = "killed"
            /\ open' = [s \in Stream |-> open[s] \ {"child"}]
       ELSE UNCHANGED <<child, open>>
    /\ UNCHANGED <<reader, received, broken, written, output>>

---------------------------------------------------------------------------
(* The child.                                                              *)

Writes ==
    /\ output # <<>>
    /\ open[Head(output)] # {}
    /\ InPipe(Head(output)) < Capacity
    /\ written' = [written EXCEPT ![Head(output)] = @ + 1]
    /\ output' = Tail(output)
    /\ UNCHANGED <<call, reader, received, broken, child, open>>

\* A process in the background has the streams that the child has.
Forks ==
    /\ child = "running"
    /\ open' = [s \in Stream |-> IF "child" \in open[s] THEN Writer ELSE open[s]]
    /\ UNCHANGED <<call, reader, received, broken, written, output, child>>

\* Who leaves a stream has written to it, or leaves the rest to the other.
CanLeave(w, s) == s \in Range(output) => open[s] \ {w} # {}

Closes(w, s) ==
    /\ w \in open[s]
    /\ CanLeave(w, s)
    /\ open' = [open EXCEPT ![s] = @ \ {w}]
    /\ UNCHANGED <<call, reader, received, broken, written, output, child>>

ChildExits ==
    /\ child = "running"
    /\ \A s \in Stream : CanLeave("child", s)
    /\ child' \in Status
    /\ open' = [s \in Stream |-> open[s] \ {"child"}]
    /\ UNCHANGED <<call, reader, received, broken, written, output>>

\* The call is over; of what may still run, nothing concerns it.
Ended == call \in Over /\ UNCHANGED vars

CallerStep ==
    \/ Launch
    \/ \E s \in Stream : Reads(s) \/ ReadsEof(s)
    \/ AllRead
    \/ Waits

Next ==
    \/ CallerStep
    \/ \E s \in Stream : Breaks(s)
    \/ Unwinds
    \/ Writes
    \/ Forks
    \/ ChildExits
    \/ \E s \in Stream : Closes("child", s) \/ Closes("heir", s)
    \/ Ended

\* The io_context serves every ready read.  bash, git and ebuild and what they
\* leave in the background go on while they can, and end when they are done.
Fairness ==
    /\ \A s \in Stream : WF_vars(Reads(s)) /\ WF_vars(ReadsEof(s))
    /\ WF_vars(AllRead)
    /\ WF_vars(Waits)
    /\ WF_vars(Writes)
    /\ WF_vars(ChildExits)
    /\ \A s \in Stream : WF_vars(Closes("heir", s))

Spec == Init /\ [][Next]_vars /\ Fairness

---------------------------------------------------------------------------
(* Properties.                                                             *)

TypeOK ==
    /\ call \in {"idle", "reading", "waiting"} \cup Over
    /\ reader \in [Stream -> {"reading", "done"}]
    /\ received \in [Stream -> Nat]
    /\ broken \subseteq Stream
    /\ written \in [Stream -> Nat]
    /\ \A s \in Stream : InPipe(s) \in 0..Capacity
    /\ output \in Seq(Stream)
    /\ child \in {"absent", "running", "killed"} \cup Status
    /\ open \in [Stream -> SUBSET Writer]

\* A caller that gets a status has all the output on both streams: nothing was
\* in a pipe when its read_loop ended, and nothing can be written afterwards,
\* not by a process the child left in the background either.
OutputComplete ==
    call \in {"waiting", "returned", "failed"} =>
        \A s \in Stream : received[s] = written[s] /\ open[s] = {}

\* No child outlives its call, and an exit status is never made up: the call
\* returns normally only if the child did.
NoChildLeft ==
    call \in Over =>
        /\ child # "running"
        /\ call = "returned" => child = "exited 0"
        /\ call = "failed" => child = "exited 1"

\* A call ends, whatever the order and amount of the child's output and whoever
\* writes it: caller and child never wait for each other.  Except that a pipe
\* which breaks otherwise than by eof keeps read_loop reading.
CallEnds == call = "reading" ~> call \in Over \/ broken # {}
===========================================================================

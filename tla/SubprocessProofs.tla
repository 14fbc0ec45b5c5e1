-------------------------- MODULE SubprocessProofs --------------------------
(***************************************************************************)
(* Theorems about Subprocess for every output, pipe and buffer size.  They *)
(* rest on what eof means: a read_loop that is done has left nothing in    *)
(* its pipe, and nobody can write into it any more.                        *)
(***************************************************************************)
EXTENDS Subprocess, TLAPS

\* There is a child from the launch on, until the call is cancelled.
Started ==
    /\ call \in {"idle", "threw"} => child = "absent"
    /\ call \in {"reading", "waiting"} => child \in {"running"} \cup Status
    /\ call = "cancelled" => child # "running"

\* What a read_loop that is done has seen.
EofSeen ==
    /\ \A s \in Stream :
          reader[s] = "done" => received[s] = written[s] /\ open[s] = {}
    /\ call \in {"waiting", "returned", "failed"} =>
          \A s \in Stream : reader[s] = "done"
    /\ call = "idle" => \A s \in Stream : reader[s] = "reading"

Verdict ==
    /\ call = "returned" => child = "exited 0"
    /\ call = "failed" => child = "exited 1"

IInv == TypeOK /\ Started /\ EofSeen /\ Verdict

LEMMA InitIInv == Init => IInv
<1> SUFFICES ASSUME Init PROVE IInv
  OBVIOUS
<1>1. TypeOK
  <2>1. \A s \in Stream : InPipe(s) \in 0..Capacity
    BY SubprocessAssumption DEF Init, InPipe
  <2>2. output \in Seq(Stream)
    BY DEF Init
  <2>3. /\ reader \in [Stream -> {"reading", "done"}]
        /\ received \in [Stream -> Nat]
        /\ written \in [Stream -> Nat]
    BY DEF Init
  <2>4. open \in [Stream -> SUBSET Writer]
    BY DEF Init
  <2>5. call = "idle" /\ broken = {} /\ child = "absent"
    BY DEF Init
  <2> QED
    BY <2>1, <2>2, <2>3, <2>4, <2>5 DEF TypeOK
<1> QED
  BY <1>1 DEF Init, IInv, Started, EofSeen, Verdict

---------------------------------------------------------------------------
(* The caller's steps.                                                     *)

LEMMA LaunchKeepsIInv ==
    ASSUME IInv, Launch
    PROVE  IInv'
<1>1. UNCHANGED <<reader, received, broken, written>>
  BY DEF Launch
<1>2. /\ call' \in {"reading"} \cup Over
      /\ child' \in {"absent", "running", "killed"} \cup Status
      /\ output' \in Seq(Stream)
      /\ open' \in [Stream -> SUBSET Writer]
  BY SubprocessAssumption DEF IInv, TypeOK, Launch, Over, Writer
<1>3. TypeOK'
  BY <1>1, <1>2 DEF IInv, TypeOK, InPipe
<1> QED
  BY <1>3 DEF IInv, Launch, Started, EofSeen, Verdict

LEMMA ReadsKeepsIInv ==
    ASSUME IInv, NEW s \in Stream, Reads(s)
    PROVE  IInv'
<1>1. PICK n \in 1..Buffer :
         n <= InPipe(s) /\ received' = [received EXCEPT ![s] = @ + n]
  BY DEF Reads
<1>2. n \in Nat
  BY SubprocessAssumption
<1>3. UNCHANGED <<call, reader, broken, written, output, child, open>>
  BY DEF Reads, os
<1>4. TypeOK'
  <2>1. \A t \in Stream : InPipe(t)' \in 0..Capacity
    BY <1>1, <1>2, <1>3, SubprocessAssumption DEF IInv, TypeOK, InPipe
  <2>2. received' \in [Stream -> Nat]
    BY <1>1, <1>2 DEF IInv, TypeOK
  <2> QED
    BY <1>3, <2>1, <2>2 DEF IInv, TypeOK
<1>5. EofSeen'
  BY <1>1, <1>3 DEF IInv, TypeOK, Reads, EofSeen
<1> QED
  BY <1>3, <1>4, <1>5 DEF IInv, Started, Verdict

LEMMA ReadsEofKeepsIInv ==
    ASSUME IInv, NEW s \in Stream, ReadsEof(s)
    PROVE  IInv'
<1>1. UNCHANGED <<call, received, broken, written, output, child, open>>
  BY DEF ReadsEof, os
<1>2. received[s] = written[s]
  BY DEF ReadsEof, InPipe, IInv, TypeOK
<1>3. TypeOK'
  BY <1>1 DEF IInv, TypeOK, InPipe, ReadsEof
<1>4. EofSeen'
  BY <1>1, <1>2 DEF IInv, TypeOK, ReadsEof, EofSeen
<1> QED
  BY <1>1, <1>3, <1>4 DEF IInv, Started, Verdict

\* The steps in which only the call moves on, or a pipe breaks.
LEMMA CallMovesKeepsIInv ==
    ASSUME IInv, AllRead \/ Waits \/ Unwinds \/ \E s \in Stream : Breaks(s)
    PROVE  IInv'
<1>1. UNCHANGED <<reader, received, written, output>>
  BY DEF AllRead, Waits, Unwinds, Breaks, os
<1>2. /\ call' \in {"reading", "waiting"} \cup Over
      /\ broken' \subseteq Stream
      /\ child' \in {"absent", "running", "killed"} \cup Status
      /\ open' \in [Stream -> SUBSET Writer]
      /\ \A s \in Stream : open[s] = {} => open'[s] = {}
  <2> USE DEF IInv, TypeOK, os, Over, Status
  <2>1. CASE AllRead
    BY <2>1 DEF AllRead
  <2>2. CASE Waits
    BY <2>2 DEF Waits
  <2>3. CASE Unwinds
    BY <2>3 DEF Unwinds
  <2>4. CASE \E s \in Stream : Breaks(s)
    BY <2>4 DEF Breaks
  <2> QED
    BY <2>1, <2>2, <2>3, <2>4
<1>3. TypeOK'
  BY <1>1, <1>2 DEF IInv, TypeOK, InPipe
<1>4. Started' /\ Verdict'
  BY DEF IInv, Started, Verdict, EofSeen, AllRead, Waits, Unwinds,
         Breaks, os, Status, Stream
<1>5. EofSeen'
  BY <1>1, <1>2 DEF IInv, EofSeen, AllRead, Waits, Unwinds, Breaks, Over
<1> QED
  BY <1>3, <1>4, <1>5 DEF IInv

---------------------------------------------------------------------------
(* The child's steps.                                                      *)

LEMMA WritesKeepsIInv ==
    ASSUME IInv, Writes
    PROVE  IInv'
<1> DEFINE s == Head(output)
<1>1. s \in Stream /\ Tail(output) \in Seq(Stream)
  BY DEF IInv, TypeOK, Writes
<1>2. /\ written' = [written EXCEPT ![s] = @ + 1]
      /\ InPipe(s) < Capacity
      /\ output' = Tail(output)
      /\ open[s] # {}
      /\ UNCHANGED <<call, reader, received, broken, child, open>>
  BY DEF Writes
<1> HIDE DEF s
<1>3. \A t \in Stream : InPipe(t)' \in 0..Capacity
  <2> SUFFICES ASSUME NEW t \in Stream
               PROVE  InPipe(t)' \in 0..Capacity
    OBVIOUS
  <2>1. /\ written[t] \in Nat
        /\ received[t] \in Nat
        /\ InPipe(t) \in 0..Capacity
        /\ Capacity \in Nat
    BY SubprocessAssumption DEF IInv, TypeOK
  <2>2. received'[t] = received[t]
    BY <1>2
  <2>3. CASE t = s
    <3>1. written'[t] = written[t] + 1
      BY <1>1, <1>2, <2>3 DEF IInv, TypeOK
    <3> QED
      BY <1>2, <2>1, <2>2, <2>3, <3>1 DEF InPipe
  <2>4. CASE t # s
    <3>1. written'[t] = written[t]
      BY <1>2, <2>4 DEF IInv, TypeOK
    <3> QED
      BY <2>1, <2>2, <3>1 DEF InPipe
  <2> QED
    BY <2>3, <2>4
<1>4. written' \in [Stream -> Nat]
  BY <1>1, <1>2 DEF IInv, TypeOK
<1>5. TypeOK'
  BY <1>1, <1>2, <1>3, <1>4 DEF IInv, TypeOK
<1>6. EofSeen'
  BY <1>2 DEF IInv, EofSeen
<1> QED
  BY <1>2, <1>5, <1>6 DEF IInv, Started, Verdict

LEMMA ProcessesKeepIInv ==
    ASSUME IInv,
           \/ Forks
           \/ ChildExits
           \/ \E w \in Writer, s \in Stream : Closes(w, s)
    PROVE  IInv'
<1>1. UNCHANGED <<call, reader, received, broken, written, output>>
  BY DEF Forks, ChildExits, Closes
<1>2. /\ child' \in {"absent", "running", "killed"} \cup Status
      /\ child' = child \/ (child = "running" /\ child' \in Status)
      /\ open' \in [Stream -> SUBSET Writer]
      /\ \A s \in Stream : open[s] = {} => open'[s] = {}
  BY DEF IInv, TypeOK, Forks, ChildExits, Closes, Writer
<1>3. TypeOK'
  BY <1>1, <1>2 DEF IInv, TypeOK, InPipe
<1>4. Started' /\ Verdict'
  BY <1>1, <1>2 DEF IInv, Started, Verdict, Status
<1>5. EofSeen'
  BY <1>1, <1>2 DEF IInv, EofSeen
<1> QED
  BY <1>3, <1>4, <1>5 DEF IInv

LEMMA NextKeepsIInv ==
    ASSUME IInv, [Next]_vars
    PROVE  IInv'
<1>1. CASE UNCHANGED vars
  BY <1>1 DEF vars, IInv, TypeOK, InPipe, Started, EofSeen, Verdict
<1> QED
  BY <1>1, LaunchKeepsIInv, ReadsKeepsIInv, ReadsEofKeepsIInv,
     CallMovesKeepsIInv, WritesKeepsIInv, ProcessesKeepIInv
     DEF Next, CallerStep, Ended, Writer

---------------------------------------------------------------------------
(* The theorems.                                                           *)

\* A pipe never holds more than its capacity and no more is read than was
\* written.
THEOREM TypeCorrectness == Spec => []TypeOK
<1>1. IInv => TypeOK
  BY DEF IInv
<1> QED
  BY InitIInv, NextKeepsIInv, <1>1, PTL DEF Spec

\* The strings that a caller's return value, log or error message is made of
\* hold all that the child, or a process it left behind, ever wrote.
THEOREM OutputIsComplete == Spec => []OutputComplete
<1>1. IInv => OutputComplete
  BY DEF IInv, EofSeen, OutputComplete, Stream
<1> QED
  BY InitIInv, NextKeepsIInv, <1>1, PTL DEF Spec

\* However a call ends, its child has ended before; and a call that returns
\* says of the exit status what it was.
THEOREM ChildEndsFirst == Spec => []NoChildLeft
<1>1. IInv => NoChildLeft
  BY DEF IInv, Started, Verdict, NoChildLeft, Over
<1> QED
  BY InitIInv, NextKeepsIInv, <1>1, PTL DEF Spec
===========================================================================

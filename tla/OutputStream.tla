----------------------------- MODULE OutputStream -----------------------------
(***************************************************************************)
(* The output of one execution, from the command's two pipes through the   *)
(* drains of service.go and the output_chunks table to a Watch handler and *)
(* the CLI that waits for the command.                                     *)
(*                                                                         *)
(* A byte is its stream and its offset, a chunk an interval of one stream. *)
(* What decides the status and the approval is in Broker: here a request   *)
(* executes until it has ended.  How it ends is "0" (exit code zero,       *)
(* SUCCEEDED), "n" (another exit code, FAILED) or "-" (FAILED without one).*)
(***************************************************************************)
EXTENDS Naturals, Sequences, SequencesExt

CONSTANTS
    Streams,          \* stdout and stderr
    MaxWritten,       \* how many bytes the command writes to each
    BufferBytes,      \* the size of a drain's buffer
    PersistedBytes,   \* Config.Output.PersistedBytes
    LiveBytes,        \* Config.Output.LiveBytes
    MaxFaults,        \* how many store calls fail
    MaxRestarts       \* how often the daemon restarts

\* The output limits LoadDaemon accepts, without their upper bound.
ValidOutput == {LiveBytes, PersistedBytes} \subseteq Nat \ {0} /\ LiveBytes <= PersistedBytes

ASSUME OutputAssumption ==
    /\ ValidOutput
    /\ BufferBytes \in Nat \ {0} /\ {MaxWritten, MaxFaults, MaxRestarts} \subseteq Nat

VARIABLES
    written,     \* bytes written to a pipe
    taken,       \* bytes read from it
    command,     \* "running", or how the command ended
    waiter,      \* where execute is in Wait, wait.Wait and FinishExecution
    drain,       \* program counters of the drains
    buffer,      \* what a drain has read and not stored, as an interval
    sequence,    \* the next sequence number
    chunks,      \* the output_chunks rows of the request
    counted,     \* requests.output_bytes
    truncated,   \* requests.output_truncated
    outcome,     \* how the request ended, "none" before
    watch,       \* the Watch handler
    after,       \* its next sequence number
    wire,        \* events sent and not yet received
    client,      \* the CLI
    next,        \* its nextSequence
    printed,     \* the chunks it has written to its own stdout and stderr
    told,        \* whether the finished event said that output was truncated
    code,        \* the exit code of the CLI; "error" is one of its own
    faults,      \* store calls that failed
    restarts     \* restarts of the daemon

commandVars == <<written, command>>
drainVars == <<taken, drain, buffer, sequence>>
tableVars == <<chunks, counted, truncated>>
watchVars == <<watch, after>>
clientVars == <<client, next, printed, told, code>>
vars == <<commandVars, waiter, drainVars, tableVars, outcome, watchVars, wire,
          clientVars, faults, restarts>>

Empty == [from |-> 0, to |-> 0]
Size(c) == c.to - c.from
SizeOf(S) == MapThenSumSet(Size, S)

Init ==
    /\ written = [s \in Streams |-> 0]
    /\ taken = [s \in Streams |-> 0]
    /\ command = "running"
    /\ waiter = "wait"
    /\ drain = [s \in Streams |-> "read"]
    /\ buffer = [s \in Streams |-> Empty]
    /\ sequence = 0
    /\ chunks = {}
    /\ counted = 0 /\ truncated = FALSE
    /\ outcome = "none"
    /\ watch = "none" /\ after = 0
    /\ wire = <<>>
    /\ client = "dialing" /\ next = 0 /\ printed = <<>> /\ told = FALSE
    /\ code = "none"
    /\ faults = 0 /\ restarts = 0

Exits == {"0", "n", "-"}
Ended == outcome # "none"
Fault == faults < MaxFaults /\ faults' = faults + 1

-----------------------------------------------------------------------------
(* The command, and execute's wait for it.                                  *)

CommandWrites(s) ==
    /\ command = "running" /\ written[s] < MaxWritten
    /\ written' = [written EXCEPT ![s] = @ + 1]
    /\ UNCHANGED <<command, waiter, drainVars, tableVars, outcome, watchVars, wire,
                   clientVars, faults, restarts>>

\* By itself, by a signal, or by the timer of the execution, which kills it.
CommandExits ==
    /\ command = "running"
    /\ command' \in Exits
    /\ UNCHANGED <<written, waiter, drainVars, tableVars, outcome, watchVars, wire,
                   clientVars, faults, restarts>>

\* os/exec closes the read ends of the pipes as soon as Wait sees the exit.
WaitReturns ==
    /\ waiter = "wait" /\ command # "running"
    /\ waiter' = "drains"
    /\ UNCHANGED <<commandVars, drainVars, tableVars, outcome, watchVars, wire,
                   clientVars, faults, restarts>>

\* Mutant: the outcome is stored without waiting for the drains.
FinishEarly ==
    /\ waiter = "drains"
    /\ waiter' = "finished"
    /\ \/ outcome' = command /\ UNCHANGED faults
       \/ Fault /\ UNCHANGED outcome
    /\ UNCHANGED <<commandVars, drainVars, tableVars, watchVars, wire, clientVars,
                   restarts>>

\* wait.Wait and FinishExecution, whose error is dropped.
Finish ==
    /\ waiter = "drains" /\ \A s \in Streams : drain[s] = "done"
    /\ waiter' = "finished"
    /\ \/ outcome' = command /\ UNCHANGED faults
       \/ Fault /\ UNCHANGED outcome
    /\ UNCHANGED <<commandVars, drainVars, tableVars, watchVars, wire, clientVars,
                   restarts>>

-----------------------------------------------------------------------------
(* The drains.                                                              *)

DrainRead(s) ==
    /\ drain[s] = "read" /\ waiter = "wait" /\ taken[s] < written[s]
    /\ LET upto == Min({written[s], taken[s] + BufferBytes})
       IN  /\ buffer' = [buffer EXCEPT ![s] = [from |-> taken[s], to |-> upto]]
           /\ taken' = [taken EXCEPT ![s] = upto]
    /\ drain' = [drain EXCEPT ![s] = "append"]
    /\ UNCHANGED <<commandVars, waiter, sequence, tableVars, outcome, watchVars, wire,
                   clientVars, faults, restarts>>

\* The end of the pipe, or a pipe that Wait has closed.
DrainEnds(s) ==
    /\ drain[s] = "read"
    /\ \/ waiter # "wait"
       \/ command # "running" /\ taken[s] = written[s]
    /\ drain' = [drain EXCEPT ![s] = "done"]
    /\ UNCHANGED <<commandVars, waiter, taken, buffer, sequence, tableVars, outcome,
                   watchVars, wire, clientVars, faults, restarts>>

Captured == \A s \in Streams : drain[s] # "update"

\* Mutant: the cap is compared before the chunk is counted.
KeptWhole(n) == {IF counted < PersistedBytes THEN n ELSE 0, 0}

\* What is stored of n bytes: what the cap leaves, nothing when the database has
\* no capacity.
Kept(n) ==
    {Min({n, IF counted > PersistedBytes THEN 0 ELSE PersistedBytes - counted}), 0}

\* Under the capture lock: take a sequence number, read the counters, and insert
\* what the cap leaves.  A failed read or insert drops the chunk.
AppendInsert(s) ==
    /\ drain[s] = "append" /\ Captured
    /\ sequence' = sequence + 1
    /\ \/ /\ ~truncated
          /\ \E kept \in Kept(Size(buffer[s])) :
                LET row == [seq |-> sequence, stream |-> s, from |-> buffer[s].from,
                            to |-> buffer[s].from + kept]
                IN  /\ chunks' = IF kept > 0 THEN chunks \cup {row} ELSE chunks
                    /\ buffer' = [buffer EXCEPT ![s].from = @ + kept]
          /\ drain' = [drain EXCEPT ![s] = "update"]
          /\ UNCHANGED faults
       \/ /\ (truncated /\ UNCHANGED faults) \/ Fault
          /\ drain' = [drain EXCEPT ![s] = "read"]
          /\ UNCHANGED <<buffer, chunks>>
    /\ UNCHANGED <<commandVars, waiter, taken, counted, truncated, outcome, watchVars,
                   wire, clientVars, restarts>>

LastOf(s) == LET rows == {c \in chunks : c.stream = s /\ c.seq = sequence - 1}
             IN  SizeOf(rows)

\* Mutant: a chunk that is cut is not reported.
AppendUpdateSilent(s) ==
    /\ drain[s] = "update"
    /\ \/ /\ counted' = counted + LastOf(s)
          /\ UNCHANGED <<truncated, faults>>
       \/ Fault /\ UNCHANGED <<counted, truncated>>
    /\ drain' = [drain EXCEPT ![s] = "read"]
    /\ UNCHANGED <<commandVars, waiter, taken, buffer, sequence, chunks, outcome,
                   watchVars, wire, clientVars, restarts>>

\* Count what was stored and note what was cut; then unlock.
AppendUpdate(s) ==
    /\ drain[s] = "update"
    /\ \/ /\ counted' = counted + LastOf(s)
          /\ truncated' = (Size(buffer[s]) > 0)
          /\ UNCHANGED faults
       \/ Fault /\ UNCHANGED <<counted, truncated>>
    /\ drain' = [drain EXCEPT ![s] = "read"]
    /\ UNCHANGED <<commandVars, waiter, taken, buffer, sequence, chunks, outcome,
                   watchVars, wire, clientVars, restarts>>

-----------------------------------------------------------------------------
(* The Watch handler.                                                       *)

\* Sequence numbers are distinct: the i-th chunk has i - 1 before it.
ByStoredOrder(S) ==
    [i \in 1..Cardinality(S) |->
        CHOOSE c \in S : Cardinality({d \in S : d.seq < c.seq}) = i - 1]

\* OutputAfter: the longest run of chunks within LiveBytes, and at least one.
Batch(n) ==
    LET rows == ByStoredOrder({c \in chunks : c.seq >= n})
        fits(k) == k <= 1 \/ SizeOf({rows[i] : i \in 1..k}) <= LiveBytes
    IN  SubSeq(rows, 1, Max({k \in 0..Len(rows) : fits(k)}))

Output(c) == [type |-> "output", body |-> c]
Broken == [type |-> "error"]
FinishedEvent(how) == [type |-> "finished", truncated |-> truncated, outcome |-> how]

WatchOutput ==
    /\ watch = "output"
    /\ LET batch == Batch(after)
           more == \E c \in chunks : c.seq >= after
                                        /\ \A i \in 1..Len(batch) : batch[i] # c
       IN  /\ wire' = wire \o [i \in 1..Len(batch) |-> Output(batch[i])]
           /\ after' = IF batch = <<>> THEN after ELSE Last(batch).seq + 1
           /\ watch' = IF more THEN "output" ELSE "status"
    /\ UNCHANGED <<commandVars, waiter, drainVars, tableVars, outcome, clientVars,
                   faults, restarts>>

\* Mutant: the stream of a request that has ended just ends.
WatchStatusSilent ==
    /\ watch = "status"
    /\ \/ Ended /\ watch' = "none" /\ wire' = Append(wire, Broken)
       \/ ~Ended /\ watch' = "output" /\ UNCHANGED wire
    /\ UNCHANGED <<commandVars, waiter, drainVars, tableVars, outcome, after,
                   clientVars, faults, restarts>>

\* While the request has not ended the event is built and not sent.
\* The error of reading the exit code is dropped, and with it the code; that a
\* request succeeded is in its status.
WatchStatus ==
    /\ watch = "status"
    /\ \/ /\ Ended /\ watch' = "none"
          /\ \/ wire' = Append(wire, FinishedEvent(outcome)) /\ UNCHANGED faults
             \/ /\ Fault
                /\ wire' = Append(wire, FinishedEvent(IF outcome = "0" THEN "0" ELSE "-"))
       \/ ~Ended /\ watch' = "output" /\ UNCHANGED <<wire, faults>>
    /\ UNCHANGED <<commandVars, waiter, drainVars, tableVars, outcome, after,
                   clientVars, restarts>>

\* A failed store call ends the stream after what was sent.
WatchFails ==
    /\ watch # "none"
    /\ Fault
    /\ watch' = "none"
    /\ wire' = Append(wire, Broken)
    /\ UNCHANGED <<commandVars, waiter, drainVars, tableVars, outcome, after,
                   clientVars, restarts>>

-----------------------------------------------------------------------------
(* The CLI: runCommand after Submit.                                        *)

ClientDials ==
    /\ client = "dialing"
    /\ client' = "watching"
    /\ watch' = "output" /\ after' = next
    /\ UNCHANGED <<commandVars, waiter, drainVars, tableVars, outcome, wire, next,
                   printed, told, code, faults, restarts>>

\* Mutant: the exit code of the event is returned, which is zero when there is none.
ReturnedField(how) == IF how = "-" THEN "0" ELSE how

\* The exit code for a finished event.
Returned(how) == IF how = "-" THEN "error" ELSE how

\* Mutant: the sequence number of a received chunk is requested again.
ClientReceivesAgain ==
    /\ client = "watching" /\ wire # <<>>
    /\ wire' = Tail(wire)
    /\ LET event == Head(wire)
       IN  CASE event.type = "output" ->
                  /\ printed' = Append(printed, event.body)
                  /\ next' = event.body.seq
                  /\ UNCHANGED <<client, told, code>>
             [] event.type = "finished" ->
                  /\ client' = "finished" /\ told' = event.truncated
                  /\ code' = Returned(event.outcome)
                  /\ UNCHANGED <<next, printed>>
             [] event.type = "error" ->
                  client' = "dialing" /\ UNCHANGED <<next, printed, told, code>>
    /\ UNCHANGED <<commandVars, waiter, drainVars, tableVars, outcome, watchVars,
                   faults, restarts>>

ClientReceives ==
    /\ client = "watching" /\ wire # <<>>
    /\ wire' = Tail(wire)
    /\ LET event == Head(wire)
       IN  CASE event.type = "output" ->
                  /\ IF event.body.seq < next THEN UNCHANGED <<next, printed>>
                     ELSE /\ printed' = Append(printed, event.body)
                          /\ next' = event.body.seq + 1
                  /\ UNCHANGED <<client, told, code>>
             [] event.type = "finished" ->
                  /\ client' = "finished" /\ told' = event.truncated
                  /\ code' = Returned(event.outcome)
                  /\ UNCHANGED <<next, printed>>
             [] event.type = "error" ->
                  client' = "dialing" /\ UNCHANGED <<next, printed, told, code>>
    /\ UNCHANGED <<commandVars, waiter, drainVars, tableVars, outcome, watchVars,
                   faults, restarts>>

\* The deadline, a signal (after a Cancel, which an executing request refuses), or
\* an answer that is not retried (a request that was pruned, no place for a watcher):
\* the context of the stream is cancelled and the exit code is 1 or 130.
ClientGivesUp ==
    /\ client \in {"dialing", "watching"}
    /\ client' = "gone" /\ code' = "error"
    /\ watch' = "none" /\ wire' = <<>>
    /\ UNCHANGED <<commandVars, waiter, drainVars, tableVars, outcome, after, next,
                   printed, told, faults, restarts>>

-----------------------------------------------------------------------------
\* The daemon ends, at once or by server.Stop, and starts again: the command dies
\* with it, what was not stored or not received is lost, the request has failed,
\* and the CLI dials again.
Restart ==
    /\ restarts < MaxRestarts /\ restarts' = restarts + 1
    /\ command' = IF command = "running" THEN "-" ELSE command
    /\ waiter' = "finished"
    /\ drain' = [s \in Streams |-> "done"]
    /\ buffer' = [s \in Streams |-> Empty]
    /\ outcome' = IF Ended THEN outcome ELSE "-"
    /\ watch' = "none" /\ wire' = <<>>
    /\ client' = IF client = "watching" THEN "dialing" ELSE client
    /\ UNCHANGED <<written, taken, sequence, tableVars, after, next, printed, told, code,
                   faults>>

Drain(s) == DrainRead(s) \/ DrainEnds(s) \/ AppendInsert(s) \/ AppendUpdate(s)
Watch == WatchOutput \/ WatchStatus

Next ==
    \/ \E s \in Streams : CommandWrites(s) \/ Drain(s)
    \/ CommandExits \/ WaitReturns \/ Finish
    \/ Watch \/ WatchFails
    \/ ClientDials \/ ClientReceives \/ ClientGivesUp
    \/ Restart

Spec == Init /\ [][Next]_vars

(***************************************************************************)
(* The scheduler runs goroutines and the Watch handler on, the transport   *)
(* delivers, the CLI dials again after its delay.  A command ends, if only *)
(* by its timer.  The CLI's deadline may never come.                       *)
(* Steps that share a conjunct follow each other: one at a time is enabled.*)
(***************************************************************************)
Fairness ==
    /\ \A s \in Streams : WF_vars(Drain(s))
    /\ WF_vars(CommandExits \/ WaitReturns \/ Finish)
    /\ WF_vars(Watch)
    /\ WF_vars(ClientDials \/ ClientReceives)

FairSpec == Spec /\ Fairness

-----------------------------------------------------------------------------
(* Properties.                                                              *)

Row == [seq : Nat, stream : Streams, from : Nat, to : Nat]
Event == [type : {"output"}, body : Row] \cup {Broken}
            \cup [type : {"finished"}, truncated : BOOLEAN, outcome : Exits]

\* Every variable holds a value of its type.
TypeOK ==
    /\ written \in [Streams -> 0..MaxWritten]
    /\ taken \in [Streams -> 0..MaxWritten]
    /\ command \in Exits \cup {"running"}
    /\ outcome \in Exits \cup {"none"} /\ code \in {"none", "0", "n", "error"}
    /\ waiter \in {"wait", "drains", "finished"}
    /\ drain \in [Streams -> {"read", "append", "update", "done"}]
    /\ buffer \in [Streams -> [from : Nat, to : Nat]]
    /\ {sequence, counted, next, after} \subseteq Nat
    /\ chunks \in SUBSET Row
    /\ {truncated, told} \subseteq BOOLEAN
    /\ watch \in {"none", "output", "status"}
    /\ wire \in Seq(Event) /\ printed \in Seq(Row)
    /\ client \in {"dialing", "watching", "finished", "gone"}
    /\ faults \in 0..MaxFaults /\ restarts \in 0..MaxRestarts

\* Across failed streams, restarts and batches the CLI prints the stored chunks
\* from the first one on, each once, in their order and without a gap: no chunk is
\* stored below a sequence number that a watcher has already passed.
PrintedOnce ==
    printed = ByStoredOrder({c \in chunks : c.seq < next})

\* Of each stream a prefix is stored, however the two drains interleave and
\* wherever the cap or the capacity cuts, unless a store call failed.
PrefixStored ==
    faults = 0 =>
        \A s \in Streams :
            LET rows == {c \in chunks : c.stream = s}
            IN  /\ \A c \in rows : c.from > 0 =>
                      \E d \in rows : d.seq < c.seq /\ d.to = c.from
                /\ SizeOf(rows) <= taken[s]

\* What is stored stays within PersistedBytes although the insert and the update
\* of the counter are two statements, unless a store call failed.
CapHolds == faults = 0 => SizeOf(chunks) <= PersistedBytes

\* A CLI that was not told of truncation has, once the command ended by itself and
\* no store call failed, every byte that the drains read in the table.
LossIsReported ==
    client = "finished" /\ ~told /\ faults = 0 /\ restarts = 0 =>
        \A s \in Streams : SizeOf({c \in chunks : c.stream = s}) = taken[s]

\* The CLI returns the exit code of the command, through the executions row, the
\* event and broken streams: zero only if the command exited with zero, and unless a
\* store call failed or the daemon restarted, exactly the command's code.
ExitCodeIsTheCommands ==
    /\ code \in {"0", "n"} => code = command
    /\ client = "finished" /\ faults = 0 /\ restarts = 0 =>
          code = IF command = "-" THEN "error" ELSE command

\* A CLI that stays learns that the request has ended.
CLIReturns == Ended ~> client \in {"finished", "gone"}

\* A CLI that saw the end has printed everything that is stored.
FinishedIsComplete ==
    client = "finished" => \A c \in chunks : c.seq < next

\* Everything the command wrote is stored, unless it was truncated, a store call
\* failed or the daemon restarted.
EverythingIsStored ==
    Ended /\ ~truncated /\ faults = 0 /\ restarts = 0 =>
        \A s \in Streams : SizeOf({c \in chunks : c.stream = s}) = written[s]
===============================================================================

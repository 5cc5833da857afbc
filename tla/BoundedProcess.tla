--------------------------- MODULE BoundedProcess ---------------------------
(***************************************************************************)
(* One CodeQL command under a deadline (_bounded_process and               *)
(* _terminate_group of dosweb/codeql/runner.py): the leader of a new       *)
(* process group, the descendants it starts, two reader threads on its     *)
(* pipes, and the caller that polls, terminates, joins and closes.         *)
(*                                                                         *)
(* A descendant may stay in the group or start a session of its own, and   *)
(* it may keep the pipes open or not.  Closing a stream waits while a      *)
(* reader is inside read(), because both take the lock of the buffered     *)
(* stream; a reader is inside read() until data or the end of the pipe     *)
(* arrives.                                                                *)
(***************************************************************************)
EXTENDS Naturals

CONSTANTS
    Leader, Children,   \* the process Popen starts; those it may start
    Streams,            \* stdout and stderr
    MaxChunks           \* _MAX_PROCESS_OUTPUT_BYTES, in chunks

ASSUME ProcessAssumption ==
    MaxChunks \in Nat /\ Leader \notin Children /\ Streams # {}

VARIABLES
    life,       \* of each process: "absent", "group", "left" or "ended"
    holds,      \* the processes that have the write ends of the pipes open
    reader,     \* of each stream: "blocked" in read(), "between" or "ended"
    closed,     \* the streams the caller has closed
    chunks,     \* total, up to the first value that is too large
    expired,    \* the deadline has passed
    code,       \* process.returncode
    caller,     \* where _bounded_process is
    failure     \* what it will raise

process == <<life, holds, reader, closed, chunks, expired, code, caller, failure>>

Processes == Children \cup {Leader}
Alive(p) == life[p] \in {"group", "left"}
overflow == chunks > MaxChunks

ProcessInit ==
    /\ life = [p \in Processes |-> "absent"] /\ holds = {} /\ closed = {}
    /\ reader = [s \in Streams |-> "ended"] /\ chunks = 0 /\ expired = FALSE
    /\ code = 0 /\ caller = "idle" /\ failure = "none"

Start ==
    /\ caller = "idle"
    /\ life' = [p \in Processes |-> IF p = Leader THEN "group" ELSE "absent"]
    /\ holds' = {Leader} /\ closed' = {} /\ chunks' = 0 /\ expired' = FALSE
    /\ reader' = [s \in Streams |-> "blocked"] /\ code' = 0
    /\ caller' = "poll" /\ failure' = "none"

\* The command has returned and nothing of it is looked at again.
Forget ==
    /\ life' = [p \in Processes |-> "absent"] /\ holds' = {} /\ closed' = {}
    /\ reader' = [s \in Streams |-> "ended"] /\ chunks' = 0 /\ expired' = FALSE
    /\ code' = 0 /\ caller' = "idle" /\ failure' = "none"

-----------------------------------------------------------------------------
(* The processes.                                                          *)

Fork ==
    /\ \E p \in Processes, c \in Children :
         /\ Alive(p) /\ life[c] = "absent"
         /\ life' = [life EXCEPT ![c] = life[p]]
         /\ holds' \in {holds, IF p \in holds THEN holds \cup {c} ELSE holds}
    /\ UNCHANGED <<reader, closed, chunks, expired, code, caller, failure>>

\* setsid: killpg no longer reaches the child.
Leave ==
    /\ \E c \in Children : life[c] = "group" /\ life' = [life EXCEPT ![c] = "left"]
    /\ UNCHANGED <<holds, reader, closed, chunks, expired, code, caller, failure>>

Exit ==
    /\ \E p \in Processes :
         /\ Alive(p)
         /\ life' = [life EXCEPT ![p] = "ended"] /\ holds' = holds \ {p}
         /\ code' \in IF p = Leader THEN {0, 1} ELSE {code}
    /\ UNCHANGED <<reader, closed, chunks, expired, caller, failure>>

-----------------------------------------------------------------------------
(* read_stream                                                             *)

ReadChunk ==
    /\ holds # {} /\ chunks <= MaxChunks
    /\ \E s \in Streams :
         reader[s] = "blocked" /\ reader' = [reader EXCEPT ![s] = "between"]
    /\ chunks' = chunks + 1
    /\ UNCHANGED <<life, holds, closed, expired, code, caller, failure>>

\* A closed stream raises ValueError, too much output ends the loop.
LoopReader(s) ==
    /\ reader[s] = "between"
    /\ reader' = [reader EXCEPT ![s] =
                    IF overflow \/ s \in closed THEN "ended" ELSE "blocked"]
    /\ UNCHANGED <<life, holds, closed, chunks, expired, code, caller, failure>>

ReadEnd(s) ==
    /\ reader[s] = "blocked" /\ holds = {}
    /\ reader' = [reader EXCEPT ![s] = "ended"]
    /\ UNCHANGED <<life, holds, closed, chunks, expired, code, caller, failure>>

-----------------------------------------------------------------------------
(* The caller.                                                             *)

Expire ==
    /\ caller = "poll" /\ ~expired /\ expired' = TRUE
    /\ UNCHANGED <<life, holds, reader, closed, chunks, code, caller, failure>>

Terminating(why) ==
    /\ caller' = "terminate" /\ failure' = why
    /\ UNCHANGED <<life, holds, reader, closed, chunks, expired, code>>

Overflowed == caller = "poll" /\ overflow /\ Terminating("overflow")
TimedOut == caller = "poll" /\ ~overflow /\ expired /\ Terminating("timeout")

\* The leader is reaped and both readers have ended.  The last look at
\* overflow and at the deadline may be older than their values now.
Collected ==
    /\ caller = "poll" /\ ~Alive(Leader) /\ \A s \in Streams : reader[s] = "ended"
    /\ caller' = "join"
    /\ UNCHANGED <<life, holds, reader, closed, chunks, expired, code, failure>>

\* A KeyboardInterrupt leaves the loop without _terminate_group.
Interrupted ==
    /\ caller = "poll" /\ caller' = "join" /\ failure' = "interrupt"
    /\ UNCHANGED <<life, holds, reader, closed, chunks, expired, code>>

\* Killed processes of the group; those that left it are not reached.
Kill(ended, next) ==
    /\ life' = [p \in Processes |-> IF p \in ended THEN "ended" ELSE life[p]]
    /\ holds' = holds \ ended
    /\ code' = IF Leader \in ended THEN 1 ELSE code
    /\ caller' = next
    /\ UNCHANGED <<reader, closed, chunks, expired, failure>>

Group == {p \in Processes : life[p] = "group"}

\* A process may ignore SIGTERM.
SendTerm == caller = "terminate" /\ \E ended \in SUBSET Group : Kill(ended, "kill")

\* Mutant: only the leader is killed.
KillLeader == caller = "kill" /\ Kill(Group \cap {Leader}, "join")

SendKill == caller = "kill" /\ Kill(Group, "join")

\* The joins of the finally clause have a timeout of their own.
Join ==
    /\ caller = "join" /\ caller' = "close"
    /\ UNCHANGED <<life, holds, reader, closed, chunks, expired, code, failure>>

CloseStream ==
    /\ caller = "close"
    /\ \E s \in Streams \ closed : reader[s] # "blocked" /\ closed' = closed \cup {s}
    /\ UNCHANGED <<life, holds, reader, chunks, expired, code, caller, failure>>

\* Mutant: overflow is not looked at after the loop.
ReturnFailure ==
    /\ caller = "close" /\ closed = Streams /\ caller' = "returned"
    /\ UNCHANGED <<life, holds, reader, closed, chunks, expired, code, failure>>

Return ==
    /\ caller = "close" /\ closed = Streams /\ caller' = "returned"
    /\ failure' = IF failure = "none" /\ overflow THEN "overflow" ELSE failure
    /\ UNCHANGED <<life, holds, reader, closed, chunks, expired, code>>

\* _invoke: the command succeeded.
Succeeded == failure = "none" /\ code = 0

Caller == Overflowed \/ TimedOut \/ Collected \/ SendTerm \/ SendKill \/ Join \/ CloseStream
          \/ Return
Readers == \E s \in Streams : LoopReader(s) \/ ReadEnd(s)

ProcessNext == Fork \/ Leave \/ Exit \/ ReadChunk \/ Readers \/ Expire \/ Interrupted \/ Caller

\* The caller waits for a pipe that no signal of its own closes: a holder
\* has left the group, or an interrupt skipped the signals.
Held ==
    /\ caller = "close"
    /\ \E s \in Streams \ closed : reader[s] = "blocked"
    /\ \E p \in holds : life[p] = "left" \/ failure = "interrupt"
=============================================================================

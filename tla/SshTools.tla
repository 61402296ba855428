------------------------------ MODULE SshTools ------------------------------
(***************************************************************************)
(* remoteCmd and expect: two programs that log in to a host with ssh and   *)
(* then run one command with a time limit, or hold a dialogue with a shell *)
(* whose output a goroutine copies for the log.                            *)
(***************************************************************************)
EXTENDS Naturals

VARIABLES
    tool,       \* "remoteCmd" or "expect"
    toolAt,     \* where main is; "exit0" and "exit1" end the process
    failed,     \* installExpect returns an error
    remote,     \* the command on the host: "none", "running", "ended"
    watcher,    \* the goroutine that waits for the deadline or for done
    expired,    \* the deadline of the context has passed
    done,       \* the channel done is closed
    asked,      \* apt-get has asked whether to continue: "no", "asked", "yes"
    writer,     \* the end of the pipe that goexpect writes to: "none", "open", "closed"
    copier      \* the goroutine that copies the pipe: "copies", "done"

sshVars == <<tool, toolAt, failed, remote, watcher, expired, done, asked, writer, copier>>

Init ==
    /\ tool \in {"remoteCmd", "expect"} /\ toolAt = "start" /\ failed = FALSE
    /\ remote = "none" /\ watcher = "none" /\ expired = FALSE /\ done = FALSE
    /\ asked = "no" /\ writer = "none" /\ copier = "copies"

Goto(at) == toolAt' = at

-----------------------------------------------------------------------------
(* What the two mains share, and remoteCmd.                                *)

\* Arguments, authentication and dialling, each of which may exit.
Refuse ==
    /\ toolAt = "start" /\ Goto("exit1")
    /\ UNCHANGED <<tool, failed, remote, watcher, expired, done, asked, writer, copier>>

CmdConnect ==
    /\ tool = "remoteCmd" /\ toolAt = "start" /\ Goto("session")
    /\ UNCHANGED <<tool, failed, remote, watcher, expired, done, asked, writer, copier>>

\* combinedOutput: a session, the watcher, and the command.
NewSession ==
    /\ toolAt = "session"
    /\ \/ Goto("exit1") /\ UNCHANGED <<watcher, remote>>
       \/ Goto("output") /\ watcher' = "waits" /\ remote' = "running"
    /\ UNCHANGED <<tool, failed, expired, done, asked, writer, copier>>

DeadlinePasses ==
    /\ toolAt \in {"session", "output", "return"} /\ ~expired
    /\ expired' = TRUE
    /\ UNCHANGED <<tool, toolAt, failed, remote, watcher, done, asked, writer, copier>>

\* Mistake: the watcher waits for the command alone.
WatcherWaitsForDone ==
    /\ watcher = "waits" /\ done
    /\ watcher' = "gone"
    /\ UNCHANGED <<tool, toolAt, failed, remote, expired, done, asked, writer, copier>>

\* The select, which chooses at random when both channels are ready.
Watch ==
    /\ watcher = "waits"
    /\ \/ expired /\ watcher' = "killed"
       \/ done /\ watcher' = "gone"
    /\ UNCHANGED <<tool, toolAt, failed, remote, expired, done, asked, writer, copier>>

\* The host ends the command, in its own time: a signal does not make it.
RemoteEnds ==
    /\ remote = "running"
    /\ remote' = "ended"
    /\ UNCHANGED <<tool, toolAt, failed, watcher, expired, done, asked, writer, copier>>

\* sess.Output returns and done is closed.
OutputReturns ==
    /\ toolAt = "output" /\ remote = "ended"
    /\ done' = TRUE /\ Goto("return")
    /\ UNCHANGED <<tool, failed, remote, watcher, expired, asked, writer, copier>>

\* The exit status of the command decides that of the program.
CmdExit ==
    /\ toolAt = "return" /\ toolAt' \in {"exit0", "exit1"}
    /\ UNCHANGED <<tool, failed, remote, watcher, expired, done, asked, writer, copier>>

-----------------------------------------------------------------------------
(* expect.                                                                 *)

ExpectConnect ==
    /\ tool = "expect" /\ toolAt = "start" /\ Goto("spawn")
    /\ UNCHANGED <<tool, failed, remote, watcher, expired, done, asked, writer, copier>>

\* SpawnSSH takes the writer, or fails and leaves the pipe to nobody.
SpawnSSH ==
    /\ toolAt = "spawn"
    /\ \/ Goto("prompt") /\ writer' = "open" /\ UNCHANGED failed
       \/ Goto("debug") /\ failed' = TRUE /\ UNCHANGED writer
    /\ UNCHANGED <<tool, remote, watcher, expired, done, asked, copier>>

Fails == failed' = TRUE /\ Goto("close")

\* Each step of the dialogue answers in time or ends it: the prompt and the
\* command, apt-get's question or its word that there is nothing to do, the
\* answer "Y", and the prompt again.
Dialogue ==
    /\ \/ /\ toolAt = "prompt"
          /\ \/ Goto("switch") /\ UNCHANGED <<failed, asked>>
             \/ Fails /\ UNCHANGED asked
       \/ /\ toolAt = "switch"
          /\ \/ Goto("answer") /\ asked' = "asked" /\ UNCHANGED failed
             \/ Goto("last") /\ UNCHANGED <<failed, asked>>
             \/ Fails /\ UNCHANGED asked
       \/ /\ toolAt = "answer"
          /\ \/ Goto("last") /\ asked' = "yes" /\ UNCHANGED failed
             \/ Fails /\ UNCHANGED asked
       \/ /\ toolAt = "last"
          /\ Goto("close") /\ failed' \in BOOLEAN /\ UNCHANGED asked
    /\ UNCHANGED <<tool, remote, watcher, expired, done, writer, copier>>

\* The deferred e.Close, after which goexpect closes the writer it was given.
CloseExpect ==
    /\ toolAt = "close"
    /\ writer' = "closed" /\ Goto("debug")
    /\ UNCHANGED <<tool, failed, remote, watcher, expired, done, asked, copier>>

\* io.Copy ends with the writer.
CopyEnds ==
    /\ copier = "copies" /\ writer = "closed"
    /\ copier' = "done"
    /\ UNCHANGED <<tool, toolAt, failed, remote, watcher, expired, done, asked, writer>>

\* Mistake: the log is printed without waiting for the copier.
DebugUnwaited ==
    /\ toolAt = "debug"
    /\ Goto(IF failed THEN "exit1" ELSE "exit0")
    /\ UNCHANGED <<tool, failed, remote, watcher, expired, done, asked, writer, copier>>

\* The other deferred function waits for the copier and reads what it copied.
Debug ==
    /\ toolAt = "debug" /\ copier = "done"
    /\ Goto(IF failed THEN "exit1" ELSE "exit0")
    /\ UNCHANGED <<tool, failed, remote, watcher, expired, done, asked, writer, copier>>

-----------------------------------------------------------------------------
Ended == toolAt \in {"exit0", "exit1"}

Steps ==
    /\ ~Ended
    /\ \/ Refuse \/ CmdConnect \/ NewSession \/ DeadlinePasses \/ Watch \/ OutputReturns \/ CmdExit
       \/ ExpectConnect \/ SpawnSSH \/ Dialogue \/ CloseExpect \/ CopyEnds \/ Debug

Next == Steps \/ (~Ended /\ RemoteEnds)

-----------------------------------------------------------------------------
(* Properties.                                                             *)

\* The type invariant.
TypeOK ==
    /\ tool \in {"remoteCmd", "expect"} /\ failed \in BOOLEAN /\ expired \in BOOLEAN /\ done \in BOOLEAN
    /\ toolAt \in {"start", "session", "output", "return", "spawn", "prompt", "switch", "answer", "last",
                   "close", "debug", "exit0", "exit1"}
    /\ remote \in {"none", "running", "ended"} /\ watcher \in {"none", "waits", "killed", "gone"}
    /\ asked \in {"no", "asked", "yes"} /\ writer \in {"none", "open", "closed"}
    /\ copier \in {"copies", "done"}

\* The two programs wait for ever in two places only: for a command that
\* neither ends nor heeds the signal that the watcher has sent (the comment of
\* combinedOutput says so), and, after SpawnSSH failed, for a copier whose pipe
\* nobody closes (installExpect).
SshWaits ==
    \/ (toolAt = "output" /\ remote = "running" /\ watcher = "killed")
    \/ (toolAt = "debug" /\ writer = "none")
EndsOrWaits == <>(Ended \/ SshWaits)

\* An expect that exits after it has spawned the shell has answered what
\* apt-get asked unless it reports an error, and its log is complete.
InstallHonest ==
    tool = "expect" /\ Ended => /\ writer # "none" => copier = "done"
                                /\ toolAt = "exit0" => writer = "closed" /\ asked # "asked"
=============================================================================

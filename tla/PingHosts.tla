----------------------------- MODULE PingHosts -----------------------------
(***************************************************************************)
(* ping: a goroutine reads host names from the command line or from stdin  *)
(* into a channel of one, and main starts a goroutine per name.            *)
(***************************************************************************)
EXTENDS Naturals, Sequences

CONSTANT MaxNames    \* bound: lines or arguments

VARIABLES
    names,      \* the input: what each line or argument is
    stdin,      \* it comes from stdin; unended: its last line has no newline
    unended,
    read,       \* how much the reader has handled
    hostCh,     \* the channel: the position of a name, or nothing
    reader,     \* the reader is still running, and holds the wait group
    pinger,     \* each name's goroutine
    pingMain    \* where main is; "ok" and "failed" are exits of the process

pingVars == <<names, stdin, unended, read, hostCh, reader, pinger, pingMain>>

Kind == {"host", "unknown", "blank"}
Names == DOMAIN names

Init ==
    /\ names \in UNION {[1 .. n -> Kind] : n \in 0 .. MaxNames}
    /\ stdin \in BOOLEAN /\ unended \in BOOLEAN
    /\ ~stdin => ~unended /\ Names # {}
    /\ unended => Names # {}
    /\ read = 0 /\ hostCh = <<>> /\ reader = TRUE
    /\ pinger = [k \in Names |-> "none"]
    /\ pingMain = "range"

Running == pingMain \in {"range", "wait"}

\* What the reader sends: every argument, and of stdin every line that is not
\* blank and that a newline ends.
Handed(k) == stdin => names[k] # "blank" /\ ~(unended /\ k = Len(names))

Read ==
    /\ Running /\ read < Len(names)
    /\ read' = read + 1
    /\ IF Handed(read') THEN hostCh = <<>> /\ hostCh' = <<read'>> ELSE UNCHANGED hostCh
    /\ UNCHANGED <<names, stdin, unended, reader, pinger, pingMain>>

\* The deferred close and wg.Done, which main cannot tell apart.
ReadEnd ==
    /\ Running /\ reader /\ read = Len(names)
    /\ reader' = FALSE
    /\ UNCHANGED <<names, stdin, unended, read, hostCh, pinger, pingMain>>

\* A name that does not resolve exits the process, whatever is under way.  A
\* blank argument is such a name.
StartPing ==
    /\ pingMain = "range" /\ hostCh # <<>>
    /\ LET k == Head(hostCh) IN
         IF names[k] = "host" THEN pinger' = [pinger EXCEPT ![k] = "run"] /\ UNCHANGED pingMain
         ELSE pingMain' = "failed" /\ UNCHANGED pinger
    /\ hostCh' = <<>>
    /\ UNCHANGED <<names, stdin, unended, read, reader>>

Report(k) ==
    /\ Running /\ pinger[k] = "run"
    /\ pinger' = [pinger EXCEPT ![k] = "reported"]
    /\ UNCHANGED <<names, stdin, unended, read, hostCh, reader, pingMain>>

RangeEnd ==
    /\ pingMain = "range" /\ hostCh = <<>> /\ ~reader
    /\ pingMain' = "wait"
    /\ UNCHANGED <<names, stdin, unended, read, hostCh, reader, pinger>>

\* Mistake: main waits for the reader alone.
ExitOfReader ==
    /\ pingMain = "wait" /\ ~reader
    /\ pingMain' = "ok"
    /\ UNCHANGED <<names, stdin, unended, read, hostCh, reader, pinger>>

\* wg.Wait.
Exit ==
    /\ pingMain = "wait" /\ ~reader /\ \A k \in Names : pinger[k] # "run"
    /\ pingMain' = "ok"
    /\ UNCHANGED <<names, stdin, unended, read, hostCh, reader, pinger>>

Next ==
    \/ Read \/ ReadEnd \/ StartPing \/ RangeEnd \/ Exit
    \/ \E k \in Names : Report(k)

Ended == ~Running

-----------------------------------------------------------------------------
(* Properties.                                                             *)

\* The type invariant.
TypeOK ==
    /\ \A k \in Names : names[k] \in Kind
    /\ read \in 0 .. Len(names) /\ Len(hostCh) <= 1
    /\ pinger \in [Names -> {"none", "run", "reported"}]
    /\ pingMain \in {"range", "wait", "ok", "failed"}

\* A ping that exits with 0 has reported every name the reader handed over, and
\* it does so only when all of them resolve (main, handleStdin).
OkMeansReported ==
    pingMain = "ok" => \A k \in Names :
        IF Handed(k) THEN names[k] = "host" /\ pinger[k] = "reported" ELSE pinger[k] = "none"
=============================================================================

-------------------------------- MODULE Qotd --------------------------------
(***************************************************************************)
(* The quote of the day server, which serves a bounded number of           *)
(* connections at once, and its four command-line clients.                 *)
(***************************************************************************)
EXTENDS FiniteSets, Naturals

CONSTANTS
    Conn,           \* connections, each with the client that opens it
    MaxConn         \* the capacity of maxConn

VARIABLES
    asks,           \* what each client has to send: a line, "nothing" or "stdin"
    client,         \* where each client is
    conn,           \* where the goroutine of each connection is
    slots,          \* slots of maxConn that are taken
    wire,           \* what reached the server of each client
    reply,          \* what the server wrote: "none", "quote", "random", "notFound"
    serverUp        \* FALSE once a goroutine has panicked

qotdVars == <<asks, client, conn, slots, wire, reply, serverUp>>

\* The authors a user can name: in the table, not in it, of one letter, blank.
Author == {"known", "unknown", "letter", "blank"}
Given == Author \cup {"none", "stdin", "absent"}

\* What each client makes of its command line: usingos has its author as
\* arguments, and reads standard input when there is none.
UsingOs(a) == CASE a = "none" -> "nothing" [] a = "absent" -> "stdin" [] a = "stdin" -> "unknown" [] OTHER -> a

\* usingflags: the author "none" is the default, "stdin" is a word of its own.
UsingFlags(a) == CASE a \in {"none", "absent"} -> "nothing" [] OTHER -> a

\* both: the arguments are trimmed, and an author of fewer than two letters
\* is none; -random, here "none", asks for nothing.
Both(a) == CASE a = "none" -> "nothing" [] a \in {"absent", "blank", "letter"} -> "stdin"
             [] a = "stdin" -> "unknown" [] OTHER -> a

\* get of the cobra client: no author asks for nothing.
Get(a) == CASE a \in {"none", "absent"} -> "nothing" [] a = "stdin" -> "unknown" [] OTHER -> a

Message == Author \cup {"nothing", "partial"}

Init ==
    /\ \E a \in [Conn -> Given], how \in [Conn -> 1 .. 4] :
        asks = [c \in Conn |-> CASE how[c] = 1 -> UsingOs(a[c]) [] how[c] = 2 -> UsingFlags(a[c])
                                 [] how[c] = 3 -> Both(a[c]) [] OTHER -> Get(a[c])]
    /\ client = [c \in Conn |-> "dial"] /\ conn = [c \in Conn |-> "none"]
    /\ slots = 0 /\ wire = [c \in Conn |-> "nothing"] /\ reply = [c \in Conn |-> "none"]
    /\ serverUp = TRUE

Dial(c) ==
    /\ serverUp /\ client[c] = "dial"
    /\ client' = [client EXCEPT ![c] = IF asks[c] = "nothing" THEN "read" ELSE "send"]
    /\ conn' = [conn EXCEPT ![c] = "accepted"]
    /\ UNCHANGED <<asks, slots, wire, reply, serverUp>>

Gone(c) == conn[c] = "closed" \/ ~serverUp

\* handleAuthor sends its line; a write to a closed connection ends the client.
Send(c) ==
    /\ client[c] = "send" /\ asks[c] # "stdin"
    /\ IF Gone(c) THEN client' = [client EXCEPT ![c] = "fatal"] /\ UNCHANGED wire
       ELSE client' = [client EXCEPT ![c] = "read"] /\ wire' = [wire EXCEPT ![c] = asks[c]]
    /\ UNCHANGED <<asks, conn, slots, reply, serverUp>>

\* handleStdin copies what its user types, a line or a part of one, when there
\* is something; later lines are of no use to the server, which reads once.
TypeInput(c) ==
    /\ client[c] = "send" /\ asks[c] = "stdin"
    /\ IF Gone(c) THEN client' = [client EXCEPT ![c] = "fatal"] /\ UNCHANGED wire
       ELSE /\ wire[c] \in {"nothing", "partial"} /\ UNCHANGED client
            /\ \E text \in Message \ {wire[c], "nothing"} : wire' = [wire EXCEPT ![c] = text]
    /\ UNCHANGED <<asks, conn, slots, reply, serverUp>>

\* The user ends standard input, if ever: io.Copy returns.
EndInput(c) ==
    /\ client[c] = "send" /\ asks[c] = "stdin"
    /\ client' = [client EXCEPT ![c] = "read"]
    /\ UNCHANGED <<asks, conn, slots, wire, reply, serverUp>>

\* Both copy what the server writes until it closes the connection.
ReadReply(c) ==
    /\ client[c] = "read" /\ Gone(c)
    /\ client' = [client EXCEPT ![c] = "ended"]
    /\ UNCHANGED <<asks, conn, slots, wire, reply, serverUp>>

\* maxConn, by select: without a free slot the connection is closed unanswered.
TakeSlot(c) ==
    /\ serverUp /\ conn[c] = "accepted"
    /\ IF slots < MaxConn THEN slots' = slots + 1 /\ conn' = [conn EXCEPT ![c] = "reading"]
       ELSE conn' = [conn EXCEPT ![c] = "closing"] /\ UNCHANGED slots
    /\ UNCHANGED <<asks, client, wire, reply, serverUp>>

\* One read of at most 5 ms, which can end before anything came, and the
\* answer; a line with no name in it panics and ends the process.
Read(c) ==
    /\ serverUp /\ conn[c] = "reading"
    /\ \E line \in {wire[c], "nothing"} :
        IF line = "blank" THEN serverUp' = FALSE /\ UNCHANGED <<conn, reply>>
        ELSE /\ reply' = [reply EXCEPT ![c] = CASE line = "known" -> "quote"
                                                [] line \in {"unknown", "letter"} -> "notFound"
                                                [] OTHER -> "random"]
             /\ conn' = [conn EXCEPT ![c] = "served"] /\ UNCHANGED serverUp
    /\ UNCHANGED <<asks, client, slots, wire>>

\* Mistake: the slot is given back on every return, also when none was taken.
ReleaseAlways(c) ==
    /\ serverUp /\ conn[c] \in {"served", "closing"} /\ slots > 0
    /\ slots' = slots - 1 /\ conn' = [conn EXCEPT ![c] = "close"]
    /\ UNCHANGED <<asks, client, wire, reply, serverUp>>

\* The deferred calls: the slot is given back before the connection is closed.
Release(c) ==
    /\ serverUp /\ conn[c] = "served"
    /\ slots' = slots - 1 /\ conn' = [conn EXCEPT ![c] = "close"]
    /\ UNCHANGED <<asks, client, wire, reply, serverUp>>

\* Mistake: a refused connection stays open.
CloseServedOnly(c) ==
    /\ serverUp /\ conn[c] = "close"
    /\ conn' = [conn EXCEPT ![c] = "closed"]
    /\ UNCHANGED <<asks, client, slots, wire, reply, serverUp>>

Close(c) ==
    /\ serverUp /\ conn[c] \in {"close", "closing"}
    /\ conn' = [conn EXCEPT ![c] = "closed"]
    /\ UNCHANGED <<asks, client, slots, wire, reply, serverUp>>

Step(c) == Dial(c) \/ Send(c) \/ ReadReply(c) \/ TakeSlot(c) \/ Read(c) \/ Release(c) \/ Close(c)

\* What the user at standard input does.
UserStep(c) == TypeInput(c) \/ EndInput(c)

Next == \E c \in Conn : Step(c) \/ UserStep(c)

Ended == \A c \in Conn : IF serverUp THEN conn[c] = "closed" ELSE client[c] \in {"dial", "ended", "fatal"}

-----------------------------------------------------------------------------
(* Properties.                                                             *)

\* The type invariant.
TypeOK ==
    /\ asks \in [Conn -> Author \cup {"nothing", "stdin"}]
    /\ client \in [Conn -> {"dial", "send", "read", "ended", "fatal"}]
    /\ conn \in [Conn -> {"none", "accepted", "reading", "served", "closing", "close", "closed"}]
    /\ slots \in 0 .. MaxConn /\ wire \in [Conn -> Message]
    /\ reply \in [Conn -> {"none", "quote", "random", "notFound"}] /\ serverUp \in BOOLEAN

InService == {c \in Conn : conn[c] \in {"reading", "served"}}

\* "Rate limit service to 100 concurrent connections": the slots taken are
\* those of the connections in service, on every way out of the goroutine, so
\* that none is lost or given back twice.
SlotsAreServed == slots = Cardinality(InService) /\ slots <= MaxConn

\* Every client that got through and has its input ends: answered, refused, cut
\* off in the middle of its line, or together with the server's process.  One
\* that copies standard input is waited for by nobody but its user.
ClientsEnd ==
    \A c \in Conn : client[c] = "read" \/ (client[c] = "send" /\ asks[c] # "stdin")
                      ~> client[c] \in {"ended", "fatal"}
=============================================================================

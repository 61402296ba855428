---------------------------- MODULE ScanPipeline ----------------------------
(***************************************************************************)
(* remoteUname: the addresses of a network go through two stages, one that *)
(* pings them and one that runs uname over ssh, to a printer.  Each stage  *)
(* is a goroutine that starts a worker per item, at most Limit at a time,  *)
(* and closes its channel when the last worker is done.                    *)
(***************************************************************************)
EXTENDS Naturals, Sequences, FiniteSets

CONSTANTS
    LastIP,     \* the broadcast address; 0 is the address of the network
    Limit       \* workers of a stage, 100 in the code

VARIABLES
    start,      \* the address on the command line
    nextIP,     \* the producer's ip
    chan,       \* the three channels: what is in them, and whether they are open
    stage,      \* each stage's loop: where it is and the item it holds
    worker,     \* each stage's worker for an address
    printed     \* how often a record of the address was printed

scanVars == <<start, nextIP, chan, stage, worker, printed>>

IP == 1 .. LastIP
Stage == {"scan", "uname"}
In == [scan |-> "ips", uname |-> "recs"]
Out == [scan |-> "recs", uname |-> "out"]
Record == [host : IP, reachable : BOOLEAN, login : BOOLEAN]

Init ==
    /\ start \in 0 .. LastIP - 1
    /\ nextIP = start + 1
    /\ chan = [c \in {"ips", "recs", "out"} |-> [buf |-> <<>>, open |-> TRUE]]
    /\ stage = [s \in Stage |-> [at |-> "range"]]
    /\ worker = [s \in Stage |-> [h \in IP |-> "none"]]
    /\ printed = [h \in IP |-> 0]

Room(c) == chan[c].buf = <<>>
Item(c) == Head(chan[c].buf)
Sent(ch, c, x) == [ch EXCEPT ![c].buf = <<x>>]
Received(ch, c) == [ch EXCEPT ![c].buf = <<>>]

\* hosts sends an address once it knows the one after it: the last address of
\* the prefix, which is the broadcast address, is never sent.
Emit ==
    /\ nextIP < LastIP /\ Room("ips")
    /\ chan' = Sent(chan, "ips", nextIP)
    /\ nextIP' = nextIP + 1
    /\ UNCHANGED <<start, stage, worker, printed>>

EmitEnd ==
    /\ nextIP = LastIP /\ chan["ips"].open
    /\ chan' = [chan EXCEPT !["ips"].open = FALSE]
    /\ UNCHANGED <<start, nextIP, stage, worker, printed>>

\* The range loop of a stage.  A record that is not reachable needs no uname
\* and is sent on by the loop itself.
Take(s) ==
    /\ stage[s].at = "range" /\ ~Room(In[s])
    /\ LET x == Item(In[s]) IN
         stage' = [stage EXCEPT ![s] =
             IF s = "scan" THEN [at |-> "limit", rec |-> [host |-> x, reachable |-> FALSE, login |-> FALSE]]
             ELSE [at |-> IF x.reachable THEN "limit" ELSE "pass", rec |-> x]]
    /\ chan' = Received(chan, In[s])
    /\ UNCHANGED <<start, nextIP, worker, printed>>

Pass(s) ==
    /\ stage[s].at = "pass" /\ Room(Out[s])
    /\ chan' = Sent(chan, Out[s], stage[s].rec)
    /\ stage' = [stage EXCEPT ![s] = [at |-> "range"]]
    /\ UNCHANGED <<start, nextIP, worker, printed>>

Working(s) == {h \in IP : worker[s][h] \in {"run", "done"}}

Start(s) ==
    /\ stage[s].at = "limit" /\ Cardinality(Working(s)) < Limit
    /\ worker' = [worker EXCEPT ![s][stage[s].rec.host] = "run"]
    /\ stage' = [stage EXCEPT ![s] = [at |-> "range"]]
    /\ UNCHANGED <<start, nextIP, chan, printed>>

\* hostAlive or runUname, whose outcome the network decides.
Outcome(s, h) ==
    IF s = "scan" THEN {[host |-> h, reachable |-> b, login |-> FALSE] : b \in BOOLEAN}
    ELSE {[host |-> h, reachable |-> TRUE, login |-> b] : b \in BOOLEAN}

\* The worker sends its record and, by its defers, calls wg.Done and then gives
\* its place back.
Work(s, h) ==
    /\ worker[s][h] = "run" /\ Room(Out[s])
    /\ \E rec \in Outcome(s, h) : chan' = Sent(chan, Out[s], rec)
    /\ worker' = [worker EXCEPT ![s][h] = "done"]
    /\ UNCHANGED <<start, nextIP, stage, printed>>

Leave(s, h) ==
    /\ worker[s][h] = "done"
    /\ worker' = [worker EXCEPT ![s][h] = "left"]
    /\ UNCHANGED <<start, nextIP, chan, stage, printed>>

Exhausted(s) == stage[s].at = "range" /\ Room(In[s]) /\ ~chan[In[s]].open

\* Mistake: the channel is closed as soon as there is nothing more to start.
CloseUnwaited(s) ==
    /\ Exhausted(s)
    /\ chan' = [chan EXCEPT ![Out[s]].open = FALSE]
    /\ stage' = [stage EXCEPT ![s] = [at |-> "end"]]
    /\ UNCHANGED <<start, nextIP, worker, printed>>

\* The loop ends, waits for the workers and closes the channel.
Close(s) ==
    /\ Exhausted(s)
    /\ \A h \in IP : worker[s][h] # "run"
    /\ chan' = [chan EXCEPT ![Out[s]].open = FALSE]
    /\ stage' = [stage EXCEPT ![s] = [at |-> "end"]]
    /\ UNCHANGED <<start, nextIP, worker, printed>>

Report ==
    /\ ~Room("out")
    /\ printed' = [printed EXCEPT ![Item("out").host] = @ + 1]
    /\ chan' = Received(chan, "out")
    /\ UNCHANGED <<start, nextIP, stage, worker>>

Next ==
    \/ Emit \/ EmitEnd \/ Report
    \/ \E s \in Stage :
         \/ Take(s) \/ Pass(s) \/ Start(s) \/ Close(s)
         \/ \E h \in IP : Work(s, h) \/ Leave(s, h)

Ended == Room("out") /\ ~chan["out"].open

Spec == Init /\ [][Next]_scanVars

-----------------------------------------------------------------------------
(* Properties.                                                             *)

\* The type invariant.
TypeOK ==
    /\ start \in 0 .. LastIP - 1 /\ nextIP \in IP
    /\ \A c \in DOMAIN chan : chan[c].open \in BOOLEAN /\ Len(chan[c].buf) <= 1
    /\ \A s \in Stage :
         /\ stage[s].at \in {"range", "limit", "pass", "end"}
         /\ stage[s].at \in {"limit", "pass"} => stage[s].rec \in Record
    /\ worker \in [Stage -> [IP -> {"none", "run", "done", "left"}]]
    /\ printed \in [IP -> Nat]

\* However the workers of the two stages overlap, nobody is left to send to a
\* channel that is closed, and a scan that ends has lost no host that hosts sent,
\* printed none twice, and not printed the broadcast address.
HostsReportedOnce ==
    /\ \A s \in Stage, h \in IP : worker[s][h] = "run" => chan[Out[s]].open
    /\ Ended => /\ \A h \in IP : printed[h] <= 1
                /\ \A h \in start + 1 .. LastIP - 1 : printed[h] = 1
                /\ printed[LastIP] = 0

\* "returns all host IPs for that network": a scan that ends has printed every
\* host (the comment on hosts).
AllHostsReported == Ended => \A h \in 1 .. LastIP - 1 : printed[h] = 1
=============================================================================

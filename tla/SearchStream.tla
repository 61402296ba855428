---------------------------- MODULE SearchStream ----------------------------
(***************************************************************************)
(* Client.SearchPets: the pets that the handler sends over the stream go   *)
(* through a goroutine and a channel to the caller, which may stop reading *)
(* before the channel is closed.                                           *)
(***************************************************************************)
EXTENDS Naturals, Sequences

CONSTANT MaxPets    \* bound: pets that match

VARIABLES
    found,      \* how many pets the search finds
    sent,       \* how many of them the handler has sent
    wire,       \* what the stream holds: pets in order, and how it ended
    forwarder,  \* the goroutine: where it is and the item it holds
    out,        \* the channel of capacity one
    outOpen,
    got,        \* the items the caller took
    reading     \* the caller still reads

streamVars == <<found, sent, wire, forwarder, out, outOpen, got, reading>>

Pets == 1 .. MaxPets
Broken == MaxPets + 1    \* an item with an error

Init ==
    /\ found \in 0 .. MaxPets /\ sent = 0
    /\ wire = [items |-> <<>>, end |-> "open"]
    /\ forwarder = [at |-> "recv", item |-> Broken]
    /\ out = <<>> /\ outOpen = TRUE
    /\ got = <<>> /\ reading = TRUE

\* The handler sends a pet.
ServerSends ==
    /\ wire.end = "open" /\ sent < found
    /\ sent' = sent + 1
    /\ wire' = [wire EXCEPT !.items = Append(@, sent')]
    /\ UNCHANGED <<found, forwarder, out, outOpen, got, reading>>

\* It returns nil when the search is over, or an error at any time; the
\* connection may break at any time too, with pets still on the way.
ServerEnds ==
    /\ wire.end = "open" /\ sent = found
    /\ wire' = [wire EXCEPT !.end = "eof"]
    /\ UNCHANGED <<found, sent, forwarder, out, outOpen, got, reading>>

StreamBreaks ==
    /\ wire.end = "open"
    /\ \E n \in 0 .. Len(wire.items) : wire' = [items |-> SubSeq(wire.items, 1, n), end |-> "error"]
    /\ UNCHANGED <<found, sent, forwarder, out, outOpen, got, reading>>

Over(end) == wire.items = <<>> /\ wire.end = end

\* Mistake: an error of the stream is taken for its end.
RecvSwallows ==
    /\ forwarder.at = "recv"
    /\ \/ /\ wire.items # <<>>
          /\ forwarder' = [at |-> "send", item |-> Head(wire.items)]
          /\ wire' = [wire EXCEPT !.items = Tail(@)]
       \/ /\ Over("eof") \/ Over("error")
          /\ forwarder' = [forwarder EXCEPT !.at = "close"] /\ UNCHANGED wire
    /\ UNCHANGED <<found, sent, out, outOpen, got, reading>>

\* stream.Recv: a pet, io.EOF, or an error, which becomes the last item.
Recv ==
    /\ forwarder.at = "recv"
    /\ \/ /\ wire.items # <<>>
          /\ forwarder' = [at |-> "send", item |-> Head(wire.items)]
          /\ wire' = [wire EXCEPT !.items = Tail(@)]
       \/ Over("eof") /\ forwarder' = [forwarder EXCEPT !.at = "close"] /\ UNCHANGED wire
       \/ Over("error") /\ forwarder' = [at |-> "send", item |-> Broken] /\ UNCHANGED wire
    /\ UNCHANGED <<found, sent, out, outOpen, got, reading>>

Forward ==
    /\ forwarder.at = "send" /\ out = <<>>
    /\ out' = <<forwarder.item>>
    /\ forwarder' = [forwarder EXCEPT !.at = IF forwarder.item = Broken THEN "close" ELSE "recv"]
    /\ UNCHANGED <<found, sent, wire, outOpen, got, reading>>

\* Mistake: an error leaves the channel open.
CloseUnlessBroken ==
    /\ forwarder.at = "close" /\ forwarder.item # Broken
    /\ outOpen' = FALSE /\ forwarder' = [forwarder EXCEPT !.at = "done"]
    /\ UNCHANGED <<found, sent, wire, out, got, reading>>

Close ==
    /\ forwarder.at = "close"
    /\ outOpen' = FALSE /\ forwarder' = [forwarder EXCEPT !.at = "done"]
    /\ UNCHANGED <<found, sent, wire, out, got, reading>>

Receive ==
    /\ reading /\ out # <<>>
    /\ got' = Append(got, Head(out)) /\ out' = <<>>
    /\ UNCHANGED <<found, sent, wire, forwarder, outOpen, reading>>

\* The caller has what it wants, as findPetInStore has after one pet.
StopReading ==
    /\ reading /\ got # <<>>
    /\ reading' = FALSE
    /\ UNCHANGED <<found, sent, wire, forwarder, out, outOpen, got>>

Steps == ServerSends \/ ServerEnds \/ Recv \/ Forward \/ Close \/ Receive
Next == Steps \/ StreamBreaks \/ StopReading

-----------------------------------------------------------------------------
(* Properties.                                                             *)

\* The type invariant.
TypeOK ==
    /\ found \in 0 .. MaxPets /\ sent \in 0 .. found
    /\ wire.end \in {"open", "eof", "error"} /\ Len(wire.items) <= MaxPets
    /\ forwarder.at \in {"recv", "send", "close", "done"} /\ forwarder.item \in Pets \cup {Broken}
    /\ Len(out) <= 1 /\ outOpen \in BOOLEAN /\ reading \in BOOLEAN

CallerSawEnd == reading /\ ~outOpen /\ out = <<>>

\* A caller that reads to the end of the channel knows where it stands: either
\* it has every pet that the search found, in order, or its last item is an
\* error (Client.SearchPets, Pet.Error).
StreamIsHonest ==
    CallerSawEnd =>
        IF wire.end = "eof"
        THEN got = [k \in 1 .. found |-> k]
        ELSE wire.end = "error" /\ got # <<>> /\ got[Len(got)] = Broken

\* And it gets there, unless it stops reading, which leaves the goroutine
\* waiting for ever once the channel is full.
StreamIsRead == <>(CallerSawEnd \/ ~reading)
=============================================================================

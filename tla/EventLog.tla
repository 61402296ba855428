------------------------------ MODULE EventLog ------------------------------
(***************************************************************************)
(* The event log of the pet store (server/log): callers take an Event from *)
(* a pool, add attributes, and Done renders it to their span and gives it  *)
(* back.  The pool is a channel and a sync.Pool behind it.                 *)
(***************************************************************************)
EXTENDS Naturals, Sequences

CONSTANTS
    User,       \* the goroutines that log
    MaxEvents,  \* bound: Event objects
    BufSize,    \* capacity of the channel, 100 in the code
    MaxUses     \* bound: events a goroutine logs

VARIABLES
    event,      \* the objects allocated: name, attributes, and whether these
                \* are nil, as they are in a new object only
    buf,        \* the channel
    overflow,   \* how often each object is in the sync.Pool
    user,       \* each goroutine: where it is, its object, what it has added
    shared,     \* the goroutines whose object another one got hold of meanwhile
    rendered    \* what each goroutine's last Done put on its span

logVars == <<event, buf, overflow, user, shared, rendered>>

Object == 1 .. MaxEvents
Tag == User \X (1 .. MaxUses)
Blank == [name |-> <<>>, attrs |-> <<>>, nil |-> TRUE]
Nothing == [name |-> <<>>, attrs |-> <<>>]

Init ==
    /\ event = <<>> /\ buf = <<>>
    /\ overflow = [e \in Object |-> 0]
    /\ user = [u \in User |-> [at |-> "idle", uses |-> 0, added |-> 0, ev |-> 1]]
    /\ shared = {}
    /\ rendered = [u \in User |-> Nothing]

MyTag(u) == <<u, user[u].uses>>
Holders(e) == {u \in User : user[u].at # "idle" /\ user[u].ev = e}

\* get, as far as the object is concerned: one of the channel if there is one,
\* else one of the sync.Pool or, if that finds none, a new one.
Gets(e) ==
    IF buf # <<>>
    THEN e = Head(buf) /\ buf' = Tail(buf) /\ UNCHANGED <<event, overflow>>
    ELSE /\ UNCHANGED buf
         /\ \/ overflow[e] > 0 /\ overflow' = [overflow EXCEPT ![e] = @ - 1] /\ UNCHANGED event
            \/ e = Len(event) + 1 /\ event' = Append(event, Blank) /\ UNCHANGED overflow

NewEvent(u) ==
    /\ user[u].at = "idle" /\ user[u].uses < MaxUses
    /\ \E e \in Object :
         /\ Gets(e)
         /\ user' = [user EXCEPT ![u] = [at |-> "name", uses |-> @.uses + 1, added |-> 0, ev |-> e]]
         /\ shared' = IF Holders(e) = {} THEN shared \ {u} ELSE shared \cup {u} \cup Holders(e)
    /\ UNCHANGED rendered

SetName(u) ==
    /\ user[u].at = "name"
    /\ event' = [event EXCEPT ![user[u].ev].name = MyTag(u)]
    /\ user' = [user EXCEPT ![u].at = "open"]
    /\ UNCHANGED <<buf, overflow, shared, rendered>>

\* An event without a name takes no attributes.
Add(u) ==
    /\ user[u].at = "open" /\ user[u].added = 0
    /\ event' = IF event[user[u].ev].name = <<>> THEN event
                ELSE [event EXCEPT ![user[u].ev].attrs = Append(@, MyTag(u)), ![user[u].ev].nil = FALSE]
    /\ user' = [user EXCEPT ![u].added = 1]
    /\ UNCHANGED <<buf, overflow, shared, rendered>>

\* Done renders what the object holds, and an object that was used before also
\* when it has no attributes: reset leaves it an empty list that is not nil.
Render(u) ==
    /\ user[u].at = "open"
    /\ LET ev == event[user[u].ev] IN
         rendered' = [rendered EXCEPT ![u] =
             IF ev.name = <<>> \/ ev.nil THEN Nothing ELSE [name |-> ev.name, attrs |-> ev.attrs]]
    /\ user' = [user EXCEPT ![u].at = "put"]
    /\ UNCHANGED <<event, buf, overflow, shared>>

\* Mistake: the object is given back as it is.
PutUnreset(u) ==
    /\ user[u].at = "put"
    /\ buf' = IF Len(buf) < BufSize THEN Append(buf, user[u].ev) ELSE buf
    /\ overflow' = [overflow EXCEPT ![user[u].ev] = @ + 1]
    /\ user' = [user EXCEPT ![u].at = "idle"]
    /\ UNCHANGED <<event, shared, rendered>>

\* put resets the object and gives it to the channel, if there is room, and to
\* the sync.Pool as well.
Put(u) ==
    /\ user[u].at = "put"
    /\ event' = [event EXCEPT ![user[u].ev].name = <<>>, ![user[u].ev].attrs = <<>>]
    /\ buf' = IF Len(buf) < BufSize THEN Append(buf, user[u].ev) ELSE buf
    /\ overflow' = [overflow EXCEPT ![user[u].ev] = @ + 1]
    /\ user' = [user EXCEPT ![u].at = "idle"]
    /\ UNCHANGED <<shared, rendered>>

Next == \E u \in User : NewEvent(u) \/ SetName(u) \/ Add(u) \/ Render(u) \/ Put(u)

Spec == Init /\ [][Next]_logVars

-----------------------------------------------------------------------------
(* Properties.                                                             *)

\* The type invariant.
TypeOK ==
    /\ Len(event) <= MaxEvents /\ Len(buf) <= BufSize
    /\ \A k \in DOMAIN event : event[k].name \in Tag \cup {<<>>} /\ event[k].nil \in BOOLEAN
    /\ \A k \in DOMAIN buf : buf[k] \in DOMAIN event
    /\ overflow \in [Object -> Nat] /\ shared \subseteq User
    /\ \A u \in User : user[u].at \in {"idle", "name", "open", "put"} /\ user[u].uses \in 0 .. MaxUses

Own(u) == [name |-> MyTag(u), attrs |-> IF user[u].added = 1 THEN <<MyTag(u)>> ELSE <<>>]

\* The event that Done renders is the caller's: its name and all of its
\* attributes, and nothing of anybody else ("You create an event and stuff
\* attributes using Add() until the event is over and call Done(). This will
\* render the event to the current span").
RendersOwn == \A u \in User : user[u].at = "put" => rendered[u] \in {Own(u), Nothing}

\* That much holds of an event with attributes whose object nobody else got hold
\* of, and no event without any shows attributes of an earlier use (reset).
RendersOwnUnlessShared ==
    \A u \in User \ shared : user[u].at = "put" =>
        IF user[u].added = 1 THEN rendered[u] = Own(u) ELSE rendered[u].attrs = <<>>

\* "If there are no attributes on the Event, this is a no-oop": an event without
\* attributes is not rendered (the comments on Event and Done).
EmptyIsIgnored ==
    \A u \in User \ shared : user[u].at = "put" /\ user[u].added = 0 => rendered[u] = Nothing
=============================================================================

------------------------------- MODULE Events -------------------------------
(***************************************************************************)
(* The alarm store, the event bus and its subscribers: alarm.go in         *)
(* internal/orchestrator/network, internal/events/bus.go, and the event    *)
(* stream of internal/api/events.go, read by a client that keeps the set   *)
(* of active alarms from the events and sends the last id it saw when it   *)
(* connects again.                                                         *)
(*                                                                         *)
(* The store notifies inside its mutex, one event at a time: emitting is   *)
(* what the operation that holds it has still to publish.  Other events    *)
(* and the clients get in between; other operations on alarms do not.      *)
(***************************************************************************)
EXTENDS Integers, SequencesExt

CONSTANTS
    Alarms,      \* scope, code and source of an alarm
    Scope,       \* scope of each alarm
    Clients,     \* connections of /events
    SubBuffer,   \* subBuffer: events a subscriber may lag behind
    HistMaxLen   \* histMaxLen: events kept for a replay

ASSUME EventsAssumption ==
    /\ IsFiniteSet(Alarms) /\ IsFiniteSet(Clients) /\ Alarms \subseteq DOMAIN Scope
    /\ SubBuffer \in Nat \ {0} /\ HistMaxLen \in Nat \ {0}

VARIABLES
    table,      \* AlarmStore.byKey: state of each alarm
    emitting,   \* events the holder of the mutex of the store has to publish
    seq,        \* Bus.seq
    history,    \* Bus.history
    client      \* each client and the handler that serves it

eventVars == <<table, emitting, seq, history, client>>

\* pc: off, replay (between Since and Subscribe), live.  queue: what is on its
\* way; gap: first event this connection will not bring (0: none); lost: the
\* client has passed an event it did not get.
Off == [pc |-> "off", queue |-> <<>>, last |-> 0, view |-> {}, gap |-> 0, lost |-> FALSE]

EventsInit ==
    /\ table = [a \in Alarms |-> "none"]
    /\ emitting = <<>> /\ seq = 0 /\ history = <<>>
    /\ client = [c \in Clients |-> Off]

\* What is published; of any other event only the number matters here.
Entries == [type : {"alarm-raised", "alarm-resolved"}, alarm : Alarms, id : Nat]
           \cup [type : {"other"}, alarm : {{}}, id : Nat]

EventsTypeOK ==
    /\ table \in [Alarms -> {"none", "active", "resolved"}]
    /\ emitting \in Seq(Entries)
    /\ seq \in Nat /\ history \in Seq(Entries) /\ Len(history) <= HistMaxLen
    /\ client \in [Clients -> [pc : {"off", "replay", "live"}, queue : Seq(Entries), last : Nat,
                               view : SUBSET Alarms, gap : Nat, lost : BOOLEAN]]
    /\ \A c \in Clients : client[c].pc = "live" => Len(client[c].queue) <= SubBuffer

Active == {a \in Alarms : table[a] = "active"}
Event(type, a) == [type |-> type, alarm |-> a, id |-> 0]

\* Publish: numbered, kept for replays, and handed to each subscriber that has
\* room for it.  It is never waited for a subscriber.
Publish(e) ==
    LET ev == [e EXCEPT !.id = seq + 1]
        longer == Append(history, ev)
        Missed(c) == [c EXCEPT !.gap = IF @ = 0 THEN ev.id ELSE @]
        Hand(c) == CASE c.pc = "off" -> c
                     [] c.pc = "replay" -> Missed(c)
                     [] c.pc = "live" /\ Len(c.queue) < SubBuffer
                          -> [c EXCEPT !.queue = Append(@, ev)]
                     [] OTHER -> Missed(c)
    IN /\ seq' = seq + 1
       /\ history' = IF Len(longer) > HistMaxLen THEN Tail(longer) ELSE longer
       /\ client' = [c \in Clients |-> Hand(client[c])]

\* The orders in which the elements of a set can be gone through.
Orders(S) == {order \in [1..Cardinality(S) -> S] : Range(order) = S}
AlarmEvents(type, order) == [i \in DOMAIN order |-> Event(type, order[i])]

\* Raise: an alarm that is active keeps its time and emits nothing.
Raise(a) ==
    /\ emitting = <<>>
    /\ table' = [table EXCEPT ![a] = "active"]
    /\ emitting' = IF a \in Active THEN <<>> ELSE <<Event("alarm-raised", a)>>
    /\ UNCHANGED <<seq, history, client>>

Resolve(a) ==
    /\ emitting = <<>> /\ a \in Active
    /\ table' = [table EXCEPT ![a] = "resolved"]
    /\ emitting' = <<Event("alarm-resolved", a)>>
    /\ UNCHANGED <<seq, history, client>>

Synced(ours, failures) ==
    [a \in Alarms |-> IF a \in failures THEN "active"
                      ELSE IF a \in ours \cap Active THEN "resolved"
                      ELSE table[a]]

\* Mutant: what is not reported any more is resolved without an event.
SlipSync(s, failures) ==
    LET ours == {a \in Alarms : Scope[a] = s}
    IN /\ emitting = <<>> /\ failures \subseteq ours
       /\ table' = Synced(ours, failures)
       /\ \E up \in Orders(failures \ Active) : emitting' = AlarmEvents("alarm-raised", up)
       /\ UNCHANGED <<seq, history, client>>

\* Sync: the failures reported for a scope become its active alarms; those no
\* longer reported are resolved, in the order of a Go map.
Sync(s, failures) ==
    LET ours == {a \in Alarms : Scope[a] = s}
    IN /\ emitting = <<>> /\ failures \subseteq ours
       /\ table' = Synced(ours, failures)
       /\ \E up \in Orders(failures \ Active), down \in Orders((ours \cap Active) \ failures) :
             emitting' = AlarmEvents("alarm-raised", up) \o AlarmEvents("alarm-resolved", down)
       /\ UNCHANGED <<seq, history, client>>

\* Clear: only resolved alarms are removed, and nothing is published.
Clear(S) ==
    /\ emitting = <<>> /\ \A a \in S : table[a] = "resolved"
    /\ table' = [a \in Alarms |-> IF a \in S THEN "none" ELSE table[a]]
    /\ UNCHANGED <<emitting, seq, history, client>>

\* The notifier of the alarm store (main.go).
Emit ==
    /\ emitting # <<>>
    /\ Publish(Head(emitting)) /\ emitting' = Tail(emitting)
    /\ UNCHANGED table

\* A commit, an action on a machine or the progress of an image.
PublishOther == Publish(Event("other", {})) /\ UNCHANGED <<table, emitting>>
-----------------------------------------------------------------------------
\* Since: the events that are kept and numbered after n; they are kept in their order.
Since(n) ==
    LET before == Cardinality({i \in DOMAIN history : history[i].id <= n})
    IN SubSeq(history, before + 1, Len(history))

\* handleEvents, the replay: Since(Last-Event-ID).  What the history no longer
\* holds, and what was numbered before a restart, cannot be replayed.
Connect(c) ==
    LET last == client[c].last
        kept == Since(last)
    IN /\ client[c].pc = "off"
       /\ client' = [client EXCEPT
            ![c].pc = "replay", ![c].queue = kept, ![c].gap = 0,
            ![c].lost = @ \/ \E n \in (last + 1)..seq : \A ev \in Range(kept) : ev.id # n]
       /\ UNCHANGED <<table, emitting, seq, history>>

Subscribe(c) ==
    /\ client[c].pc = "replay" /\ client[c].queue = <<>>
    /\ client' = [client EXCEPT ![c].pc = "live"]
    /\ UNCHANGED <<table, emitting, seq, history>>

\* writeSSE of one event, read by the client.
Deliver(c) ==
    LET ev == Head(client[c].queue)
    IN /\ client[c].queue # <<>>
       /\ client' = [client EXCEPT
            ![c].queue = Tail(@), ![c].last = ev.id,
            ![c].lost = @ \/ (client[c].gap # 0 /\ client[c].gap < ev.id),
            ![c].view = CASE ev.type = "alarm-raised" -> @ \cup {ev.alarm}
                          [] ev.type = "alarm-resolved" -> @ \ {ev.alarm}
                          [] OTHER -> @]
       /\ UNCHANGED <<table, emitting, seq, history>>

\* The connection ends: what was on its way is dropped.
Disconnect(c) ==
    /\ client[c].pc # "off"
    /\ client' = [client EXCEPT ![c].pc = "off", ![c].queue = <<>>, ![c].gap = 0]
    /\ UNCHANGED <<table, emitting, seq, history>>

\* Alarms, numbers and history begin anew.
EventsRestart ==
    /\ table' = [a \in Alarms |-> "none"]
    /\ emitting' = <<>> /\ seq' = 0 /\ history' = <<>>
    /\ client' = [c \in Clients |->
         [client[c] EXCEPT !.pc = "off", !.queue = <<>>, !.gap = 0, !.lost = @ \/ client[c].last > 0]]

(***************************************************************************)
(* What a client makes of the events is what the alarm store holds: one    *)
(* that is connected, has read what was sent and missed nothing for a      *)
(* reason the code names (its buffer was full, the history was cut, the    *)
(* daemon started anew, or the event fell between the replay and the       *)
(* subscription) knows exactly the active alarms, whatever raised,         *)
(* resolved or synchronised them and however often it lost its connection. *)
(***************************************************************************)
ViewTrue ==
    \A c \in Clients :
        /\ client[c].pc = "live" /\ client[c].queue = <<>> /\ emitting = <<>>
        /\ client[c].gap = 0 /\ ~client[c].lost
        => client[c].view = Active

=============================================================================

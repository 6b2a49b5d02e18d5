--------------------------- MODULE MessageContent ---------------------------
(***************************************************************************)
(* What a Message carries from send() to recv(): the copies that are made  *)
(* of it, the bytes it is stored and cached as, what recv() restores from  *)
(* them, and the selector that lets it in.                                 *)
(*                                                                         *)
(* One session of an application sends to and receives from two queues,    *)
(* with one producer and one consumer on each.  The order in which         *)
(* messages leave a queue, the expiry, the backoff and the dead-letter     *)
(* queue are those of PriorityQueue, QueueDelivery and DeliveryScheduler:  *)
(* here recv() may take any queued message.  A remove the storage worker   *)
(* is asked for is done at once.                                           *)
(***************************************************************************)
EXTENDS Selector, FiniteSets, TLC

CONSTANTS
    Selecting, Plain,  \* two queues; the consumer of the first has the selector
    Texts,             \* the selector expressions the application may pass
    Used,              \* those with which it goes on to send messages
    Names, PropertyValues,     \* property names, and property values [type, null, v]
    Settable,          \* those of the values it sets on its messages
    Bodies,            \* message bodies [kind, data]
    Created,           \* messages [reliability, priority, deliveryTime, body] it may make
    Options,           \* SendOptions [deliveryMode, priority, deliveryDelay]
    NoOptions,         \* send() without any
    ForwardsInTransactions,   \* does it forward received messages in a transaction?
    MaxMessages, MaxObjects, MaxSets, MaxCount, MaxRestarts   \* bounds

VARIABLES
    text, selector,    \* the expression, and the result of parsing it
    transacted,        \* is the session SESSION_TRANSACTED?
    obj,               \* the Message objects, in the order they were made
    store,             \* the records of each destination's storage, by location
    buffer,            \* _bufferedData of each destination: uuid to bytes
    sets, restarts     \* counts for the bounds

vars == <<text, selector, transacted, obj, store, buffer, sets, restarts>>

None == 0              \* no location: max() in the code
NoBytes == <<>>
Unparsed == <<>>
Queues == {Selecting, Plain}
Soon == 1              \* a deliveryTime the scheduler accepts
Far == 2               \* one beyond kMaxFutureHeaderMs

-----------------------------------------------------------------------------
(* The wire format.                                                        *)

\* what Properties::fromJSON makes of a property it wrote: getValue() of a null throws,
\* a null or empty array of bytes is skipped
Throws(props) == \E n \in DOMAIN props : props[n].null /\ props[n].type # "BYTE_ARRAY"
Readable(props) ==
    {n \in DOMAIN props : ~props[n].null /\ ~(props[n].type = "BYTE_ARRAY" /\ props[n].v = <<>>)}

\* setProperty() is an emplace: a name keeps the value it has
PropertiesFromJSON(own, props) == own @@ [n \in Readable(props) |-> props[n]]

\* setDataFromBytes() of each kind of message; own is what the message had before
BodyThrows(body) == body.kind = "MAP" /\ Throws(body.data)
Written(stream) == SelectSeq(stream, LAMBDA p : ~(p.type = "BYTE_ARRAY" /\ p.v = <<>>))

\* Mutant: the stream is not cleared before it is read back
DataAppended(own, body) ==
    CASE body.kind = "MAP" -> [n \in Readable(body.data) |-> body.data[n]]
      [] body.kind = "STREAM" -> own \o Written(body.data)
      [] OTHER -> body.data

DataFromBytes(own, body) ==
    CASE body.kind = "MAP" -> [n \in Readable(body.data) |-> body.data[n]]
      [] body.kind = "STREAM" -> Written(body.data)
      [] OTHER -> body.data

toBytes(o) ==
    [priority |-> o.priority, deliveryTime |-> o.deliveryTime, deliveryCount |-> o.deliveryCount,
     redelivered |-> o.redelivered, props |-> o.props, body |-> o.body]

FromBytesThrows(b) == Throws(b.props) \/ BodyThrows(b.body)

fromBytes(o, b) ==
    [o EXCEPT !.priority = b.priority, !.deliveryTime = b.deliveryTime,
              !.deliveryCount = b.deliveryCount, !.redelivered = b.redelivered,
              !.props = PropertiesFromJSON(@, b.props),
              !.body.data = IF b.body.data = <<>> THEN @ ELSE DataFromBytes(@, b.body)]

isPersistent(o) == o.reliability = "PERSISTENT"

\* Mutant: the header is changed and the bytes are not
PatchNothing(o, t) == o

patchCachedDeliveryTime(o, t) ==
    IF o.cached = NoBytes THEN o ELSE [o EXCEPT !.cached.deliveryTime = t]

refreshCachedStorageBytes(o) == IF isPersistent(o) THEN [o EXCEPT !.cached = toBytes(o)] ELSE o

\* the band of a priority, and the delivery time replay reads from a record
Clamped(priority) == IF priority < 0 THEN 0 ELSE IF priority > 9 THEN 9 ELSE priority
deliveryTimeFromStorageBytes(b) == IF b.deliveryTime < 0 \/ b.deliveryTime = Far THEN 0 ELSE b.deliveryTime

-----------------------------------------------------------------------------
(* The application makes a message and changes it.                         *)

Ready == selector # Unparsed /\ selector.ok /\ text \in Used

In(place) == {i \in DOMAIN obj : obj[i].place = place}
App == In("app")
Staged == In("staged")
Queued == In("queued")
Held == In("held")

\* the object is destroyed; that there was one is history
Dropped(o) == [place |-> "gone", at |-> o.at, uuid |-> o.uuid]

Init ==
    /\ text \in Texts
    /\ selector = Unparsed
    /\ transacted \in BOOLEAN
    /\ obj = <<>>
    /\ store = [d \in Queues |-> <<>>]
    /\ buffer = [d \in Queues |-> <<>>]
    /\ sets = 0 /\ restarts = 0

CreateConsumer ==
    /\ selector = Unparsed
    /\ selector' = parse(text)
    /\ UNCHANGED <<text, transacted, obj, store, buffer, sets, restarts>>

\* Session::create...Message(), and the headers the application sets itself
Create(m) ==
    /\ Ready
    /\ Cardinality({obj[i].uuid : i \in DOMAIN obj}) < MaxMessages
    /\ Len(obj) < MaxObjects
    /\ obj' = Append(obj,
          [place |-> "app", at |-> Selecting, shell |-> FALSE,
           uuid |-> 1 + Cardinality({obj[i].uuid : i \in DOMAIN obj}),
           reliability |-> m.reliability, priority |-> m.priority,
           deliveryTime |-> m.deliveryTime, deliveryCount |-> 0, redelivered |-> FALSE,
           props |-> <<>>, body |-> m.body, cached |-> NoBytes, loc |-> None, delay |-> 0,
           sent |-> <<>>])
    /\ UNCHANGED <<text, selector, transacted, store, buffer, sets, restarts>>

setProperty(i, name, value) ==
    /\ obj[i].place = "app"
    /\ sets < MaxSets /\ sets' = sets + 1
    /\ obj' = [obj EXCEPT ![i].props = @ @@ (name :> value)]
    /\ UNCHANGED <<text, selector, transacted, store, buffer, restarts>>

\* setText(), write(): the application reuses its message with another body
SetBody(i, body) ==
    /\ obj[i].place = "app" /\ obj[i].body.kind = body.kind /\ obj[i].body # body
    /\ sets < MaxSets /\ sets' = sets + 1
    /\ obj' = [obj EXCEPT ![i].body = body]
    /\ UNCHANGED <<text, selector, transacted, store, buffer, restarts>>

-----------------------------------------------------------------------------
(* send() and the queue.                                                   *)

applyOptions(o, opts) ==
    IF opts = NoOptions THEN o
    ELSE LET due == IF opts.deliveryDelay > 0 THEN Soon ELSE 0
         IN  [o EXCEPT !.reliability = opts.deliveryMode, !.priority = opts.priority,
                       !.deliveryTime = IF transacted THEN 0 ELSE due,
                       !.delay = IF transacted THEN opts.deliveryDelay ELSE 0]

\* DeliveryScheduler::enqueueOrSchedule: queued now, or when it is due
enqueueOrSchedule(o) ==
    [(IF o.deliveryTime = Far
      THEN patchCachedDeliveryTime([o EXCEPT !.deliveryTime = 0], 0) ELSE o)
     EXCEPT !.place = "queued"]

\* a Record of the bytes of o, with what was sent as history
RecordOf(o) == [uuid |-> o.uuid, bytes |-> toBytes(o), deleted |-> FALSE, sent |-> o.sent]

\* the copy push() makes of o for destination d
Copy(o, d) ==
    refreshCachedStorageBytes(
        [o EXCEPT !.at = d, !.shell = FALSE, !.sent = [props |-> o.props, data |-> o.body.data]])

\* Mutant: the copy keeps the location it was copied with
PushUnlocated(c, d) ==
    IF transacted THEN [c EXCEPT !.place = "staged"] ELSE enqueueOrSchedule(c)

\* a stored copy knows its record; a staged one has none yet
Push(c, d) ==
    IF transacted THEN [c EXCEPT !.place = "staged"]
    ELSE enqueueOrSchedule(IF isPersistent(c) THEN [c EXCEPT !.loc = Len(store[d]) + 1] ELSE c)

\* Mutant: the selector is not asked.
Unfiltered(o, d) == TRUE

Accepts(o, d) == d = Selecting => matches(selector.e, o.props)

\* How the application uses send(): in transactions it sends an object once to a queue, and
\* it forwards a received message with the delivery mode that one has.
MaySend(o, d, opts) ==
    /\ transacted => \A k \in DOMAIN obj : obj[k].at = d /\ obj[k].uuid = o.uuid => k \in App
    /\ o.place = "held" =>
          /\ transacted => ForwardsInTransactions
          /\ opts # NoOptions => opts.deliveryMode = o.reliability

Send(i, d, opts) ==
    LET o == applyOptions(obj[i], opts)
        c == Copy(o, d)
    IN  /\ obj[i].place \in {"app", "held"}
        /\ MaySend(obj[i], d, opts)
        /\ IF Accepts(o, d)
           THEN /\ Len(obj) < MaxObjects
                /\ obj' = Append([obj EXCEPT ![i] = o], Push(c, d))
                /\ store' = IF isPersistent(c) /\ ~transacted
                            THEN [store EXCEPT ![d] = Append(@, RecordOf(c))] ELSE store
                /\ buffer' = IF isPersistent(c) /\ transacted
                             THEN [buffer EXCEPT ![d] = (c.uuid :> RecordOf(c)) @@ @] ELSE buffer
           ELSE obj' = [obj EXCEPT ![i] = o] /\ UNCHANGED <<store, buffer>>
        /\ UNCHANGED <<text, selector, transacted, sets, restarts>>

-----------------------------------------------------------------------------
(* recv(), acknowledge and redelivery.                                     *)

Live(d, uuid) == {k \in DOMAIN store[d] : store[d][k].uuid = uuid /\ ~store[d][k].deleted}

\* the record acknowledgeOn() and commit() remove: the one the message knows, else the index's
RecordsOf(o) ==
    IF ~isPersistent(o) THEN {}
    ELSE IF o.loc # None THEN {o.loc}
    ELSE {k \in Live(o.at, o.uuid) : \A j \in Live(o.at, o.uuid) : j <= k}

Removed(removed) ==
    [d \in Queues |-> [k \in DOMAIN store[d] |->
        IF k \in UNION {RecordsOf(o) : o \in {p \in removed : p.at = d}}
        THEN [store[d][k] EXCEPT !.deleted = TRUE] ELSE store[d][k]]]

\* the bytes recv() restores the message from: the cache, else the record
StoredBytes(o) ==
    IF ~isPersistent(o) THEN {}
    ELSE IF o.cached # NoBytes THEN {o.cached}
    ELSE {store[o.at][k].bytes : k \in Live(o.at, o.uuid)}

Recv(i) ==
    /\ obj[i].place = "queued"
    /\ \A b \in StoredBytes(obj[i]) : ~FromBytesThrows(b)
    /\ \E restored \in IF StoredBytes(obj[i]) = {} THEN {obj[i]}
                       ELSE {fromBytes(obj[i], b) : b \in StoredBytes(obj[i])} :
          obj' = [obj EXCEPT ![i] = [restored EXCEPT !.cached = NoBytes, !.place = "held"]]
    /\ UNCHANGED <<text, selector, transacted, store, buffer, sets, restarts>>

\* fromBytes() throws: the message has left the queue and is in nobody's hands
RecvThrows(i) ==
    /\ obj[i].place = "queued"
    /\ \E b \in StoredBytes(obj[i]) : FromBytesThrows(b)
    /\ obj' = [obj EXCEPT ![i] = Dropped(@)]
    /\ UNCHANGED <<text, selector, transacted, store, buffer, sets, restarts>>

Acknowledge(i) ==
    /\ ~transacted /\ obj[i].place = "held"
    /\ store' = Removed({obj[i]})
    /\ obj' = [obj EXCEPT ![i] = Dropped(@)]
    /\ UNCHANGED <<text, selector, transacted, buffer, sets, restarts>>

\* redeliver() without a backoff and below maxRedeliveries
redeliver(o) ==
    [refreshCachedStorageBytes([o EXCEPT !.redelivered = TRUE, !.deliveryCount = @ + 1,
                                         !.deliveryTime = 0, !.shell = FALSE])
     EXCEPT !.place = "queued"]

Recover ==
    /\ ~transacted /\ Held # {}
    /\ \A i \in Held : obj[i].deliveryCount < MaxCount
    /\ obj' = [i \in DOMAIN obj |-> IF i \in Held THEN redeliver(obj[i]) ELSE obj[i]]
    /\ UNCHANGED <<text, selector, transacted, store, buffer, sets, restarts>>

-----------------------------------------------------------------------------
(* Transactions and restart.                                               *)

\* commit() starts the clock of a delayed message and patches both copies of its bytes
Resolved(o) ==
    IF o.delay = 0 THEN o
    ELSE patchCachedDeliveryTime([o EXCEPT !.deliveryTime = Soon, !.delay = 0], Soon)

Patched(rec, d) ==
    IF \E i \in Staged : obj[i].at = d /\ obj[i].uuid = rec.uuid /\ obj[i].delay > 0
    THEN [rec EXCEPT !.bytes.deliveryTime = Soon] ELSE rec

\* the records of the transaction in d, in the order the messages were staged
Batch(d) ==
    LET uuids == SelectSeq([i \in DOMAIN obj |-> IF i \in Staged /\ obj[i].at = d THEN obj[i].uuid ELSE 0],
                           LAMBDA u : u \in DOMAIN buffer[d])
    IN  [k \in DOMAIN uuids |-> Patched(buffer[d][uuids[k]], d)]

\* the producers' part, then the consumers': what was received is acknowledged
Commit ==
    /\ transacted /\ Staged \cup Held # {}
    /\ LET removed == Removed({obj[i] : i \in Held})
       IN  store' = [d \in Queues |-> removed[d] \o Batch(d)]
    /\ obj' = [i \in DOMAIN obj |->
                  IF i \in Staged THEN enqueueOrSchedule(Resolved(obj[i]))
                  ELSE IF i \in Held THEN Dropped(obj[i]) ELSE obj[i]]
    /\ buffer' = [d \in Queues |-> <<>>]
    /\ UNCHANGED <<text, selector, transacted, sets, restarts>>

Rollback ==
    /\ transacted /\ Staged \cup Held # {}
    /\ \A i \in Held : obj[i].deliveryCount < MaxCount
    /\ obj' = [i \in DOMAIN obj |->
                  IF i \in Staged THEN Dropped(obj[i])
                  ELSE IF i \in Held THEN redeliver(obj[i]) ELSE obj[i]]
    /\ buffer' = [d \in Queues |-> <<>>]
    /\ UNCHANGED <<text, selector, transacted, store, sets, restarts>>

\* replayFromStorage(): an empty message of the right type around the bytes of a record
Shell(d, k) ==
    LET rec == store[d][k]
        due == deliveryTimeFromStorageBytes(rec.bytes)
    IN  enqueueOrSchedule(patchCachedDeliveryTime(
            [place |-> "queued", at |-> d, shell |-> TRUE, uuid |-> rec.uuid,
             reliability |-> "PERSISTENT", priority |-> Clamped(rec.bytes.priority),
             deliveryTime |-> due, deliveryCount |-> 0, redelivered |-> FALSE,
             props |-> <<>>, body |-> [kind |-> rec.bytes.body.kind, data |-> <<>>],
             cached |-> rec.bytes, loc |-> k, delay |-> 0, sent |-> rec.sent], due))

Replayed(d) ==
    LET live == SelectSeq([k \in DOMAIN store[d] |-> k], LAMBDA k : ~store[d][k].deleted)
    IN  [j \in DOMAIN live |-> Shell(d, live[j])]

\* a crash: the memory is lost, and every destination replays its storage
Restart ==
    /\ restarts < MaxRestarts /\ restarts' = restarts + 1
    /\ obj' = [i \in DOMAIN obj |-> Dropped(obj[i])] \o Replayed(Selecting) \o Replayed(Plain)
    /\ buffer' = [d \in Queues |-> <<>>]
    /\ UNCHANGED <<text, selector, transacted, store, sets>>

Next ==
    \/ CreateConsumer
    \/ \E m \in Created : Create(m)
    \/ \E i \in DOMAIN obj, n \in Names, v \in Settable : setProperty(i, n, v)
    \/ \E i \in DOMAIN obj, body \in Bodies : SetBody(i, body)
    \/ \E i \in DOMAIN obj, d \in Queues, opts \in Options \cup {NoOptions} : Send(i, d, opts)
    \/ \E i \in DOMAIN obj : Recv(i)
    \/ \E i \in DOMAIN obj : RecvThrows(i)
    \/ \E i \in DOMAIN obj : Acknowledge(i)
    \/ Recover
    \/ Commit
    \/ Rollback
    \/ Restart

Spec == Init /\ [][Next]_vars

-----------------------------------------------------------------------------
(* Properties.                                                             *)

Fresh == selector # Unparsed /\ obj = <<>>

(* The parser accepts exactly the texts of the grammar its comment states  *)
(* (Selector.cpp:287), and builds the one tree that grammar gives them.    *)
ParsesGrammar ==
    Fresh /\ text # <<>> => OrTrees(text) = IF selector.ok THEN {selector.e} ELSE {}

(* What a selector evaluates to, whatever the properties of the message:   *)
(* a TRUE or FALSE is one the comparisons can give, NULL stands for a      *)
(* truth value that really is open, and without negations a selector lets  *)
(* in no message on a comparison with a value that is missing.             *)
SelectorSound ==
    Fresh /\ selector.ok =>
        \A props \in UNION {[N -> PropertyValues] : N \in SUBSET Names} :
            LET v == Eval(selector.e, props)
                possible == Possible(selector.e, props)
            IN  /\ IsBool(v) => v.v \in possible
                /\ ~IsBool(v) => possible = BOOLEAN
                /\ IsBool(v) /\ v.v /\ Positive(selector.e) => possible = {TRUE}

(* A received message has the body it was sent with and exactly its        *)
(* properties, less the empty ones the wire format cannot express: after   *)
(* any number of copies, redeliveries and restarts, and whatever the       *)
(* application did to its own object since send() (Message.cpp:170).       *)
ContentKept ==
    \A i \in Held :
        LET o == obj[i]
        IN  /\ o.body.data \in {o.sent.data, DataFromBytes(o.sent.data, [o.body EXCEPT !.data = o.sent.data])}
            /\ Readable(o.sent.props) \subseteq DOMAIN o.props
            /\ \A n \in DOMAIN o.props : n \in DOMAIN o.sent.props /\ o.props[n] = o.sent.props[n]

(* The headers of a waiting message and the bytes recv() will restore them *)
(* from agree, and a persistent one has such bytes: no clamp of the        *)
(* scheduler or of replay, no delay resolved at commit and no redelivery   *)
(* is undone by recv() (the drift of Destination.cpp:181).  A replayed     *)
(* shell learns its delivery count from the bytes.                         *)
CacheAgrees ==
    \A i \in Staged \cup Queued :
        LET o == obj[i]
        IN  isPersistent(o) =>
              /\ o.cached # NoBytes
              /\ Clamped(o.cached.priority) = Clamped(o.priority)
              /\ o.cached.deliveryTime = o.deliveryTime
              /\ ~o.shell => /\ o.cached.deliveryCount = o.deliveryCount
                             /\ o.cached.redelivered = o.redelivered

(* The record an acknowledgement will remove is the message's own, is      *)
(* there, and is no other message's: the location cached on the message    *)
(* saves the lookup by uuid and gives the same answer (Message.h:51).      *)
RecordIsOwn ==
    \A i \in Queued \cup Held : isPersistent(obj[i]) =>
        \E k \in Live(obj[i].at, obj[i].uuid) :
            /\ RecordsOf(obj[i]) = {k}
            /\ \A j \in (Queued \cup Held) \ {i} : obj[j].at = obj[i].at => RecordsOf(obj[j]) # {k}

(* What the consumer with the selector receives satisfies the selector in  *)
(* the form it is received in, replayed messages included, although the    *)
(* selector was applied to the application's object (Consumer.cpp:228).    *)
ReceivedMatches ==
    \A i \in Held : obj[i].at = Selecting => matches(selector.e, obj[i].props)
=============================================================================

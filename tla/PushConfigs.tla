---------------------------- MODULE PushConfigs ----------------------------
(* Push notifications: the two stores of webhook configurations, the        *)
(* requests that change them, and the consumers that send: each fans out    *)
(* the events it reads to every webhook registered for their task, one      *)
(* event after the other, while other consumers send theirs (of one task    *)
(* too, in the older handler) and the configurations go on changing.        *)
EXTENDS Naturals, Sequences, Functions

CONSTANTS PushOwners,       \* callers that own a task
          PushTasks,        \* task ids; they serve as the id of a configuration without one
          PushIds,          \* configuration ids a caller gives
          NoId,             \* no configuration id given
          PushUrls,
          PushSenders,      \* consumers of events: of an active task, or of one older request
          MaxPushEvents,    \* bound: events sent
          MaxPushChanges    \* bound: requests that change a configuration

VARIABLES pushMode,         \* the store, its key, and whether a validator or hooks are asked
          pushRows,         \* stored configurations
          pushRegistry,     \* what the callers were promised: their own, last set, not deleted
          pushTaken,        \* the promises another owner's set wrote over
          pushChanges, pushEvents,
          pushSend,         \* sender -> the event it sends
          pushPosts         \* sender -> configuration -> the events it called the webhook for
pushStore == <<pushRows, pushRegistry, pushTaken, pushChanges>>
pushVars == <<pushMode, pushStore, pushEvents, pushSend, pushPosts>>

(* ---- rows ---- *)
NormalizedId(task, id) == IF id = NoId THEN task ELSE id
ToRow(owner, task, id, url) ==
    [owner |-> owner, task |-> task, id |-> NormalizedId(task, id), url |-> url,
     sealed |-> pushMode.key]
\* a set replaces the owner's configuration in memory, the primary key's in the database
SetOver(owner, task, id) ==
    {r \in pushRows : /\ r.task = task /\ r.id = NormalizedId(task, id)
                      /\ pushMode.kind = "memory" => r.owner = owner}
\* delete_info: one configuration, or all of the task when no id is given
DeletedConfigs(owner, task, id) ==
    {r \in pushRows : r.owner = owner /\ r.task = task /\ (id = NoId \/ r.id = id)}
\* a payload that the key does not open is tried as plain JSON
Decrypted(r) == pushMode.key # "none" /\ r.sealed = pushMode.key
Readable(r) == Decrypted(r) \/ r.sealed = "none"
ParsedConfig(r) == [owner |-> r.owner, task |-> r.task, id |-> r.id, url |-> r.url]
\* a row that cannot be read is left out, the others are returned
SelectConfigs(rows) == {ParsedConfig(r) : r \in {q \in rows : Readable(q)}}
GetInfo(owner, task) == SelectConfigs({r \in pushRows : r.task = task /\ r.owner = owner})
\* bug variant: the base class's fallback, a read for the owner of an empty context
DispatchForNobody(task) == SelectConfigs({r \in pushRows : r.task = task /\ r.owner = ""})
GetInfoForDispatch(task) == SelectConfigs({r \in pushRows : r.task = task})

PushInit ==
    /\ pushMode \in [kind : {"memory", "database"}, key : {"none", "k1"}, asks : BOOLEAN]
    /\ pushMode.kind = "memory" => pushMode.key = "none"
    /\ pushRows = {} /\ pushRegistry = {} /\ pushTaken = {} /\ pushChanges = 0 /\ pushEvents = 0
    /\ pushPosts = [p \in PushSenders |-> <<>>]
    /\ pushSend = [p \in PushSenders |-> [event |-> 0, phase |-> "idle", audience |-> {},
                                          stage |-> <<>>]]

(* ---- requests ---- *)
SameConfig(task, id) ==
    {c \in pushRegistry : c.task = task /\ c.id = NormalizedId(task, id)}
OwnConfigs(owner, configs) == {c \in configs : c.owner = owner}
\* a caller's own configuration is replaced; one of another owner stays promised
Registered(owner, task, id, url) ==
    (pushRegistry \ OwnConfigs(owner, SameConfig(task, id)))
       \cup {[owner |-> owner, task |-> task, id |-> NormalizedId(task, id), url |-> url]}
\* the primary key has no owner: in the database another owner's configuration is gone
TakenOver(owner, task, id) ==
    (pushTaken \ OwnConfigs(owner, SameConfig(task, id)))
       \cup {c \in SameConfig(task, id) : c.owner # owner /\ pushMode.kind = "database"}
\* a URL the validator refuses is never stored
CreateConfig ==
    \E owner \in PushOwners, task \in PushTasks, id \in PushIds \cup {NoId}, url \in PushUrls :
        /\ pushChanges < MaxPushChanges /\ pushChanges' = pushChanges + 1
        /\ pushRows' = (pushRows \ SetOver(owner, task, id)) \cup {ToRow(owner, task, id, url)}
        /\ pushRegistry' = Registered(owner, task, id, url)
        /\ pushTaken' = TakenOver(owner, task, id)
        /\ UNCHANGED <<pushMode, pushEvents, pushSend, pushPosts>>
\* a row of an earlier server, without a key or under a lost one
StoredEarlier ==
    \E owner \in PushOwners, task \in PushTasks, sealed \in {"none", "lost"} :
        /\ pushMode.kind = "database" /\ pushRows = {} /\ pushChanges = 0 /\ pushEvents = 0
        /\ pushChanges' = 1
        /\ pushRows' = {[owner |-> owner, task |-> task, id |-> task, url |-> "u",
                         sealed |-> sealed]}
        /\ pushRegistry' = IF sealed = "none" THEN Registered(owner, task, NoId, "u") ELSE {}
        /\ UNCHANGED <<pushMode, pushTaken, pushEvents, pushSend, pushPosts>>
DeleteConfig ==
    \E owner \in PushOwners, task \in PushTasks, id \in PushIds \cup {NoId} :
        LET gone == {c \in pushRegistry :
                       c.owner = owner /\ c.task = task /\ (id = NoId \/ c.id = id)}
        IN /\ pushChanges < MaxPushChanges /\ pushChanges' = pushChanges + 1
           /\ pushRows' = pushRows \ DeletedConfigs(owner, task, id)
           /\ pushRegistry' = pushRegistry \ gone /\ pushTaken' = pushTaken \ gone
           /\ UNCHANGED <<pushMode, pushEvents, pushSend, pushPosts>>

(* ---- the senders ---- *)
Standing == pushRegistry \ pushTaken
TakesEvent(p) ==
    /\ pushSend[p].phase = "idle" /\ pushEvents < MaxPushEvents
    /\ pushEvents' = pushEvents + 1
    /\ UNCHANGED <<pushMode, pushStore, pushPosts>>
\* the configurations are read once for an event
BeginSend(p) ==
    \E task \in PushTasks :
        /\ TakesEvent(p)
        /\ pushSend' = [pushSend EXCEPT ![p] =
                [event |-> pushEvents + 1, phase |-> "sending",
                 audience |-> {c \in Standing : c.task = task},
                 stage |-> [c \in GetInfoForDispatch(task) |-> "asked"]]]
\* the store could not be read: the event goes to nobody
SendFails(p) == TakesEvent(p) /\ UNCHANGED pushSend
Moves(p, c, to) ==
    /\ pushSend' = [pushSend EXCEPT ![p].stage[c] = to]
    /\ pushSend[p].phase = "sending"
    /\ UNCHANGED <<pushMode, pushStore, pushEvents>>
\* the validator is asked at every send, then before_push_send: each may raise, and refuses
\* or skips the webhook; without them the call is made
AskBeforeSend(p) ==
    \E c \in DOMAIN pushSend[p].stage, to \in {"post", "skipped"} :
        /\ pushSend[p].stage[c] = "asked" /\ (pushMode.asks \/ to = "post")
        /\ Moves(p, c, to) /\ UNCHANGED pushPosts
PostsOf(p, c) == IF c \in DOMAIN pushPosts[p] THEN pushPosts[p][c] ELSE <<>>
\* whatever the webhook answers; what on_push_sent raises is logged
PostWebhook(p) ==
    \E c \in DOMAIN pushSend[p].stage :
        /\ pushSend[p].stage[c] = "post"
        /\ pushPosts' = [pushPosts EXCEPT ![p] =
                [d \in DOMAIN pushPosts[p] \cup {c} |->
                    IF d = c THEN Append(PostsOf(p, c), pushSend[p].event) ELSE pushPosts[p][d]]]
        /\ Moves(p, c, "posted")
Handled == {"skipped", "posted"}
Phase(p, to) ==
    /\ pushSend' = [pushSend EXCEPT ![p].phase = to]
    /\ UNCHANGED <<pushMode, pushStore, pushEvents, pushPosts>>
\* gather: send_notification returns when every delivery has ended
SendEnds(p) ==
    /\ pushSend[p].phase = "sending"
    /\ \A c \in DOMAIN pushSend[p].stage : pushSend[p].stage[c] \in Handled
    /\ Phase(p, "ended")
\* the consumer goes on with its next event
NextEvent(p) == pushSend[p].phase = "ended" /\ Phase(p, "idle")
\* the consumer is cancelled, with the deliveries it waits for; it sends nothing more
SenderStops(p) == pushSend[p].phase = "sending" /\ Phase(p, "stopped")
PushNext ==
    \/ CreateConfig \/ StoredEarlier \/ DeleteConfig
    \/ \E p \in PushSenders :
          \/ BeginSend(p) \/ SendFails(p) \/ AskBeforeSend(p) \/ PostWebhook(p) \/ SendEnds(p)
          \/ NextEvent(p) \/ SenderStops(p)

(* Every webhook its caller had set, and not deleted, when a consumer sent  *)
(* an event is handled once by that consumer, whoever registered it and     *)
(* however the others fare: posted at the URL last set, or left out by the  *)
(* validator or a hook.  A webhook deleted or replaced before is not        *)
(* called, and no consumer calls a webhook twice for an event or for events *)
(* out of order.  A caller reads back exactly its own configurations.  The  *)
(* exceptions are the code's: consumers of one task in the older handler    *)
(* are not ordered among each other and each sends the events it reads, a   *)
(* cancelled one leaves its deliveries, and in the database another owner   *)
(* that sets the same task and id takes the configuration over.             *)
PushFaithful ==
    /\ \A p \in PushSenders : LET send == pushSend[p] IN
         /\ send.phase # "idle" => DOMAIN send.stage = send.audience
         /\ send.phase = "ended" =>
              \A c \in send.audience :
                 (send.event \in Range(PostsOf(p, c))) = (send.stage[c] = "posted")
         /\ \A c \in DOMAIN pushPosts[p] : \A i, j \in DOMAIN pushPosts[p][c] :
              i < j => pushPosts[p][c][i] < pushPosts[p][c][j]
    /\ \A owner \in PushOwners, task \in PushTasks :
         GetInfo(owner, task) = {c \in Standing : c.owner = owner /\ c.task = task}
    /\ pushMode.kind = "memory" => pushTaken = {}
=============================================================================

------------------------------ MODULE A2AWire ------------------------------
(* A call of the A2A client through one transport to the server binding of  *)
(* the same protocol and back.  The request handler behind the binding is   *)
(* external: it answers, yields events or raises as it pleases.             *)
EXTENDS WireCodec

CONSTANTS WireCards,            \* agent cards a client is created from
          WireConfigs,          \* client configurations
          WireRequests(_),      \* requests of a method
          WireAnswers(_),       \* what the handler may answer to a method
          WireTenants,          \* tenants a caller may name in a request
          MaxEvents             \* bound: events of one stream

\* requests are v1.0 messages, and so is what the handler answers with
RequestsOf(m) ==
    CASE m \in Messages -> CoreSendRequest
      [] m = "get_task" -> [id : CompatStr, history_length : CompatOpt(Nat)]
      [] m = "list_tasks" -> [include_artifacts : BOOLEAN]
      [] m = "cancel_task" -> [id : CompatStr, metadata : CoreDict]
      [] m = "create_push" -> CorePushConfig
      [] m \in {"get_push", "delete_push"} -> [task_id : CompatStr, id : CompatStr]
      [] m = "list_push" -> [task_id : CompatStr]
      [] m = "subscribe" -> [id : CompatStr]
      [] m = "extended_card" -> {<<>>}
AnswersOf(m) ==
    CASE m \in Messages \cup {"subscribe"} -> CoreEvent
      [] m \in {"get_task", "cancel_task"} -> CompatOpt(CoreTask)
      [] m = "list_tasks" -> Seq(CoreTask)
      [] m \in {"create_push", "get_push"} -> CorePushConfig
      [] m = "list_push" -> Seq(CorePushConfig)
      [] m = "delete_push" -> {"done"}
      [] m = "extended_card" -> CoreAgentCard
ASSUME WireConstants ==
    /\ \A m \in WireMethods \ {"send_message_streaming", "extended_card"} :
         WireRequests(m) \subseteq RequestsOf(m)
    /\ \A m \in WireMethods : WireAnswers(m) \subseteq AnswersOf(m)
    /\ WireCards \subseteq CoreAgentCard
    /\ \A config \in WireConfigs :
         /\ config.bindings \in Seq({"JSONRPC", "GRPC", "HTTP+JSON"})
         /\ config.polling \in BOOLEAN /\ config.accepted_output_modes \in Seq(CompatStr)
         /\ config.push_notification_config \in CompatOpt(CorePushConfig)
    /\ MaxEvents \in Nat

VARIABLES wireClient, wireCall
wireVars == <<wireClient, wireCall>>

NoCall == [stage |-> "idle"]

(* ---- ClientFactory.create ---- *)
FindBestInterface(card, binding) ==
    LET of(V) == {i \in DOMAIN card.supported_interfaces :
                    /\ card.supported_interfaces[i].protocol_binding = binding
                    /\ card.supported_interfaces[i].protocol_version \in V}
        first(V) == card.supported_interfaces[CHOOSE i \in of(V) : \A j \in of(V) : i <= j]
    IN CASE of({"1.0"}) # {} -> first({"1.0"})
         [] of({"1.0"}) = {} /\ of({"2.0"}) # {} -> first({"2.0"})
         [] of({"1.0", "2.0"}) = {} /\ of({"0.3"}) # {} -> first({"0.3"})
         [] of({"1.0", "2.0", "0.3"}) = {} /\ of({""}) # {} -> first({""})
         [] OTHER -> Absent
\* the bindings in the order that decides: the client's, or that of the card
Preference(card, config) ==
    IF config.use_client_preference THEN config.bindings
    ELSE [i \in DOMAIN card.supported_interfaces |->
            card.supported_interfaces[i].protocol_binding]
\* the loop ends at a binding of the client that has an interface, or at the first
\* interface of an accepted binding, whether or not its version is known
SelectedInterface(card, config) ==
    LET order == Preference(card, config)
        ends(b) == IF config.use_client_preference THEN FindBestInterface(card, b) # Absent
                   ELSE \E j \in DOMAIN config.bindings : config.bindings[j] = b
        at == {i \in DOMAIN order : ends(order[i])}
    IN IF at = {} THEN Absent
       ELSE FindBestInterface(card, order[CHOOSE i \in at : \A j \in at : i <= j])
\* an interface without a version gets the current transport
Create(card, config, allows) ==
    LET chosen == SelectedInterface(card, config)
    IN [card |-> card, held |-> card, config |-> config, tenant |-> chosen.tenant,
        conn |-> [version |-> IF IsLegacyVersion(chosen.protocol_version) THEN "0.3" ELSE "1.0",
                  binding |-> chosen.protocol_binding],
        override |-> "", auto |-> TRUE, allows |-> allows]

WireInit ==
    /\ \E card \in WireCards, config \in WireConfigs, allows \in SUBSET {"GET", "POST"} :
         /\ SelectedInterface(card, config) # Absent      \* else ValueError
         /\ wireClient = Create(card, config, allows)
         /\ \/ allows = {"GET", "POST"}        \* this SDK's server; others take fewer
            \/ wireClient.conn = [version |-> "0.3", binding |-> "HTTP+JSON"]
    /\ wireCall = NoCall

(* ---- BaseClient and the transport ---- *)
\* _apply_client_config: configuration always present, caller's fields first
Applied(r, config) ==
    LET none == [accepted_output_modes |-> <<>>, task_push_notification_config |-> Absent,
                 history_length |-> Absent, return_immediately |-> FALSE]
        given == IF r.configuration = Absent THEN none ELSE r.configuration
    IN [r EXCEPT !.configuration =
          [given EXCEPT !.return_immediately = @ \/ config.polling,
                        !.task_push_notification_config =
                            IF @ = Absent THEN config.push_notification_config ELSE @,
                        !.accepted_output_modes =
                            IF @ = <<>> THEN config.accepted_output_modes ELSE @]]
ClientStreams == wireClient.config.streaming /\ wireClient.card.capabilities.streaming = TRUE
\* TenantTransportDecorator; no v0.3 request has a field for the tenant
ResolveTenant(tenant) == IF tenant = "" THEN wireClient.tenant ELSE tenant

\* what the caller's "send_message" becomes
Dispatched(m) == IF m = "send_message" /\ ClientStreams THEN "send_message_streaming" ELSE m
NewCall(m, r, tenant, header) ==
    [stage |-> "new", method |-> m, req |-> r, tenant |-> ResolveTenant(tenant),
     header |-> header, verb |-> IF wireClient.override = "" THEN "POST" ELSE wireClient.override,
     wire |-> Absent, served |-> m, seen |-> Absent,
     answers |-> <<>>, raised |-> "", frames |-> <<>>, got |-> <<>>, error |-> ""]
Sent(c) == [c EXCEPT !.stage = "sent", !.wire = WireRequest(wireClient.conn, c.method, c.req)]
NotImplemented(c) == [c EXCEPT !.stage = "done", !.error = "NotImplementedError"]

\* a caller may override the version header of the v1.0 HTTP transports only
HeaderChoices(conn) == IF Http(conn) /\ ~Legacy(conn) THEN {"1.0", "0.3", "2.0"} ELSE {conn.version}

ClientCalls ==
    /\ wireCall.stage = "idle"
    /\ \E m \in WireMethods \ {"send_message_streaming", "extended_card"},
          tenant \in WireTenants, header \in HeaderChoices(wireClient.conn) :
        \E r \in WireRequests(m) :
          \* v0.3 REST without an id: the GET tried after the POST asks for a task ":subscribe"
          /\ ~(wireClient.conn = [version |-> "0.3", binding |-> "HTTP+JSON"]
                 /\ m = "subscribe" /\ r.id = "")
          /\ LET applied == IF m = "send_message" THEN Applied(r, wireClient.config) ELSE r
                 new == NewCall(Dispatched(m), applied, tenant, header)
                 refused == \/ m = "subscribe" /\ ~ClientStreams
                            \/ ~ClientSupports(wireClient.conn, m)
             IN wireCall' = IF refused THEN NotImplemented(new) ELSE Sent(new)
    /\ UNCHANGED wireClient

\* a transport whose card has no extended card answers with its card, but v0.3 gRPC asks
FetchCard ==
    LET asks == wireClient.conn = [version |-> "0.3", binding |-> "GRPC"]
                \/ wireClient.held.capabilities.extended_agent_card = TRUE
    IN /\ wireCall.stage = "idle"
       /\ IF asks
          THEN /\ wireCall' = Sent(NewCall("extended_card", <<>>, "", wireClient.conn.version))
               /\ UNCHANGED wireClient
          ELSE /\ wireCall' = [NewCall("extended_card", <<>>, "", "") EXCEPT
                                !.stage = "done", !.got = <<wireClient.held>>]
               /\ wireClient' = [wireClient EXCEPT !.card = wireClient.held]

(* ---- the server binding ---- *)
\* over v1.0 JSON-RPC a JSONParseError before the first event of a stream fails the
\* dispatcher itself, which answers with a bare HTTP 500
Surfaced(e) ==
    IF /\ e = "JSONParseError" /\ wireClient.conn = [version |-> "1.0", binding |-> "JSONRPC"]
       /\ wireCall.method \in Streaming /\ wireCall.answers = <<>>
    THEN "ServerError" ELSE e
ErrorFrame(e) == [which |-> "error", value |-> WireError(wireClient.conn, e)]
Replied(c, e) == [c EXCEPT !.stage = "replied", !.raised = e,
                           !.frames = Append(@, ErrorFrame(e))]
NotAllowed == /\ wireCall.method = "subscribe"
              /\ wireClient.conn = [version |-> "0.3", binding |-> "HTTP+JSON"]
              /\ wireCall.verb \notin wireClient.allows

HasRoute == Routed(wireClient.conn, wireCall.tenant, wireCall.wire)

\* the tenant is in the request (JSON-RPC, gRPC) or in the path (REST)
ServerReceives ==
    /\ wireCall.stage = "sent" /\ HasRoute /\ ~NotAllowed
    /\ LET conn == wireClient.conn
           seen == SeenRequest(conn, wireCall.method, wireCall.wire)
           \* v0.3 get without a config id is served from the list
           listed == Legacy(conn) /\ wireCall.method = "get_push" /\ seen.id = ""
       IN wireCall' =
            CASE ~VersionAccepted(conn, wireCall.header) ->
                   Replied(wireCall, "VersionNotSupportedError")
              [] VersionAccepted(conn, wireCall.header) /\ Nameless(conn, wireCall.method, wireCall.wire) ->
                   Replied(wireCall, "InvalidParamsError")
              [] OTHER ->
                   [wireCall EXCEPT !.stage = "handling", !.seen = seen,
                                    !.served = IF listed THEN "list_push" ELSE @]
    /\ UNCHANGED wireClient

\* what the router (external) answers where no route takes the path: as the server is
\* mounted, one with a final '/' is redirected, and ":cancel" is a task's id to a GET
RouteMissing ==
    /\ wireCall.stage = "sent" /\ ~HasRoute
    /\ LET w == wireCall.wire
           unnamed == w.path # <<>> /\ w.path[Len(w.path)] = ""
           verbs == {"cancel_task", "subscribe"}
       IN \E e \in {"NotFound"}
              \cup {x \in {"Redirect"} : unnamed /\ wireCall.method \in
                                             {"get_task", "get_push", "delete_push"}}
              \cup {x \in {"WrongVerb"} : unnamed /\ wireCall.method \in verbs} :
            wireCall' = Replied(wireCall, e)
    /\ UNCHANGED wireClient

\* a server of v0.3 REST that does not take the verb; GET is tried after POST
ServerRefusesVerb ==
    /\ wireCall.stage = "sent" /\ HasRoute /\ NotAllowed
    /\ IF wireClient.override = ""
       THEN /\ wireClient' = [wireClient EXCEPT !.override = "GET"]
            /\ wireCall' = [wireCall EXCEPT !.verb = "GET"]
       ELSE /\ wireClient' = IF wireClient.auto
                             THEN [wireClient EXCEPT !.auto = FALSE, !.override = "POST"]
                             ELSE wireClient
            /\ wireCall' = [wireCall EXCEPT !.stage = "done", !.raised = "MethodNotAllowed",
                                            !.error = "A2AClientError"]

\* what the v0.3 handler makes of a list when a config was asked for
ConfigOfTask(configs, task) ==
    LET own == {i \in DOMAIN configs : configs[i].id = task}
    IN configs[IF own = {} THEN 1 ELSE CHOOSE i \in own : \A j \in own : i <= j]
\* why the answer of the handler is itself an error, or ""
AnswerFails(a) ==
    LET conn == wireClient.conn
        m == wireCall.method
    IN CASE m \in {"get_task", "cancel_task"} /\ a = Absent -> "TaskNotFoundError"
         [] m = "get_push" /\ wireCall.served = "list_push" /\ a = <<>> -> "TaskNotFoundError"
         [] m = "extended_card" /\ Legacy(conn) /\ ~HasCompatCard(a) -> "VersionNotSupportedError"
         [] m = "extended_card" /\ conn = [version |-> "0.3", binding |-> "GRPC"]
              /\ HasCompatCard(a) /\ ~CanPutCard(ToCompatAgentCard(a)) -> "ValueError"
         [] OTHER -> ""
DataFrame(a) == [which |-> "data", value |-> WireReply(wireClient.conn, wireCall.method,
                                                       wireCall.req, a)]
HandlerReturns ==
    /\ wireCall.stage = "handling" /\ wireCall.method \notin Streaming
    /\ \E a \in WireAnswers(wireCall.served) :
         LET picked == IF wireCall.method = "get_push" /\ wireCall.served = "list_push"
                       THEN ConfigOfTask(a, wireCall.seen.task_id) ELSE a
         IN wireCall' = IF AnswerFails(a) # "" THEN Replied(wireCall, AnswerFails(a))
                        ELSE [wireCall EXCEPT !.stage = "replied", !.answers = <<picked>>,
                                              !.frames = <<DataFrame(picked)>>]
    /\ UNCHANGED wireClient
HandlerYields ==
    /\ wireCall.stage = "handling" /\ wireCall.method \in Streaming
    /\ Len(wireCall.answers) < MaxEvents
    /\ \E a \in WireAnswers(wireCall.served) :
         wireCall' = [wireCall EXCEPT !.answers = Append(@, a), !.frames = Append(@, DataFrame(a))]
    /\ UNCHANGED wireClient
HandlerEnds ==
    /\ wireCall.stage = "handling" /\ wireCall.method \in Streaming
    /\ wireCall' = [wireCall EXCEPT !.stage = "replied"]
    /\ UNCHANGED wireClient
HandlerRaises ==
    /\ wireCall.stage = "handling"
    /\ \E e \in A2AErrors \cup {"RuntimeError"} : wireCall' = Replied(wireCall, Surfaced(e))
    /\ UNCHANGED wireClient

(* ---- back at the client ---- *)
\* BaseClient stops a stream at a message; a fetched card replaces the client's,
\* and in v0.3 JSON-RPC and REST the transport's too
ClientReads ==
    /\ wireCall.stage \in {"handling", "replied"} /\ wireCall.frames # <<>>
    /\ LET frame == Head(wireCall.frames)
           read == ReadReply(wireClient.conn, wireCall.method, frame.value)   \* of data
           last == \/ wireCall.method \notin Streaming
                   \/ frame.which = "data" /\ read.which = "message"
           readable == frame.which = "data" /\
                           ReplyReadable(wireClient.conn, wireCall.method, frame.value)
           error == IF frame.which = "data" THEN "InvalidParamsError"
                    ELSE RaisedAtClient(wireClient.conn, frame.value, wireCall.got # <<>>)
       IN /\ wireCall' = IF ~readable
                         THEN [wireCall EXCEPT !.stage = "done", !.frames = <<>>, !.error = error]
                         ELSE [wireCall EXCEPT !.stage = IF last THEN "done" ELSE @,
                                               !.frames = IF last THEN <<>> ELSE Tail(@),
                                               !.got = Append(@, read)]
          /\ wireClient' = IF frame.which = "data" /\ wireCall.method = "extended_card"
                           THEN [wireClient EXCEPT !.card = read,
                                   !.held = IF Legacy(wireClient.conn) /\ Http(wireClient.conn)
                                            THEN read ELSE @]
                           ELSE wireClient
StreamEnds ==
    /\ wireCall.stage = "replied" /\ wireCall.frames = <<>> /\ wireCall.method \in Streaming
    /\ wireCall' = [wireCall EXCEPT !.stage = "done"]
    /\ UNCHANGED wireClient
CallerReturns ==
    /\ wireCall.stage = "done" /\ wireCall' = NoCall /\ UNCHANGED wireClient

WireNext == \/ ClientCalls \/ FetchCard \/ ServerReceives \/ RouteMissing \/ ServerRefusesVerb
            \/ HandlerReturns \/ HandlerYields \/ HandlerEnds \/ HandlerRaises
            \/ ClientReads \/ StreamEnds \/ CallerReturns

(* ---- what a call carries ---- *)
\* What v0.3 cannot say is blanked before two values are compared.
PlainPart(c) ==
    LET file == c.which \in {"raw", "url"}
    IN [which |-> c.which, content |-> c.content, metadata |-> NoKeysAbsent(c.metadata),
        media_type |-> IF file THEN c.media_type ELSE "",
        filename |-> IF file THEN c.filename ELSE ""]
PlainMessage(lossy, c) ==
    [message_id |-> c.message_id, context_id |-> c.context_id, task_id |-> c.task_id,
     reference_task_ids |-> IF lossy THEN <<>> ELSE c.reference_task_ids,
     role |-> IF c.role = "user" THEN "user" ELSE "agent", metadata |-> NoKeysAbsent(c.metadata),
     extensions |-> c.extensions, parts |-> Each(PlainPart, c.parts)]
PlainArtifact(c) ==
    [artifact_id |-> c.artifact_id, name |-> c.name, description |-> c.description,
     extensions |-> c.extensions, parts |-> Each(PlainPart, c.parts),
     metadata |-> NoKeysAbsent(c.metadata)]
PlainStatus(lossy, c) ==
    LET of(x) == PlainMessage(lossy, x)
    IN IF c = Absent THEN [state |-> "unspecified", message |-> Absent, timestamp |-> Absent]
       ELSE [state |-> c.state, message |-> Given(of, c.message), timestamp |-> c.timestamp]
PlainTask(lossy, c) ==
    LET of(x) == PlainMessage(lossy, x)
    IN [id |-> c.id, context_id |-> c.context_id, status |-> PlainStatus(lossy, c.status),
        history |-> Each(of, c.history), artifacts |-> Each(PlainArtifact, c.artifacts),
        metadata |-> NoKeysAbsent(c.metadata)]
PlainStatusUpdate(lossy, c) ==
    [task_id |-> c.task_id, context_id |-> c.context_id, status |-> PlainStatus(lossy, c.status),
     metadata |-> NoKeysAbsent(c.metadata)]
PlainArtifactUpdate(c) ==
    [task_id |-> c.task_id, context_id |-> c.context_id, artifact |-> PlainArtifact(c.artifact),
     append |-> c.append, last_chunk |-> c.last_chunk, metadata |-> NoKeysAbsent(c.metadata)]
PlainEvent(lossy, c) ==
    [which |-> c.which, value |->
        CASE c.which = "message" -> PlainMessage(lossy, c.value)
          [] c.which = "task" -> PlainTask(lossy, c.value)
          [] c.which = "status_update" -> PlainStatusUpdate(lossy, c.value)
          [] c.which = "artifact_update" -> PlainArtifactUpdate(c.value)]
PlainPush(c) ==
    [url |-> c.url, id |-> c.id, token |-> c.token, authentication |-> c.authentication]
PlainConfiguration(c) ==
    [accepted_output_modes |-> c.accepted_output_modes,
     history_length |-> Unlimited(c.history_length),
     return_immediately |-> c.return_immediately,
     task_push_notification_config |-> Given(PlainPush, c.task_push_notification_config)]
PlainSend(lossy, r) ==
    [message |-> PlainMessage(lossy, r.message),
     configuration |-> PlainConfiguration(r.configuration), metadata |-> NoKeysAbsent(r.metadata)]
PlainRequest(conn, m, r) ==
    CASE m \in Messages -> PlainSend(Legacy(conn) /\ conn.binding # "JSONRPC", r)
      [] m = "get_task" -> [id |-> r.id, history_length |-> Unlimited(r.history_length)]
      [] m = "cancel_task" -> [id |-> r.id, metadata |->
            IF conn.binding = "JSONRPC" THEN NoKeysAbsent(r.metadata) ELSE Absent]
      [] OTHER -> r
\* What the server makes of a request that its protocol could carry whole: v0.3 gRPC
\* reads an id in a resource name up to a '/', v1.0 REST leaves out a cancel's metadata.
Delivered(conn, m, r) ==
    CASE conn = [version |-> "0.3", binding |-> "GRPC"] ->
           CASE m \in {"get_task", "cancel_task", "subscribe", "get_push", "delete_push"} ->
                  [r EXCEPT !.id = Cut(@)]
             [] m \in {"create_push", "list_push"} -> [r EXCEPT !.task_id = Cut(@)]
             [] OTHER -> r
      [] conn = [version |-> "1.0", binding |-> "HTTP+JSON"] /\ m = "cancel_task" ->
           [r EXCEPT !.metadata = Absent]
      [] OTHER -> r
PlainCard(conn, c) ==
    [name |-> c.name, streaming |-> c.capabilities.streaming = TRUE,
     extended |-> c.capabilities.extended_agent_card = TRUE,
     skills |-> [i \in DOMAIN c.skills |-> c.skills[i].id],
     modes |-> <<c.default_input_modes, c.default_output_modes>>,
     schemes |-> IF conn = [version |-> "0.3", binding |-> "HTTP+JSON"] THEN {} ELSE
                 {c.security_schemes[n].which : n \in DOMAIN c.security_schemes},
     required |-> IF conn = [version |-> "0.3", binding |-> "HTTP+JSON"] THEN <<>>
                  ELSE c.security_requirements]
PlainReply(conn, m, r, c) ==
    LET lossy == conn.binding # "JSONRPC"
    IN IF ~Legacy(conn)
       THEN IF m = "list_tasks" /\ ~r.include_artifacts
            THEN [i \in DOMAIN c |-> [c[i] EXCEPT !.artifacts = <<>>]] ELSE c
       ELSE CASE m \in Messages \cup {"subscribe"} -> PlainEvent(lossy, c)
              [] m \in {"get_task", "cancel_task"} -> PlainTask(lossy, c)
              [] m = "extended_card" -> PlainCard(conn, c)
              [] OTHER -> c

(* The request the handler behind any binding is given is the one the       *)
(* client's transport was called with, but for what v0.3 cannot say and for *)
(* the two losses Delivered states: over v0.3 gRPC an id with a '/' reaches *)
(* the task or config named by what stands before it, and v1.0 REST drops   *)
(* the metadata of a cancel.  No request of another major version gets to a *)
(* handler, and a config asked for without an id is sought in the list of   *)
(* the task that was named.                                                 *)
RequestCarried ==
    wireCall.stage \in {"handling", "replied"} /\ wireCall.seen # Absent =>
        LET conn == wireClient.conn
            due == Delivered(conn, wireCall.method, wireCall.req) IN
        /\ wireCall.served = wireCall.method =>
             IF Legacy(conn)
             THEN PlainRequest(conn, wireCall.method, wireCall.seen)
                    = PlainRequest(conn, wireCall.method, due)
             ELSE wireCall.seen = due
        /\ wireCall.served # wireCall.method => wireCall.seen.task_id = wireCall.req.task_id
        /\ Http(conn) => Major(wireCall.header) = Major(conn.version)

(* What the caller gets is what the handler answered, in its order and but  *)
(* for what the protocol cannot carry; a stream that ended well was read to *)
(* its end or to its first message.  Of a card of v0.3 the name, the two    *)
(* flags, the skills' ids, the modes, the kinds of the schemes and the      *)
(* requirements are compared, and nothing else.                             *)
ReplyCarried ==
    wireCall.stage # "idle" /\ wireCall.wire # Absent =>
        LET conn == wireClient.conn
            sentBack == wireCall.answers
        IN /\ Len(wireCall.got) <= Len(sentBack)
           /\ \A i \in DOMAIN wireCall.got :
                PlainReply(conn, wireCall.method, wireCall.req, wireCall.got[i])
                  = PlainReply(conn, wireCall.method, wireCall.req, sentBack[i])
           /\ wireCall.stage = "done" /\ wireCall.error = "" =>
                \/ Len(wireCall.got) = Len(sentBack)
                \/ wireCall.got[Len(wireCall.got)].which = "message"

Vague == {"InternalError", "A2AClientError"}
\* an answered push config whose v0.3 name the client's pattern does not match
Misnamed(config) ==
    ~TASK_PUSH_CONFIG_NAME_MATCH(PutTaskPushConfig(ToCompatTaskPushConfig(config)).name)
(* A call fails at the client exactly when it failed at the server, and     *)
(* with the class raised there or with one that names no cause; a refused   *)
(* verb is final only where the server takes neither.  There are three      *)
(* exceptions: over v0.3 gRPC and REST the client itself refuses a push     *)
(* config whose name it cannot read, a path no route takes is reported as a *)
(* missing method, and over v0.3 REST a missing task is too: see            *)
(* ErrorNamesCause.                                                         *)
ErrorCarried ==
    wireCall.stage = "done" /\ wireCall.wire # Absent =>
        /\ wireCall.error # "" /\ wireCall.raised = "" =>
             /\ wireCall.error = "InvalidParamsError"
             /\ Legacy(wireClient.conn) /\ wireClient.conn.binding # "JSONRPC"
             /\ \/ wireCall.method \in {"create_push", "get_push"} /\ Misnamed(wireCall.answers[1])
                \/ /\ wireCall.method = "list_push"
                   /\ \E i \in DOMAIN wireCall.answers[1] : Misnamed(wireCall.answers[1][i])
        /\ wireCall.raised # "" /\ wireCall.error = "" =>
             wireCall.got # <<>> /\ wireCall.got[Len(wireCall.got)].which = "message"
        /\ wireCall.raised = "MethodNotAllowed" => wireClient.allows = {}
        /\ wireCall.raised # "" =>
             \/ wireCall.error \in {wireCall.raised, ""} \cup Vague
             \/ wireCall.raised = "NotFound" /\ wireCall.error = "MethodNotFoundError"
             \/ wireClient.conn = [version |-> "0.3", binding |-> "HTTP+JSON"]

(* When the server answers with an A2A error, the class of the error at the *)
(* client is the same or one that names no cause, whatever the binding.     *)
ErrorNamesCause ==
    wireCall.stage = "done" /\ wireCall.wire # Absent /\ wireCall.raised \in A2AErrors =>
        wireCall.error \in {wireCall.raised, ""} \cup Vague
=============================================================================

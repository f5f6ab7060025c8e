----------------------------- MODULE WireCodec -----------------------------
(* What the client transports write and the server bindings read, and back, *)
(* for the two protocol versions over JSON-RPC, gRPC and HTTP+JSON.  JSON   *)
(* and protobuf serialisation of one message type is the identity; what a   *)
(* binding drops, renames or fills in is kept.                              *)
EXTENDS CompatProto

WireMethods == {"send_message", "send_message_streaming", "get_task", "list_tasks",
                "cancel_task", "create_push", "get_push", "list_push", "delete_push",
                "subscribe", "extended_card"}
Streaming == {"send_message_streaming", "subscribe"}
WireConn == [version : {"1.0", "0.3"}, binding : {"JSONRPC", "GRPC", "HTTP+JSON"}]
Legacy(conn) == conn.version = "0.3"
Http(conn) == conn.binding # "GRPC"

(* ---- requests ---- *)
Messages == {"send_message", "send_message_streaming"}
\* v1.0 JSON-RPC and gRPC: the method and the request as it is
JsonRpcCall(m, r) == [method |-> m, params |-> r]
JsonRpcParams(w) == w.params
GrpcCall(m, r) == [rpc |-> m, request |-> r]
GrpcParams(w) == w.request
\* v1.0 REST: ids in the path, the rest in the body or, for a GET, the query
RestCall(m, r) ==
    CASE m \in Messages \cup {"list_tasks", "extended_card"} -> [path |-> <<>>, body |-> r]
      [] m \in {"get_task", "cancel_task"} -> [path |-> <<r.id>>, body |-> r]
      [] m = "subscribe" -> [path |-> <<r.id>>, body |-> <<>>]
      [] m \in {"create_push", "list_push"} -> [path |-> <<r.task_id>>, body |-> r]
      [] m \in {"get_push", "delete_push"} -> [path |-> <<r.task_id, r.id>>, body |-> <<>>]
\* the dispatcher takes the ids from the path; cancel does not read its body
RestParams(m, w) ==
    CASE m \in Messages \cup {"list_tasks", "extended_card"} -> w.body
      [] m = "get_task" -> [w.body EXCEPT !.id = w.path[1]]
      [] m = "cancel_task" -> [id |-> w.path[1], metadata |-> Absent]
      [] m = "subscribe" -> [id |-> w.path[1]]
      [] m \in {"create_push", "list_push"} -> [w.body EXCEPT !.task_id = w.path[1]]
      [] m \in {"get_push", "delete_push"} -> [task_id |-> w.path[1], id |-> w.path[2]]

\* v0.3 JSON-RPC: the v0.3 parameters
LegacyTaskParams(m, r) ==
    CASE m \in Messages -> ToCompatSendRequest(r)
      [] m = "get_task" -> ToCompatGetTask(r)
      [] m = "cancel_task" -> ToCompatCancel(r)
LegacyPushParams(m, r) ==
    CASE m = "create_push" -> ToCompatTaskPushConfig(r)
      [] m = "get_push" -> ToCompatGetPushConfig(r)
      [] m = "list_push" -> ToCompatListPushConfigs(r)
      [] m = "delete_push" -> ToCompatDeletePushConfig(r)
LegacyParams(m, r) ==
    CASE m \in Messages \cup {"get_task", "cancel_task"} -> LegacyTaskParams(m, r)
      [] m = "subscribe" -> ToCompatSubscribe(r)
      [] m = "extended_card" -> r
      [] OTHER -> LegacyPushParams(m, r)
\* v0.3 gRPC and REST: messages in v0.3 protobuf; a cancel has no field for metadata
ProtoSend(r) ==
    LET p == ToCompatSendRequest(r)
    IN [message |-> PutMessage(p.message), metadata |-> p.metadata,
        configuration |-> PutSendConfiguration(p.configuration)]
ProtoCreate(r) ==
    [parent |-> TaskName(r.task_id), config |-> PutTaskPushConfig(ToCompatTaskPushConfig(r))]
\* gRPC names its task or config
GrpcRequest(m, r) ==
    CASE m \in Messages -> ProtoSend(r)
      [] m = "get_task" -> [name |-> TaskName(r.id), history_length |->
                            IF r.history_length = Absent THEN 0 ELSE r.history_length]
      [] m \in {"cancel_task", "subscribe"} -> [name |-> TaskName(r.id)]
      [] m = "create_push" -> ProtoCreate(r)
      [] m = "list_push" -> [parent |-> TaskName(r.task_id)]
      [] m \in {"get_push", "delete_push"} -> [name |-> PushConfigName(r.task_id, r.id)]
      [] m = "extended_card" -> <<>>
\* the v0.3 parameters the gRPC servicer takes from a request whose name matches
ProtoParams(m, w) ==
    CASE m \in Messages -> TakeSendParams(w)
      [] m = "get_task" -> TakeTaskQuery(w)
      [] m \in {"cancel_task", "subscribe"} -> TakeTaskId(w)
      [] m = "create_push" -> TakeTaskPushConfigRequest(w)
      [] m = "list_push" -> [id |-> Cut(w.parent.task)]
      [] m \in {"get_push", "delete_push"} ->
           [id |-> Cut(w.name.task), push_notification_config_id |-> Cut(w.name.config)]
      [] m = "extended_card" -> <<>>
\* REST puts ids in the path and takes them from there; history_length is in the query
LegacyRestCall(m, r) ==
    CASE m \in Messages -> [path |-> <<>>, body |-> ProtoSend(r)]
      [] m = "get_task" -> [path |-> <<r.id>>, history_length |-> r.history_length]
      [] m \in {"cancel_task", "subscribe"} -> [path |-> <<r.id>>]
      [] m = "create_push" -> [path |-> <<r.task_id>>, body |-> ProtoCreate(r)]
      [] m = "get_push" -> [path |-> <<r.task_id, r.id>>]
      [] m = "extended_card" -> [path |-> <<>>]
LegacyRestParams(m, w) ==
    CASE m \in Messages -> TakeSendParams(w.body)
      [] m = "get_task" -> [id |-> w.path[1], history_length |-> Unlimited(w.history_length)]
      [] m \in {"cancel_task", "subscribe"} -> [id |-> w.path[1], metadata |-> Absent]
      [] m = "create_push" -> [TakeTaskPushConfigRequest(w.body) EXCEPT !.task_id = w.path[1]]
      [] m = "get_push" -> [id |-> w.path[1], push_notification_config_id |-> w.path[2]]
      [] m = "extended_card" -> <<>>
\* RequestHandler03: the v1.0 request for the common request handler
CoreRequest(m, p) ==
    CASE m \in Messages -> ToCoreSendRequest(p)
      [] m = "get_task" -> ToCoreGetTask(p)
      [] m = "cancel_task" -> ToCoreCancel(p)
      [] m = "subscribe" -> ToCoreSubscribe(p)
      [] m = "create_push" -> ToCoreTaskPushConfig(p)
      [] m = "get_push" -> ToCoreGetPushConfig(p)
      [] m = "list_push" -> ToCoreListPushConfigs(p)
      [] m = "delete_push" -> ToCoreDeletePushConfig(p)
      [] m = "extended_card" -> p

WireRequest(conn, m, r) ==
    CASE conn.binding = "JSONRPC" -> JsonRpcCall(m, IF Legacy(conn) THEN LegacyParams(m, r) ELSE r)
      [] conn.binding = "GRPC" -> GrpcCall(m, IF Legacy(conn) THEN GrpcRequest(m, r) ELSE r)
      [] conn.binding = "HTTP+JSON" -> IF Legacy(conn) THEN LegacyRestCall(m, r)
                                       ELSE RestCall(m, r)
SeenRequest(conn, m, w) ==
    CASE conn.binding = "JSONRPC" ->
           IF Legacy(conn) THEN CoreRequest(m, JsonRpcParams(w)) ELSE JsonRpcParams(w)
      [] conn.binding = "GRPC" ->
           IF Legacy(conn) THEN CoreRequest(m, ProtoParams(m, GrpcParams(w))) ELSE GrpcParams(w)
      [] conn.binding = "HTTP+JSON" ->
           IF Legacy(conn) THEN CoreRequest(m, LegacyRestParams(m, w)) ELSE RestParams(m, w)
\* NotImplementedError is the client's own
ClientSupports(conn, m) ==
    Legacy(conn) => m # "list_tasks"
                    /\ (conn.binding = "HTTP+JSON" => m \notin {"list_push", "delete_push"})
\* v0.3 gRPC refuses a name its patterns do not match
GrpcNamed(m, w) ==
    CASE m \in {"get_task", "cancel_task", "subscribe"} -> TASK_NAME_MATCH(w.name)
      [] m \in {"create_push", "list_push"} -> TASK_NAME_MATCH(w.parent)
      [] m \in {"get_push", "delete_push"} -> TASK_PUSH_CONFIG_NAME_MATCH(w.name)
      [] OTHER -> TRUE
Nameless(conn, m, w) ==
    conn = [version |-> "0.3", binding |-> "GRPC"] /\ ~GrpcNamed(m, w.request)
\* a route's {id} or {tenant} takes no empty piece of a path and no '/'
Routed(conn, tenant, w) ==
    conn.binding = "HTTP+JSON" =>
        /\ \A i \in DOMAIN w.path : w.path[i] # "" /\ w.path[i] \notin DOMAIN Slashed
        /\ Legacy(conn) \/ tenant \notin DOMAIN Slashed
\* validate_version compares the major parts; gRPC handlers do not ask
Major(v) == IF v \in {"", "0.3"} THEN 0 ELSE IF v = "2.0" THEN 2 ELSE 1
VersionAccepted(conn, header) == Http(conn) => Major(header) = Major(conn.version)

(* ---- replies ---- *)
\* pydantic JSON read as protobuf: schemes and requirements are no such fields
RestCardAsProto(a) ==
    LET blank == [type |-> "openIdConnect", open_id_connect_url |-> "", description |-> ""]
        noScheme(q) == [i \in DOMAIN q |-> <<>>]
        put == PutAgentCard([a EXCEPT !.security_schemes = Absent])
    IN [put EXCEPT
          !.security_schemes = IF a.security_schemes = Absent THEN <<>>
                               ELSE [n \in DOMAIN a.security_schemes |-> blank],
          !.security = noScheme(put.security),
          !.skills = [i \in DOMAIN put.skills |->
                        [put.skills[i] EXCEPT !.security = noScheme(put.skills[i].security)]]]

\* v0.3 servers: the compat model as it is, or as v0.3 protobuf
LegacyResult(m, a) ==
    CASE m \in Messages \cup {"subscribe"} -> ToCompatEvent(a)
      [] m \in {"get_task", "cancel_task"} -> ToCompatTask(a)
      [] m \in {"create_push", "get_push"} -> ToCompatTaskPushConfig(a)
      [] m = "list_push" -> Each(ToCompatTaskPushConfig, a)
      [] m = "delete_push" -> a
      [] m = "extended_card" -> ToCompatAgentCard(a)
ProtoResult(m, p) ==
    CASE m \in Messages \cup {"subscribe"} -> PutEvent(p)
      [] m \in {"get_task", "cancel_task"} -> PutTask(p)
      [] m \in {"create_push", "get_push"} -> PutTaskPushConfig(p)
      [] m = "list_push" -> Each(PutTaskPushConfig, p)
      [] m = "delete_push" -> p
GrpcResult(m, p) == IF m = "extended_card" THEN PutAgentCard(p) ELSE ProtoResult(m, p)
RestResult(m, p) == IF m = "extended_card" THEN RestCardAsProto(p) ELSE ProtoResult(m, p)
\* v1.0 over HTTP: artifacts of listed tasks only when asked for
ListedTasks(r, tasks) ==
    IF r.include_artifacts THEN tasks
    ELSE [i \in DOMAIN tasks |-> [tasks[i] EXCEPT !.artifacts = <<>>]]
JsonRpcReply(m, r, a) == [result |-> IF m = "list_tasks" THEN ListedTasks(r, a) ELSE a]
RestReply(m, r, a) == [content |-> IF m = "list_tasks" THEN ListedTasks(r, a) ELSE a]
GrpcReply(a) == [response |-> a]
WireReply(conn, m, r, a) ==
    CASE conn.binding = "JSONRPC" ->
           IF Legacy(conn) THEN [result |-> LegacyResult(m, a)] ELSE JsonRpcReply(m, r, a)
      [] conn.binding = "GRPC" ->
           GrpcReply(IF Legacy(conn) THEN GrpcResult(m, LegacyResult(m, a)) ELSE a)
      [] conn.binding = "HTTP+JSON" ->
           IF Legacy(conn) THEN [content |-> RestResult(m, LegacyResult(m, a))]
           ELSE RestReply(m, r, a)

\* back in the transports
FromLegacyResult(m, p) ==
    CASE m \in Messages \cup {"subscribe"} -> ToCoreEvent(p)
      [] m \in {"get_task", "cancel_task"} -> ToCoreTask(p)
      [] m \in {"create_push", "get_push"} -> ToCoreTaskPushConfig(p)
      [] m = "list_push" -> Each(ToCoreTaskPushConfig, p)
      [] m = "delete_push" -> p
      [] m = "extended_card" -> ToCoreAgentCard(p)
\* FromProto raises InvalidParamsError, at the client, for a config named otherwise
ProtoNamed(m, w) ==
    CASE m \in {"create_push", "get_push"} -> TASK_PUSH_CONFIG_NAME_MATCH(w.name)
      [] m = "list_push" -> \A i \in DOMAIN w : TASK_PUSH_CONFIG_NAME_MATCH(w[i].name)
      [] OTHER -> TRUE
FromProtoResult(m, w) ==
    CASE m \in Messages \cup {"subscribe"} -> TakeEvent(w)
      [] m \in {"get_task", "cancel_task"} -> TakeTask(w)
      [] m \in {"create_push", "get_push"} -> TakeTaskPushConfig(w)
      [] m = "list_push" -> Each(TakeTaskPushConfig, w)
      [] m = "delete_push" -> w
      [] m = "extended_card" -> TakeAgentCard(w)
ReadJsonRpc(w) == w.result
ReadRest(w) == w.content
ReadGrpc(w) == w.response
ReplyReadable(conn, m, w) ==
    CASE ~Legacy(conn) \/ conn.binding = "JSONRPC" -> TRUE
      [] Legacy(conn) /\ conn.binding = "GRPC" -> ProtoNamed(m, ReadGrpc(w))
      [] Legacy(conn) /\ conn.binding = "HTTP+JSON" -> ProtoNamed(m, ReadRest(w))
ReadReply(conn, m, w) ==
    CASE conn.binding = "JSONRPC" ->
           IF Legacy(conn) THEN FromLegacyResult(m, ReadJsonRpc(w)) ELSE ReadJsonRpc(w)
      [] conn.binding = "GRPC" ->
           IF Legacy(conn) THEN FromLegacyResult(m, FromProtoResult(m, ReadGrpc(w)))
           ELSE ReadGrpc(w)
      [] conn.binding = "HTTP+JSON" ->
           IF Legacy(conn) THEN FromLegacyResult(m, FromProtoResult(m, ReadRest(w)))
           ELSE ReadRest(w)

(* ---- errors ---- *)
A2AErrors == {"TaskNotFoundError", "TaskNotCancelableError", "PushNotificationNotSupportedError",
    "UnsupportedOperationError", "ContentTypeNotSupportedError", "InvalidAgentResponseError",
    "ExtendedAgentCardNotConfiguredError", "ExtensionSupportRequiredError",
    "VersionNotSupportedError", "InvalidParamsError", "InvalidRequestError",
    "MethodNotFoundError", "InternalError", "JSONParseError"}
A2A_ERROR_MAPPING == A2AErrors \ {"JSONParseError"}
LegacyCodes == A2AErrors \ {"ExtensionSupportRequiredError", "VersionNotSupportedError"}
HttpStatus(e) ==
    IF e \in {"TaskNotFoundError", "MethodNotFoundError", "NotFound"} THEN 404
    ELSE IF e = "WrongVerb" THEN 405
    ELSE IF e = "Redirect" THEN 307
    ELSE IF e \in {"InternalError", "InvalidAgentResponseError"} \/ e \notin A2A_ERROR_MAPPING
         THEN 500 ELSE 400

\* bug variant: the legacy adapter sends a code v0.3 does not know as "method not found"
JsonRpcCodeGuessed(conn, e) ==
    IF e \in (IF Legacy(conn) THEN LegacyCodes ELSE A2A_ERROR_MAPPING) THEN e
    ELSE IF e = "ServerError" THEN "none" ELSE "MethodNotFoundError"
\* JSON-RPC: the class's code, that of InternalError for what has none (in v1.0 a
\* JSONParseError too: its code is refused by the model of the error), no code
\* where the server itself failed
JsonRpcCode(conn, e) ==
    IF e \in (IF Legacy(conn) THEN LegacyCodes ELSE A2A_ERROR_MAPPING) THEN e
    ELSE IF e = "ServerError" THEN "none" ELSE "InternalError"
\* gRPC: ErrorInfo reason, in v0.3 the class name before the message
GrpcReason(e) == IF e \in A2A_ERROR_MAPPING THEN e ELSE "unknown"
\* REST: ErrorInfo reason; v0.3 clients look for a top-level type instead
RestReason(e) == IF e \in A2A_ERROR_MAPPING THEN e ELSE "UNKNOWN_ERROR"

WireError(conn, e) ==
    CASE conn.binding = "JSONRPC" ->
           [status |-> IF e = "ServerError" THEN 500 ELSE 200, reason |-> JsonRpcCode(conn, e)]
      [] conn.binding = "GRPC" -> [status |-> 0, reason |-> GrpcReason(e)]
      [] conn.binding = "HTTP+JSON" -> [status |-> HttpStatus(e), reason |-> RestReason(e)]
\* "A2AClientError" is what a transport raises for what it cannot name
RaisedByName(w) == IF w.reason \in A2AErrors THEN w.reason ELSE "A2AClientError"
RaisedByStatus(w, midStream) ==
    IF w.status = 404 /\ ~midStream THEN "MethodNotFoundError" ELSE "A2AClientError"
RaisedByReason(w, midStream) ==
    IF w.reason \in A2A_ERROR_MAPPING THEN w.reason ELSE RaisedByStatus(w, midStream)
RaisedAtClient(conn, w, midStream) ==
    CASE conn.binding # "HTTP+JSON" -> RaisedByName(w)
      [] conn.binding = "HTTP+JSON" /\ ~Legacy(conn) -> RaisedByReason(w, midStream)
      [] conn.binding = "HTTP+JSON" /\ Legacy(conn) -> RaisedByStatus(w, midStream)
=============================================================================

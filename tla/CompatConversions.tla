------------------------- MODULE CompatConversions -------------------------
(* compat/v0_3/conversions.py: between the v0.3 models of CompatTypes and   *)
(* the v1.0 protobuf messages.  An unset protobuf string is "", an unset    *)
(* repeated field <<>>; Absent only where the field has presence.           *)
EXTENDS CoreTypes

OrBlank(s) == IF s = Absent THEN "" ELSE s
BlankAbsent(s) == IF s = "" THEN Absent ELSE s
OrNone(q) == IF q = Absent THEN <<>> ELSE q
NoneAbsent(q) == IF q = <<>> THEN Absent ELSE q
NoKeysAbsent(d) == IF d = {} THEN Absent ELSE d
Given(F(_), v) == IF v = Absent THEN Absent ELSE F(v)
Each(F(_), q) == [i \in DOMAIN q |-> F(q[i])]
EachGiven(F(_), q) == Each(F, OrNone(q))

(* parts and messages *)
ToCorePart(p) ==
    LET rest == IF p.metadata = Absent THEN Absent
                ELSE NoKeysAbsent(p.metadata \ {"data_part_compat"})
        wrapped == p.metadata # Absent /\ "data_part_compat" \in p.metadata
    IN CASE p.kind = "text" -> [which |-> "text", content |-> p.text, media_type |-> "",
                                filename |-> "", metadata |-> p.metadata]
         [] p.kind = "data" -> [which |-> IF wrapped THEN "scalar" ELSE "struct",
                                content |-> IF wrapped THEN p.data.value ELSE p.data,
                                media_type |-> "", filename |-> "", metadata |-> rest]
         [] p.kind = "file" -> [which |-> IF "uri" \in DOMAIN p.file THEN "url" ELSE "raw",
                                content |-> IF "uri" \in DOMAIN p.file THEN p.file.uri
                                            ELSE p.file.bytes[2],
                                media_type |-> OrBlank(p.file.mime_type),
                                filename |-> OrBlank(p.file.name), metadata |-> p.metadata]

\* a scalar is wrapped as {"value": scalar} and the metadata says so
ScalarMark(metadata) ==
    (IF metadata = Absent THEN {} ELSE metadata) \cup {"data_part_compat"}
ToCompatPart(c) ==
    LET mime_type == BlankAbsent(c.media_type)
        name == BlankAbsent(c.filename)
    IN CASE c.which = "text" -> [kind |-> "text", text |-> c.content, metadata |-> c.metadata]
         [] c.which = "struct" -> [kind |-> "data", data |-> c.content, metadata |-> c.metadata]
         [] c.which = "scalar" -> [kind |-> "data", data |-> [value |-> c.content],
                                   metadata |-> ScalarMark(c.metadata)]
         [] c.which = "raw" -> [kind |-> "file", metadata |-> c.metadata,
                                file |-> [bytes |-> <<"base64", c.content>>,
                                          mime_type |-> mime_type, name |-> name]]
         [] c.which = "url" -> [kind |-> "file", metadata |-> c.metadata,
                                file |-> [uri |-> c.content, mime_type |-> mime_type,
                                          name |-> name]]

ToCoreMessage(m) ==
    [message_id |-> m.message_id, context_id |-> OrBlank(m.context_id),
     task_id |-> OrBlank(m.task_id), reference_task_ids |-> OrNone(m.reference_task_ids),
     role |-> m.role, metadata |-> NoKeysAbsent(m.metadata),
     extensions |-> OrNone(m.extensions), parts |-> Each(ToCorePart, m.parts)]

\* every role but the user's comes back as the agent's; an empty Struct is falsy
ToCompatMessage(c) ==
    [kind |-> "message", message_id |-> c.message_id,
     role |-> IF c.role = "user" THEN "user" ELSE "agent",
     context_id |-> BlankAbsent(c.context_id), task_id |-> BlankAbsent(c.task_id),
     reference_task_ids |-> NoneAbsent(c.reference_task_ids),
     metadata |-> NoKeysAbsent(c.metadata), extensions |-> NoneAbsent(c.extensions),
     parts |-> Each(ToCompatPart, c.parts)]

(* tasks; the core task states are named by their v0.3 values *)
CoreTaskState(s) == IF s = "unknown" THEN "unspecified" ELSE s
CompatTaskState(c) == IF c \in TaskState THEN c ELSE "unknown"

\* protobuf prints UTC with a "Z"
Timestamp(t) == IF t \in {Absent, ""} THEN Absent ELSE IF t = "t+00:00" THEN "tZ" ELSE t
ToCoreTaskStatus(s) ==
    [state |-> CoreTaskState(s.state), message |-> Given(ToCoreMessage, s.message),
     timestamp |-> Timestamp(s.timestamp)]
ToCompatTaskStatus(c) ==
    [state |-> CompatTaskState(c.state), message |-> Given(ToCompatMessage, c.message),
     timestamp |-> c.timestamp]

ToCoreArtifact(a) ==
    [artifact_id |-> a.artifact_id, name |-> OrBlank(a.name),
     description |-> OrBlank(a.description), parts |-> Each(ToCorePart, a.parts),
     metadata |-> NoKeysAbsent(a.metadata), extensions |-> OrNone(a.extensions)]
ToCompatArtifact(c) ==
    [artifact_id |-> c.artifact_id, name |-> BlankAbsent(c.name),
     description |-> BlankAbsent(c.description), parts |-> Each(ToCompatPart, c.parts),
     metadata |-> c.metadata, extensions |-> NoneAbsent(c.extensions)]

ToCoreTask(t) ==
    [id |-> t.id, context_id |-> t.context_id, status |-> ToCoreTaskStatus(t.status),
     history |-> EachGiven(ToCoreMessage, t.history),
     artifacts |-> EachGiven(ToCoreArtifact, t.artifacts),
     metadata |-> NoKeysAbsent(t.metadata)]
UnknownStatus == [state |-> "unknown", message |-> Absent, timestamp |-> Absent]
ToCompatTask(c) ==
    [kind |-> "task", id |-> c.id, context_id |-> c.context_id,
     status |-> IF c.status = Absent THEN UnknownStatus ELSE ToCompatTaskStatus(c.status),
     history |-> NoneAbsent(Each(ToCompatMessage, c.history)),
     artifacts |-> NoneAbsent(Each(ToCompatArtifact, c.artifacts)),
     metadata |-> c.metadata]

ToCoreStatusUpdate(e) ==
    [task_id |-> e.task_id, context_id |-> e.context_id,
     status |-> ToCoreTaskStatus(e.status), metadata |-> NoKeysAbsent(e.metadata)]
\* v1.0 has no "final": it is derived from the state
ToCompatStatusUpdate(c) ==
    LET status == IF c.status = Absent THEN UnknownStatus ELSE ToCompatTaskStatus(c.status)
    IN [kind |-> "status-update", task_id |-> c.task_id, context_id |-> c.context_id,
        status |-> status, metadata |-> c.metadata,
        final |-> status.state \in {"completed", "canceled", "failed", "rejected"}]
\* bug variant: "is not None" for the truth of an optional flag
ToCoreArtifactUpdateNotNone(e) ==
    [task_id |-> e.task_id, context_id |-> e.context_id, artifact |-> ToCoreArtifact(e.artifact),
     append |-> e.append # Absent, last_chunk |-> e.last_chunk # Absent,
     metadata |-> NoKeysAbsent(e.metadata)]
ToCoreArtifactUpdate(e) ==
    [task_id |-> e.task_id, context_id |-> e.context_id, artifact |-> ToCoreArtifact(e.artifact),
     append |-> e.append = TRUE, last_chunk |-> e.last_chunk = TRUE,
     metadata |-> NoKeysAbsent(e.metadata)]
ToCompatArtifactUpdate(c) ==
    [kind |-> "artifact-update", task_id |-> c.task_id, context_id |-> c.context_id,
     artifact |-> ToCompatArtifact(c.artifact), append |-> c.append,
     last_chunk |-> c.last_chunk, metadata |-> c.metadata]

(* push notification configs and the parameters of send *)
ToCoreAuthenticationInfo(a) ==
    [scheme |-> IF a.schemes = <<>> THEN "" ELSE Head(a.schemes),
     credentials |-> OrBlank(a.credentials)]
ToCompatAuthenticationInfo(c) ==
    [schemes |-> IF c.scheme = "" THEN <<>> ELSE <<c.scheme>>,
     credentials |-> BlankAbsent(c.credentials)]
ToCorePushConfig(p, task) ==
    [task_id |-> task, url |-> p.url, id |-> OrBlank(p.id), token |-> OrBlank(p.token),
     authentication |-> Given(ToCoreAuthenticationInfo, p.authentication)]
ToCompatPushConfig(c) ==
    [url |-> c.url, id |-> BlankAbsent(c.id), token |-> BlankAbsent(c.token),
     authentication |-> Given(ToCompatAuthenticationInfo, c.authentication)]
ToCoreTaskPushConfig(p) == ToCorePushConfig(p.push_notification_config, p.task_id)
ToCompatTaskPushConfig(c) ==
    [task_id |-> c.task_id, push_notification_config |-> ToCompatPushConfig(c)]

\* v0.3 treats 0 as unlimited, so it is left unset
Unlimited(n) == IF n = 0 THEN Absent ELSE n
ToCoreSendConfiguration(f) ==
    LET push(p) == ToCorePushConfig(p, "")
    IN [accepted_output_modes |-> OrNone(f.accepted_output_modes),
        task_push_notification_config |-> Given(push, f.push_notification_config),
        history_length |-> Unlimited(f.history_length),
        return_immediately |-> f.blocking = FALSE]
\* bug variant: the sense of the flag is kept though its name is reversed
BlockingSameSense(immediately) == immediately

Blocking(immediately) == ~immediately
ToCompatSendConfiguration(c) ==
    [accepted_output_modes |-> NoneAbsent(c.accepted_output_modes),
     push_notification_config |-> Given(ToCompatPushConfig, c.task_push_notification_config),
     history_length |-> c.history_length, blocking |-> Blocking(c.return_immediately)]

(* requests: v0.3 parameters against v1.0 requests *)
ToCoreSendRequest(r) ==
    [message |-> ToCoreMessage(r.message),
     configuration |-> Given(ToCoreSendConfiguration, r.configuration),
     metadata |-> NoKeysAbsent(r.metadata)]
ToCompatSendRequest(c) ==
    [message |-> ToCompatMessage(c.message),
     configuration |-> Given(ToCompatSendConfiguration, c.configuration),
     metadata |-> c.metadata]
ToCoreGetTask(r) == [id |-> r.id, history_length |-> Unlimited(r.history_length)]
ToCompatGetTask(c) == [id |-> c.id, history_length |-> c.history_length]
ToCoreCancel(r) == [id |-> r.id, metadata |-> NoKeysAbsent(r.metadata)]
ToCompatCancel(c) == [id |-> c.id, metadata |-> c.metadata]
ToCoreSubscribe(r) == [id |-> r.id]
ToCompatSubscribe(c) == [id |-> c.id, metadata |-> Absent]
ToCoreGetPushConfig(r) ==
    [task_id |-> r.id, id |-> IF "push_notification_config_id" \in DOMAIN r
                              THEN OrBlank(r.push_notification_config_id) ELSE ""]
ToCompatGetPushConfig(c) ==
    IF c.id = "" THEN [id |-> c.task_id, metadata |-> Absent]
    ELSE [id |-> c.task_id, push_notification_config_id |-> c.id]
ToCoreDeletePushConfig(r) == [task_id |-> r.id, id |-> r.push_notification_config_id]
ToCompatDeletePushConfig(c) == [id |-> c.task_id, push_notification_config_id |-> c.id]
ToCoreListPushConfigs(r) == [task_id |-> r.id]
ToCompatListPushConfigs(c) == [id |-> c.task_id, metadata |-> Absent]

(* results: a Task, a Message or an update event, told apart by its kind *)
ToCoreEvent(r) ==
    CASE r.kind = "message" -> [which |-> "message", value |-> ToCoreMessage(r)]
      [] r.kind = "task" -> [which |-> "task", value |-> ToCoreTask(r)]
      [] r.kind = "status-update" -> [which |-> "status_update", value |-> ToCoreStatusUpdate(r)]
      [] r.kind = "artifact-update" ->
           [which |-> "artifact_update", value |-> ToCoreArtifactUpdate(r)]
ToCompatEvent(c) ==
    CASE c.which = "message" -> ToCompatMessage(c.value)
      [] c.which = "task" -> ToCompatTask(c.value)
      [] c.which = "status_update" -> ToCompatStatusUpdate(c.value)
      [] c.which = "artifact_update" -> ToCompatArtifactUpdate(c.value)

(* agent cards *)
ToCoreSecurityRequirement(r) == [s \in DOMAIN r |-> [list |-> r[s]]]
ToCompatSecurityRequirement(c) == [s \in DOMAIN c |-> c[s].list]

FlowNames == <<"authorization_code", "client_credentials", "implicit", "password">>
CoreFlow(f) == [url |-> f.url, refresh_url |-> OrBlank(f.refresh_url)]
\* a protobuf oneof: of several flows the one assigned last remains
ToCoreOAuthFlows(f) ==
    LET given == {i \in DOMAIN FlowNames : f[FlowNames[i]] # Absent}
    IN IF given = {} THEN Absent
       ELSE LET last == FlowNames[CHOOSE i \in given : \A j \in given : j <= i]
            IN [which |-> last, flow |-> CoreFlow(f[last])]
\* v1.0's device_code flow has no v0.3 counterpart and is dropped
ToCompatOAuthFlows(c) ==
    [n \in {FlowNames[i] : i \in DOMAIN FlowNames} |->
        IF c # Absent /\ c.which = n
        THEN [url |-> c.flow.url, refresh_url |-> BlankAbsent(c.flow.refresh_url)]
        ELSE Absent]

ToCoreSecurityScheme(s) ==
    CASE s.type = "apiKey" -> [which |-> "api_key", location |-> s.in_, name |-> s.name,
                               description |-> OrBlank(s.description)]
      [] s.type = "http" -> [which |-> "http_auth", scheme |-> s.scheme,
                             bearer_format |-> OrBlank(s.bearer_format),
                             description |-> OrBlank(s.description)]
      [] s.type = "oauth2" -> [which |-> "oauth2", flows |-> ToCoreOAuthFlows(s.flows),
                               oauth2_metadata_url |-> OrBlank(s.oauth2_metadata_url),
                               description |-> OrBlank(s.description)]
      [] s.type = "openIdConnect" -> [which |-> "open_id_connect",
                                      open_id_connect_url |-> s.open_id_connect_url,
                                      description |-> OrBlank(s.description)]
      [] s.type = "mutualTLS" -> [which |-> "mtls", description |-> OrBlank(s.description)]
ToCompatSecurityScheme(c) ==
    LET description == BlankAbsent(c.description)
    IN CASE c.which = "api_key" -> [type |-> "apiKey", in_ |-> c.location, name |-> c.name,
                                    description |-> description]
         [] c.which = "http_auth" -> [type |-> "http", scheme |-> c.scheme,
                                      bearer_format |-> BlankAbsent(c.bearer_format),
                                      description |-> description]
         [] c.which = "oauth2" -> [type |-> "oauth2", flows |-> ToCompatOAuthFlows(c.flows),
                                   oauth2_metadata_url |-> BlankAbsent(c.oauth2_metadata_url),
                                   description |-> description]
         [] c.which = "open_id_connect" -> [type |-> "openIdConnect",
                                            open_id_connect_url |-> c.open_id_connect_url,
                                            description |-> description]
         [] c.which = "mtls" -> [type |-> "mutualTLS", description |-> description]

ToCoreInterface(i) ==
    [url |-> i.url, protocol_binding |-> i.transport, protocol_version |-> "0.3", tenant |-> ""]
ToCompatInterface(c) == [url |-> c.url, transport |-> c.protocol_binding]
ToCoreProvider(p) == [url |-> p.url, organization |-> p.organization]
ToCompatProvider(c) == [url |-> c.url, organization |-> c.organization]
ToCoreExtension(e) ==
    [uri |-> e.uri, description |-> OrBlank(e.description), required |-> e.required = TRUE,
     params |-> NoKeysAbsent(e.params)]
ToCompatExtension(c) ==
    [uri |-> c.uri, description |-> BlankAbsent(c.description), required |-> c.required,
     params |-> c.params]
ToCoreCapabilities(p, extended) ==
    [streaming |-> p.streaming, push_notifications |-> p.push_notifications,
     extensions |-> EachGiven(ToCoreExtension, p.extensions), extended_agent_card |-> extended]
ToCompatCapabilities(c) ==
    [streaming |-> c.streaming, push_notifications |-> c.push_notifications,
     extensions |-> NoneAbsent(Each(ToCompatExtension, c.extensions)),
     state_transition_history |-> Absent]
ToCoreSkill(k) ==
    [id |-> k.id, tags |-> k.tags, examples |-> OrNone(k.examples),
     input_modes |-> OrNone(k.input_modes), output_modes |-> OrNone(k.output_modes),
     security_requirements |-> EachGiven(ToCoreSecurityRequirement, k.security)]
ToCompatSkill(c) ==
    [id |-> c.id, tags |-> c.tags, examples |-> NoneAbsent(c.examples),
     input_modes |-> NoneAbsent(c.input_modes), output_modes |-> NoneAbsent(c.output_modes),
     security |-> NoneAbsent(Each(ToCompatSecurityRequirement, c.security_requirements))]
ToCoreSignature(s) ==
    [protected |-> s.protected, signature |-> s.signature, header |-> NoKeysAbsent(s.header)]
ToCompatSignature(c) ==
    [protected |-> c.protected, signature |-> c.signature, header |-> c.header]

EachScheme(F(_), m) == [n \in DOMAIN m |-> F(m[n])]
ToCoreAgentCard(a) ==
    [name |-> a.name,
     supported_interfaces |->
        <<[url |-> a.url,
           protocol_binding |-> IF a.preferred_transport \in {Absent, ""} THEN "JSONRPC"
                                ELSE a.preferred_transport,
           protocol_version |-> IF a.protocol_version \in {Absent, ""} THEN "0.3"
                                ELSE a.protocol_version,
           tenant |-> ""]>>
          \o EachGiven(ToCoreInterface, a.additional_interfaces),
     provider |-> Given(ToCoreProvider, a.provider),
     documentation_url |-> IF a.documentation_url = "" THEN Absent ELSE a.documentation_url,
     icon_url |-> IF a.icon_url = "" THEN Absent ELSE a.icon_url,
     capabilities |-> ToCoreCapabilities(a.capabilities, a.supports_authenticated_extended_card),
     security_schemes |-> IF a.security_schemes = Absent THEN <<>>
                          ELSE EachScheme(ToCoreSecurityScheme, a.security_schemes),
     security_requirements |-> EachGiven(ToCoreSecurityRequirement, a.security),
     default_input_modes |-> a.default_input_modes,
     default_output_modes |-> a.default_output_modes,
     skills |-> Each(ToCoreSkill, a.skills),
     signatures |-> EachGiven(ToCoreSignature, a.signatures)]

\* versions.py: 0.3 <= v < 1.0; an interface without a version counts as legacy
IsLegacyVersion(v) == v \in {"0.3", "0.3.0", "0.9"}
LegacyInterfaces(c) ==
    LET legacy(i) == i.protocol_version = "" \/ IsLegacyVersion(i.protocol_version)
    IN SelectSeq(c.supported_interfaces, legacy)
HasCompatCard(c) == LegacyInterfaces(c) # <<>>   \* else VersionNotSupportedError
ToCompatAgentCard(c) ==
    LET legacy == LegacyInterfaces(c)
    IN [name |-> c.name, url |-> Head(legacy).url,
        preferred_transport |-> Head(legacy).protocol_binding,
        protocol_version |-> IF Head(legacy).protocol_version = "" THEN "0.3"
                             ELSE Head(legacy).protocol_version,
        additional_interfaces |-> NoneAbsent(Each(ToCompatInterface, Tail(legacy))),
        provider |-> Given(ToCompatProvider, c.provider),
        documentation_url |-> c.documentation_url, icon_url |-> c.icon_url,
        capabilities |-> ToCompatCapabilities(c.capabilities),
        supports_authenticated_extended_card |-> c.capabilities.extended_agent_card,
        security_schemes |-> IF c.security_schemes = <<>> THEN Absent
                             ELSE EachScheme(ToCompatSecurityScheme, c.security_schemes),
        security |-> NoneAbsent(Each(ToCompatSecurityRequirement, c.security_requirements)),
        default_input_modes |-> c.default_input_modes,
        default_output_modes |-> c.default_output_modes,
        skills |-> Each(ToCompatSkill, c.skills),
        signatures |-> NoneAbsent(Each(ToCompatSignature, c.signatures))]
=============================================================================

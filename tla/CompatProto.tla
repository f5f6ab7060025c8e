---------------------------- MODULE CompatProto ----------------------------
(* compat/v0_3/proto_utils.py: between the v0.3 models and the v0.3         *)
(* protobuf messages of its gRPC and REST bindings.  A message keeps its    *)
(* model's field names; what an unset field becomes is what differs.        *)
(* ToProto!X is written PutX and FromProto!X is written TakeX.              *)
EXTENDS CompatConversions

NoKeys(d) == IF d = Absent THEN {} ELSE d           \* FromProto.metadata

(* parts, messages, artifacts, tasks *)
PutFile(f) == [f EXCEPT !.mime_type = OrBlank(@), !.name = OrBlank(@)]
TakeFile(f) == [f EXCEPT !.mime_type = BlankAbsent(@), !.name = BlankAbsent(@)]
PutPart(p) == IF p.kind = "file" THEN [p EXCEPT !.file = PutFile(@)] ELSE p
\* an empty Struct is falsy, so a part's metadata is None where a message's is {}
TakePart(p) ==
    LET q == [p EXCEPT !.metadata = NoKeysAbsent(@)]
    IN IF q.kind = "file" THEN [q EXCEPT !.file = TakeFile(@)] ELSE q

\* the v0.3 message has no field for the tasks it refers to
PutMessage(m) ==
    [m EXCEPT !.parts = Each(PutPart, @), !.context_id = OrBlank(@), !.task_id = OrBlank(@),
              !.reference_task_ids = Absent, !.extensions = OrNone(@)]
TakeMessage(m) ==
    [m EXCEPT !.parts = Each(TakePart, @), !.context_id = BlankAbsent(@),
              !.task_id = BlankAbsent(@), !.metadata = NoKeys(@), !.extensions = NoneAbsent(@)]

PutArtifact(a) ==
    [a EXCEPT !.description = OrBlank(@), !.name = OrBlank(@), !.parts = Each(PutPart, @),
              !.extensions = OrNone(@)]
TakeArtifact(a) ==
    [a EXCEPT !.metadata = NoKeys(@), !.parts = Each(TakePart, @), !.extensions = NoneAbsent(@)]

PutTaskState(s) == IF s = "unknown" THEN "unspecified" ELSE s
TakeTaskState(s) == IF s \in TaskState THEN s ELSE "unknown"
PutTaskStatus(s) ==
    [state |-> PutTaskState(s.state), message |-> Given(PutMessage, s.message),
     timestamp |-> Timestamp(s.timestamp)]
TakeTaskStatus(s) ==
    [s EXCEPT !.state = TakeTaskState(@), !.message = Given(TakeMessage, @)]

PutTask(t) ==
    [t EXCEPT !.status = PutTaskStatus(@), !.artifacts = EachGiven(PutArtifact, @),
              !.history = EachGiven(PutMessage, @)]
TakeTask(t) ==
    [t EXCEPT !.status = TakeTaskStatus(@), !.artifacts = Each(TakeArtifact, @),
              !.history = Each(TakeMessage, @), !.metadata = NoKeys(@)]
PutStatusUpdate(e) == [e EXCEPT !.status = PutTaskStatus(@)]
TakeStatusUpdate(e) == [e EXCEPT !.status = TakeTaskStatus(@), !.metadata = NoKeys(@)]
PutArtifactUpdate(e) ==
    [e EXCEPT !.artifact = PutArtifact(@), !.append = @ = TRUE, !.last_chunk = @ = TRUE]
TakeArtifactUpdate(e) == [e EXCEPT !.artifact = TakeArtifact(@), !.metadata = NoKeys(@)]
PutEvent(e) ==
    CASE e.kind = "message" -> PutMessage(e)
      [] e.kind = "task" -> PutTask(e)
      [] e.kind = "status-update" -> PutStatusUpdate(e)
      [] e.kind = "artifact-update" -> PutArtifactUpdate(e)
TakeEvent(e) ==
    CASE e.kind = "message" -> TakeMessage(e)
      [] e.kind = "task" -> TakeTask(e)
      [] e.kind = "status-update" -> TakeStatusUpdate(e)
      [] e.kind = "artifact-update" -> TakeArtifactUpdate(e)

(* resource names: what the two f-strings put between their fixed words, and *)
(* what the two patterns read there; a group [^/]+ ends at a '/', takes no   *)
(* empty piece, and match() does not ask what follows the last one           *)
TaskName(id) == [task |-> id]
PushConfigName(task, id) == [task |-> task, config |-> id]
Cut(s) == IF s \in DOMAIN Slashed THEN Slashed[s] ELSE s
TASK_NAME_MATCH(name) == Cut(name.task) # ""
TASK_PUSH_CONFIG_NAME_MATCH(name) ==
    name.task # "" /\ name.task \notin DOMAIN Slashed /\ Cut(name.config) # ""

(* push notification configs *)
PutAuthenticationInfo(a) == [a EXCEPT !.credentials = OrBlank(@)]
PutPushConfig(p) ==
    [p EXCEPT !.id = OrBlank(@), !.token = OrBlank(@),
              !.authentication = Given(PutAuthenticationInfo, @)]
PutTaskPushConfig(p) ==
    [name |-> PushConfigName(p.task_id, IF p.push_notification_config.id = Absent THEN "None"
                                        ELSE p.push_notification_config.id),
     push_notification_config |-> PutPushConfig(p.push_notification_config)]
\* where the name matches; an InvalidParamsError where it does not
TakeTaskPushConfig(p) ==
    [task_id |-> Cut(p.name.task), push_notification_config |-> p.push_notification_config]

(* requests *)
\* no configuration is sent as an empty one
PutSendConfiguration(f) ==
    IF f = Absent
    THEN [accepted_output_modes |-> <<>>, push_notification_config |-> Absent,
          history_length |-> 0, blocking |-> FALSE]
    ELSE [accepted_output_modes |-> OrNone(f.accepted_output_modes),
          push_notification_config |-> Given(PutPushConfig, f.push_notification_config),
          history_length |-> IF f.history_length = Absent THEN 0 ELSE f.history_length,
          blocking |-> f.blocking = TRUE]
TakeSendConfiguration(f) == [f EXCEPT !.history_length = Unlimited(@)]
TakeSendParams(r) ==
    [message |-> TakeMessage(r.message),
     configuration |-> Given(TakeSendConfiguration, r.configuration),
     metadata |-> NoKeys(r.metadata)]
\* where the name or the parent matches
TakeTaskId(r) == [id |-> Cut(r.name.task), metadata |-> Absent]
TakeTaskQuery(r) == [id |-> Cut(r.name.task), history_length |-> Unlimited(r.history_length)]
\* the id is a field of the config, the name in the config is not read
TakeTaskPushConfigRequest(r) ==
    [task_id |-> Cut(r.parent.task),
     push_notification_config |-> r.config.push_notification_config]

(* agent cards *)
PutExtension(e) ==
    [e EXCEPT !.description = OrBlank(@), !.required = @ = TRUE, !.params = NoKeysAbsent(@)]
TakeExtension(e) == [e EXCEPT !.params = NoKeys(@)]
PutCapabilities(c) ==
    [c EXCEPT !.streaming = @ = TRUE, !.push_notifications = @ = TRUE,
              !.state_transition_history = Absent, !.extensions = EachGiven(PutExtension, @)]
TakeCapabilities(c) == [c EXCEPT !.extensions = Each(TakeExtension, @)]
PutSignature(s) == s
TakeSignature(s) == [s EXCEPT !.header = NoKeys(@)]
PutSkill(k) ==
    [k EXCEPT !.examples = OrNone(@), !.input_modes = OrNone(@), !.output_modes = OrNone(@),
              !.security = OrNone(@)]
TakeSkill(k) == [k EXCEPT !.security = NoneAbsent(@)]

\* the first flow wins; a ValueError where there is none
HasFlow(f) == \E n \in DOMAIN f : f[n] # Absent
PutOAuthFlows(f) ==
    LET given == {i \in DOMAIN FlowNames : f[FlowNames[i]] # Absent}
        first == FlowNames[CHOOSE i \in given : \A j \in given : i <= j]
    IN [which |-> first, url |-> f[first].url, refresh_url |-> OrBlank(f[first].refresh_url)]
TakeOAuthFlows(f) ==
    [n \in {FlowNames[i] : i \in DOMAIN FlowNames} |->
        IF f.which = n THEN [url |-> f.url, refresh_url |-> f.refresh_url] ELSE Absent]
PutScheme(s) ==
    LET t == [s EXCEPT !.description = OrBlank(@)]
    IN CASE s.type = "http" -> [t EXCEPT !.bearer_format = OrBlank(@)]
         [] s.type = "oauth2" -> [t EXCEPT !.flows = PutOAuthFlows(@),
                                           !.oauth2_metadata_url = OrBlank(@)]
         [] s.type \in {"apiKey", "mutualTLS", "openIdConnect"} -> t
TakeScheme(s) ==
    IF s.type = "oauth2"
    THEN [s EXCEPT !.flows = TakeOAuthFlows(@), !.oauth2_metadata_url = BlankAbsent(@)]
    ELSE s
CanPutCard(a) ==
    \A n \in IF a.security_schemes = Absent THEN {} ELSE DOMAIN a.security_schemes :
        a.security_schemes[n].type = "oauth2" => HasFlow(a.security_schemes[n].flows)
PutAgentCard(a) ==
    [a EXCEPT !.capabilities = PutCapabilities(@), !.documentation_url = OrBlank(@),
              !.security = OrNone(@), !.skills = Each(PutSkill, @),
              !.security_schemes = IF @ = Absent THEN <<>> ELSE EachScheme(PutScheme, @),
              !.supports_authenticated_extended_card = @ = TRUE,
              !.preferred_transport = OrBlank(@), !.protocol_version = OrBlank(@),
              !.additional_interfaces = OrNone(@), !.icon_url = OrBlank(@),
              !.signatures = EachGiven(PutSignature, @)]
TakeAgentCard(a) ==
    [a EXCEPT !.capabilities = TakeCapabilities(@), !.security = NoneAbsent(@),
              !.security_schemes = EachScheme(TakeScheme, @), !.skills = Each(TakeSkill, @),
              !.additional_interfaces = NoneAbsent(@), !.icon_url = BlankAbsent(@),
              !.signatures = NoneAbsent(Each(TakeSignature, @))]
=============================================================================

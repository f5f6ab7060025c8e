---------------------------- MODULE CompatTypes ----------------------------
(* The v0.3 models of compat/v0_3/types.py as sets of records.  A free-form *)
(* dict is the set of its keys, base64 text is a tagged pair, names, urls   *)
(* and ids are strings of which emptiness matters and, where one becomes a  *)
(* piece of a path or of a resource name, whether it holds a '/'.           *)
EXTENDS Naturals, Sequences

CONSTANTS Absent,               \* a Python None, or an unset protobuf field
          DictKeys,             \* keys of a free-form dict, but for the reserved one
          Slashed               \* of each string with a '/', what stands before it
ASSUME SlashedStrings ==
    /\ DOMAIN Slashed \subseteq STRING /\ "" \notin DOMAIN Slashed
    /\ \A s \in DOMAIN Slashed : Slashed[s] \in STRING /\ Slashed[s] \notin DOMAIN Slashed

CompatOpt(S) == {Absent} \cup S
CompatStr == STRING
CompatDict == CompatOpt(SUBSET (DictKeys \cup {"data_part_compat"}))
CompatList == CompatOpt(Seq(CompatStr))

(* parts, messages, artifacts, tasks *)
TaskState == {"submitted", "working", "input-required", "completed", "canceled",
              "failed", "rejected", "auth-required", "unknown"}
Role == {"agent", "user"}
TextPart == [kind : {"text"}, text : CompatStr, metadata : CompatDict]
\* the data of a data part is a dict: its one key is "k" or "value"
CompatData == [{"k"} -> CompatStr] \cup [{"value"} -> CompatStr]
DataPart == [kind : {"data"}, data : CompatData, metadata : CompatDict]
FileWithBytes == [bytes : {"base64"} \X CompatStr, mime_type : CompatOpt(CompatStr),
                  name : CompatOpt(CompatStr)]
FileWithUri == [uri : CompatStr, mime_type : CompatOpt(CompatStr), name : CompatOpt(CompatStr)]
FilePart == [kind : {"file"}, file : FileWithBytes \cup FileWithUri, metadata : CompatDict]
CompatPart == TextPart \cup DataPart \cup FilePart
CompatMessage ==
    [kind : {"message"}, message_id : CompatStr, role : Role, context_id : CompatOpt(CompatStr),
     task_id : CompatOpt(CompatStr), reference_task_ids : CompatList, metadata : CompatDict,
     extensions : CompatList, parts : Seq(CompatPart)]
CompatArtifact ==
    [artifact_id : CompatStr, name : CompatOpt(CompatStr), description : CompatOpt(CompatStr),
     parts : Seq(CompatPart), metadata : CompatDict, extensions : CompatList]
CompatTaskStatus ==
    [state : TaskState, message : CompatOpt(CompatMessage), timestamp : CompatOpt(CompatStr)]
CompatTask ==
    [kind : {"task"}, id : CompatStr, context_id : CompatStr, status : CompatTaskStatus,
     history : CompatOpt(Seq(CompatMessage)), artifacts : CompatOpt(Seq(CompatArtifact)),
     metadata : CompatDict]
TaskStatusUpdateEvent ==
    [kind : {"status-update"}, task_id : CompatStr, context_id : CompatStr,
     status : CompatTaskStatus, metadata : CompatDict, final : BOOLEAN]
TaskArtifactUpdateEvent ==
    [kind : {"artifact-update"}, task_id : CompatStr, context_id : CompatStr,
     artifact : CompatArtifact, append : CompatOpt(BOOLEAN), last_chunk : CompatOpt(BOOLEAN),
     metadata : CompatDict]

(* push notification and call parameters *)
PushNotificationAuthenticationInfo ==
    [schemes : Seq(CompatStr), credentials : CompatOpt(CompatStr)]
PushNotificationConfig ==
    [url : CompatStr, id : CompatOpt(CompatStr), token : CompatOpt(CompatStr),
     authentication : CompatOpt(PushNotificationAuthenticationInfo)]
CompatTaskPushNotificationConfig ==
    [task_id : CompatStr, push_notification_config : PushNotificationConfig]
MessageSendConfiguration ==
    [accepted_output_modes : CompatList, push_notification_config : CompatOpt(PushNotificationConfig),
     history_length : CompatOpt(Nat), blocking : CompatOpt(BOOLEAN)]
MessageSendParams ==
    [message : CompatMessage, configuration : CompatOpt(MessageSendConfiguration),
     metadata : CompatDict]
TaskQueryParams == [id : CompatStr, history_length : CompatOpt(Nat)]
TaskIdParams == [id : CompatStr, metadata : CompatDict]
GetTaskPushNotificationConfigParams ==
    [id : CompatStr, push_notification_config_id : CompatOpt(CompatStr)]
DeleteTaskPushNotificationConfigParams ==
    [id : CompatStr, push_notification_config_id : CompatStr]

(* agent cards; of several required strings copied alike, one is kept *)
AgentProvider == [organization : CompatStr, url : CompatStr]
AgentInterface == [transport : CompatStr, url : CompatStr]
AgentExtension == [uri : CompatStr, description : CompatOpt(CompatStr),
                   required : CompatOpt(BOOLEAN), params : CompatDict]
AgentCapabilities ==
    [extensions : CompatOpt(Seq(AgentExtension)), push_notifications : CompatOpt(BOOLEAN),
     streaming : CompatOpt(BOOLEAN), state_transition_history : CompatOpt(BOOLEAN)]
\* the flows differ in which urls they carry; the one kept here stands for them
OAuthFlow == [url : CompatStr, refresh_url : CompatOpt(CompatStr)]
OAuthFlows == [{"authorization_code", "client_credentials", "implicit", "password"}
                 -> CompatOpt(OAuthFlow)]
APIKeySecurityScheme == [type : {"apiKey"}, in_ : {"cookie", "header", "query"},
                         name : CompatStr, description : CompatOpt(CompatStr)]
HTTPAuthSecurityScheme == [type : {"http"}, scheme : CompatStr,
    bearer_format : CompatOpt(CompatStr), description : CompatOpt(CompatStr)]
OAuth2SecurityScheme == [type : {"oauth2"}, flows : OAuthFlows,
    oauth2_metadata_url : CompatOpt(CompatStr), description : CompatOpt(CompatStr)]
OpenIdConnectSecurityScheme == [type : {"openIdConnect"}, open_id_connect_url : CompatStr,
                                description : CompatOpt(CompatStr)]
MutualTLSSecurityScheme == [type : {"mutualTLS"}, description : CompatOpt(CompatStr)]
CompatSecurityScheme ==
    APIKeySecurityScheme \cup HTTPAuthSecurityScheme \cup OAuth2SecurityScheme
      \cup OpenIdConnectSecurityScheme \cup MutualTLSSecurityScheme
CompatSecurity == CompatOpt(Seq([{"s"} -> Seq(CompatStr)]))
AgentSkill ==
    [id : CompatStr, tags : Seq(CompatStr), examples : CompatList, input_modes : CompatList,
     output_modes : CompatList, security : CompatSecurity]
AgentCardSignature == [protected : CompatStr, signature : CompatStr, header : CompatDict]
CompatAgentCard ==
    [name : CompatStr, url : CompatStr, preferred_transport : CompatOpt(CompatStr),
     protocol_version : CompatOpt(CompatStr),
     additional_interfaces : CompatOpt(Seq(AgentInterface)), provider : CompatOpt(AgentProvider),
     documentation_url : CompatOpt(CompatStr), icon_url : CompatOpt(CompatStr),
     capabilities : AgentCapabilities,
     supports_authenticated_extended_card : CompatOpt(BOOLEAN),
     security_schemes : CompatOpt([{"s"} -> CompatSecurityScheme] \cup {<<>>}),
     security : CompatSecurity, default_input_modes : Seq(CompatStr),
     default_output_modes : Seq(CompatStr), skills : Seq(AgentSkill),
     signatures : CompatOpt(Seq(AgentCardSignature))]
=============================================================================

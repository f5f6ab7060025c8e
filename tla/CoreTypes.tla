----------------------------- MODULE CoreTypes -----------------------------
(* The v1.0 protobuf messages as sets of records.  An unset string is "",   *)
(* an unset repeated field <<>>, and Absent stands where the field has      *)
(* presence.  The key that marks a wrapped scalar is reserved, and protobuf *)
(* prints a timestamp with a "Z".                                           *)
EXTENDS CompatTypes

CoreDict == CompatOpt(SUBSET DictKeys)

(* parts, messages, artifacts, tasks *)
CorePart ==
    [which : {"text", "scalar", "raw", "url"}, content : CompatStr, media_type : CompatStr,
     filename : CompatStr, metadata : CoreDict]
      \cup [which : {"struct"}, content : CompatData, media_type : CompatStr,
            filename : CompatStr, metadata : CoreDict]
CoreMessage ==
    [message_id : CompatStr, context_id : CompatStr, task_id : CompatStr,
     reference_task_ids : Seq(CompatStr), role : Role \cup {"unspecified"}, metadata : CoreDict,
     extensions : Seq(CompatStr), parts : Seq(CorePart)]
CoreState == (TaskState \ {"unknown"}) \cup {"unspecified"}
CoreTaskStatus ==
    [state : CoreState, message : CompatOpt(CoreMessage),
     timestamp : CompatOpt(CompatStr \ {"", "t+00:00"})]
CoreArtifact ==
    [artifact_id : CompatStr, name : CompatStr, description : CompatStr,
     extensions : Seq(CompatStr), parts : Seq(CorePart), metadata : CoreDict]
CoreTask ==
    [id : CompatStr, context_id : CompatStr, status : CompatOpt(CoreTaskStatus),
     history : Seq(CoreMessage), artifacts : Seq(CoreArtifact), metadata : CoreDict]
CoreStatusUpdate ==
    [task_id : CompatStr, context_id : CompatStr, status : CompatOpt(CoreTaskStatus),
     metadata : CoreDict]
CoreArtifactUpdate ==
    [task_id : CompatStr, context_id : CompatStr, artifact : CoreArtifact, append : BOOLEAN,
     last_chunk : BOOLEAN, metadata : CoreDict]
CoreEvent ==
    [which : {"message"}, value : CoreMessage] \cup [which : {"task"}, value : CoreTask]
      \cup [which : {"status_update"}, value : CoreStatusUpdate]
      \cup [which : {"artifact_update"}, value : CoreArtifactUpdate]

(* push notification configs and the parameters of send *)
CoreAuthenticationInfo == [scheme : CompatStr, credentials : CompatStr]
CorePushConfig ==
    [task_id : CompatStr, url : CompatStr, id : CompatStr, token : CompatStr,
     authentication : CompatOpt(CoreAuthenticationInfo)]
CoreSendConfiguration ==
    [accepted_output_modes : Seq(CompatStr), history_length : CompatOpt(Nat),
     return_immediately : BOOLEAN, task_push_notification_config : CompatOpt(CorePushConfig)]
CoreSendRequest ==
    [message : CoreMessage, configuration : CompatOpt(CoreSendConfiguration), metadata : CoreDict]

(* agent cards, with what of them v0.3 knows *)
CoreInterface ==
    [url : CompatStr, protocol_binding : CompatStr, protocol_version : CompatStr,
     tenant : CompatStr]
CoreExtension == [uri : CompatStr, description : CompatStr, required : BOOLEAN, params : CoreDict]
CoreCapabilities ==
    [streaming : CompatOpt(BOOLEAN), push_notifications : CompatOpt(BOOLEAN),
     extensions : Seq(CoreExtension), extended_agent_card : CompatOpt(BOOLEAN)]
CoreOAuthFlows ==
    [which : {"authorization_code", "client_credentials", "implicit", "password", "device_code"},
     flow : [url : CompatStr, refresh_url : CompatStr]]
CoreSecurityScheme ==
    [which : {"api_key"}, location : {"cookie", "header", "query"}, name : CompatStr,
     description : CompatStr]
      \cup [which : {"http_auth"}, scheme : CompatStr, bearer_format : CompatStr,
            description : CompatStr]
      \cup [which : {"oauth2"}, flows : CompatOpt(CoreOAuthFlows),
            oauth2_metadata_url : CompatStr, description : CompatStr]
      \cup [which : {"open_id_connect"}, open_id_connect_url : CompatStr, description : CompatStr]
      \cup [which : {"mtls"}, description : CompatStr]
CoreSecurityRequirement == [{"s"} -> [list : Seq(CompatStr)]]
CoreSkill ==
    [id : CompatStr, tags : Seq(CompatStr), examples : Seq(CompatStr),
     input_modes : Seq(CompatStr), output_modes : Seq(CompatStr),
     security_requirements : Seq(CoreSecurityRequirement)]
CoreSignature == [protected : CompatStr, signature : CompatStr, header : CoreDict]
CoreAgentCard ==
    [name : CompatStr, supported_interfaces : Seq(CoreInterface),
     provider : CompatOpt(AgentProvider), documentation_url : CompatOpt(CompatStr),
     icon_url : CompatOpt(CompatStr), capabilities : CoreCapabilities,
     security_schemes : {<<>>} \cup [{"s"} -> CoreSecurityScheme],
     security_requirements : Seq(CoreSecurityRequirement),
     default_input_modes : Seq(CompatStr), default_output_modes : Seq(CompatStr),
     skills : Seq(CoreSkill), signatures : Seq(CoreSignature)]

ASSUME AbsentIsNoValue ==
    /\ Absent \notin CompatStr /\ Absent \notin BOOLEAN /\ Absent \notin Nat
    /\ \A keys \in SUBSET (DictKeys \cup {"data_part_compat"}) : Absent # keys
    /\ Absent \notin Seq(CompatStr)
    /\ Absent \notin CompatMessage /\ Absent \notin Seq(CompatMessage)
    /\ Absent \notin Seq(CompatArtifact)
    /\ Absent \notin PushNotificationAuthenticationInfo /\ Absent \notin PushNotificationConfig
    /\ Absent \notin MessageSendConfiguration
    /\ Absent \notin CoreMessage /\ Absent \notin CoreTaskStatus /\ Absent \notin CorePushConfig
    /\ Absent \notin CoreSendConfiguration
    /\ Absent \notin Seq([{"s"} -> Seq(CompatStr)])
    /\ Absent \notin [{"s"} -> CompatSecurityScheme]
\* TLA+ says so of every string, but its provers do not
ASSUME BlankIsText == "" \in CompatStr
ASSUME MarkIsReserved == "data_part_compat" \notin DictKeys
=============================================================================

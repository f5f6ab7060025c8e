------------------------------- MODULE MC_A2A -------------------------------
(* The self-contained parts of the A2A stack, one at a time: Init chooses   *)
(* the part that runs.  For the calls of A2AWire small values of every      *)
(* kind of part, set and unset fields, a card per binding and version.      *)
EXTENDS A2AWire, TaskCluster, PluginHooks, TaskListing, PushConfigs, LegacyHandler

VARIABLE section

Part(w, c, md) == [which |-> w, content |-> c, media_type |-> "", filename |-> "", metadata |-> md]
Msg(role, parts) ==
    [message_id |-> "m", context_id |-> "", task_id |-> "", reference_task_ids |-> <<>>,
     role |-> role, metadata |-> Absent, extensions |-> <<>>, parts |-> parts]
FullMsg ==
    [Msg("user", <<Part("scalar", "v", {"k"}), [Part("raw", "b", Absent) EXCEPT !.filename = "f"]>>)
       EXCEPT !.context_id = "c", !.task_id = "t", !.reference_task_ids = <<"t">>,
              !.metadata = {"k"}, !.extensions = <<"x">>]
Status(s) == [state |-> s, message |-> Absent, timestamp |-> Absent]
Artifact == [artifact_id |-> "a", name |-> "", description |-> "", extensions |-> <<>>,
             parts |-> <<Part("scalar", "v", Absent)>>, metadata |-> {"k"}]
TaskOf(s, history, artifacts) ==
    [id |-> "t", context_id |-> "c", status |-> s, history |-> history, artifacts |-> artifacts,
     metadata |-> Absent]
FullTask == TaskOf([state |-> "completed", message |-> FullMsg, timestamp |-> "tZ"],
                   <<FullMsg>>, <<Artifact>>)
\* an id with a '/', as a task's, a config's and a tenant's
MCSlashed == [s \in {"a/b"} |-> "a"]
Push(id, auth) == [task_id |-> "t", url |-> "u", id |-> id, token |-> "", authentication |-> auth]
PushConfigs == {Push("p", Absent), Push("", [scheme |-> "s", credentials |-> ""]),
                [Push("p", Absent) EXCEPT !.task_id = "a/b"], Push("a/b", Absent)}

SendConfiguration ==
    [accepted_output_modes |-> <<"m">>, history_length |-> 0, return_immediately |-> TRUE,
     task_push_notification_config |-> Push("p", Absent)]
Send(message, configuration) ==
    [message |-> message, configuration |-> configuration, metadata |-> {"k"}]
MCRequests(m) ==
    CASE m = "send_message" ->
           {Send(Msg("user", <<[Part("text", "v", {}) EXCEPT !.media_type = "m"]>>), Absent),
            Send(Msg("unspecified", <<Part("struct", [k |-> "v"], {"k"}),
                                      Part("url", "u", Absent)>>), SendConfiguration),
            Send(FullMsg, Absent)}
      [] m = "get_task" -> [id : {"t"}, history_length : {Absent, 0, 1}]
                             \cup [id : {"", "a/b"}, history_length : {1}]
      [] m = "list_tasks" -> [include_artifacts : BOOLEAN]
      [] m = "cancel_task" -> [id : {"t", "", "a/b"}, metadata : {Absent, {"k"}}]
      [] m = "create_push" -> PushConfigs
      [] m = "get_push" -> [task_id : {"t", "a/b"}, id : {"", "p", "a/b"}]
      [] m = "list_push" -> [task_id : {"t", "", "a/b"}]
      [] m = "delete_push" -> [task_id : {"t", "a/b"}, id : {"p", "a/b", ""}]
      [] m = "subscribe" -> [id : {"t", "", "a/b"}]

Card(interfaces, streaming, extended, schemes) ==
    [name |-> "n", supported_interfaces |-> interfaces, provider |-> Absent,
     documentation_url |-> Absent, icon_url |-> "i",
     capabilities |-> [streaming |-> streaming, push_notifications |-> Absent,
                       extensions |-> <<>>, extended_agent_card |-> extended],
     security_schemes |-> schemes, security_requirements |-> <<[s |-> [list |-> <<"r">>]]>>,
     default_input_modes |-> <<"m">>, default_output_modes |-> <<>>,
     skills |-> <<[id |-> "k", tags |-> <<>>, examples |-> <<>>, input_modes |-> <<>>,
                   output_modes |-> <<>>, security_requirements |-> <<>>]>>,
     signatures |-> <<>>]
Interface(b, v) == [url |-> "u", protocol_binding |-> b, protocol_version |-> v, tenant |-> "own"]
Bindings == {"JSONRPC", "GRPC", "HTTP+JSON"}
OAuth(flows) == [s |-> [which |-> "oauth2", flows |-> flows, oauth2_metadata_url |-> "",
                        description |-> ""]]
MCCards ==
    {Card(<<Interface(b, v)>>, streaming, TRUE, <<>>) :
        b \in Bindings, v \in {"1.0", "0.3"}, streaming \in {TRUE, Absent}}
      \cup {Card(<<Interface("GRPC", "0.2"), Interface("JSONRPC", "0.3"), Interface("JSONRPC", "2.0"),
                   Interface("HTTP+JSON", "")>>, FALSE, Absent, <<>>)}
MCConfigs ==
    {[bindings |-> <<"GRPC", "HTTP+JSON", "JSONRPC">>, use_client_preference |-> pref,
      streaming |-> TRUE, polling |-> ~pref, accepted_output_modes |-> <<>>,
      push_notification_config |-> IF pref THEN Absent ELSE Push("own", Absent)] :
        pref \in BOOLEAN}

Events == {[which |-> "message", value |-> FullMsg], [which |-> "task", value |-> FullTask],
           [which |-> "task", value |-> TaskOf(Absent, <<>>, <<>>)],
           [which |-> "status_update", value |->
              [task_id |-> "t", context_id |-> "c", status |-> Status("unspecified"),
               metadata |-> {"k"}]],
           [which |-> "artifact_update", value |->
              [task_id |-> "t", context_id |-> "c", artifact |-> Artifact, append |-> TRUE,
               last_chunk |-> FALSE, metadata |-> Absent]]}
MCAnswers(m) ==
    CASE m = "send_message" -> {e \in Events : e.which \in {"task", "message"}}
      [] m \in Streaming -> {e \in Events : e.which = "task" => e.value = FullTask}
      [] m \in {"get_task", "cancel_task"} -> {Absent, FullTask}
      [] m = "list_tasks" -> {<<FullTask>>}
      [] m \in {"create_push", "get_push"} ->
           {Push("p", [scheme |-> "", credentials |-> "c"]),
            [Push("p", Absent) EXCEPT !.task_id = "a/b"]}
      [] m = "list_push" -> {<<>>, <<Push("p", Absent), Push("t", Absent)>>,
                             <<Push("a/b", Absent), [Push("p", Absent) EXCEPT !.task_id = "a/b"]>>}
      [] m = "delete_push" -> {"done"}
      [] m = "extended_card" ->
           {Card(<<Interface("JSONRPC", "0.3")>>, FALSE, TRUE,
                 OAuth([which |-> "implicit", flow |-> [url |-> "u", refresh_url |-> ""]])),
            Card(<<Interface("JSONRPC", "0.3")>>, TRUE, FALSE, OAuth(Absent)),
            Card(<<Interface("JSONRPC", "1.0")>>, TRUE, TRUE, <<>>)}

MCTasks == {[stamp |-> 0, context |-> "c", state |-> "working"],
            [stamp |-> 1, context |-> "c", state |-> "completed"],
            [stamp |-> NoStamp, context |-> "d", state |-> "working"]}
Filter(after, context, status) == [after |-> after, context |-> context, status |-> status]
MCFilters == {Filter(NoStamp, Unset, Unset), Filter(1, Unset, Unset),
              Filter(NoStamp, "c", Unset), Filter(NoStamp, Unset, "working"),
              Filter(0, "c", "working")}

\* the first request's agent emits one event, the second's two
MCLegacyEvents == <<1, 2>>
MCLegacyKinds == <<{"auth"}, {"work", "done"}>>

a2aVars == <<section, wireVars, clusterVars, hookVars, listVars, pushVars, legacyVars>>
A2AInit ==
    /\ section \in {"wire", "cluster", "hooks", "listing", "push", "legacy"}
    /\ ClusterInit /\ LegacyInit
    /\ IF section = "wire" THEN WireInit ELSE wireClient = NoCall /\ wireCall = NoCall
    /\ IF section = "hooks" THEN HookInit ELSE hook = NoCall /\ hookLog = <<>>
    /\ ListingInit /\ (section # "listing" => listKind = "memory")
    /\ PushInit /\ pushMode.asks = (pushMode.kind = "database")
    /\ (section # "push" => pushMode.kind = "memory")
A2ANext ==
    \/ /\ section = "wire" /\ WireNext
       /\ UNCHANGED <<section, clusterVars, hookVars, listVars, pushVars, legacyVars>>
    \/ /\ section = "cluster" /\ ClusterNext
       /\ UNCHANGED <<section, wireVars, hookVars, listVars, pushVars, legacyVars>>
    \/ /\ section = "hooks" /\ HookNext
       /\ UNCHANGED <<section, wireVars, clusterVars, listVars, pushVars, legacyVars>>
    \/ /\ section = "listing" /\ ListingNext
       /\ UNCHANGED <<section, wireVars, clusterVars, hookVars, pushVars, legacyVars>>
    \/ /\ section = "push" /\ PushNext
       /\ UNCHANGED <<section, wireVars, clusterVars, hookVars, listVars, legacyVars>>
    \/ /\ section = "legacy" /\ LegacyNext
       /\ UNCHANGED <<section, wireVars, clusterVars, hookVars, listVars, pushVars>>
A2ASpec == A2AInit /\ [][A2ANext]_a2aVars
=============================================================================

---------------------------- MODULE FeatureWire ----------------------------
(***************************************************************************)
(* The newline-framed JSON-RPC pipe pair between the host and one isolated *)
(* feature child (kestrel_sdk/isolated_feature/protocol.py).  A frame is   *)
(* abstracted to what decode_message() and the two dispatchers tell apart: *)
(* its method, its id, the config object it carries, and the class of the  *)
(* result.                                                                 *)
(***************************************************************************)
EXTENDS Naturals, Sequences

CONSTANTS Configs,     \* host-side config objects, compared by identity
          NoConfig,    \* a frame without a config member
          ChildCaps    \* the capabilities a child may advertise

VARIABLES toChild,     \* frames written to the child's stdin and not yet read
          fromChild,   \* lines of the child's stdout the read loop has not taken
          inOpen,      \* both ends of the child's stdin pipe are still open
          outOpen      \* both ends of the child's stdout pipe are still open

wireVars == <<toChild, fromChild, inOpen, outOpen>>

Methods == {"initialize", "health", "list", "call", "ingress", "transition",
            "shutdown"}

\* Variant: tool calls are awaited inline too.
InlineWithCalls == {"initialize", "transition", "shutdown", "call"}

\* The methods serve() awaits inline instead of spawning a task for them.
InlineMethods == {"initialize", "transition", "shutdown"}

(***************************************************************************)
(* Capabilities negotiated by initialize: what the child said about config *)
(* transitions (ConfigTransitionCapabilities) and whether it advertised    *)
(* the host-ingress name the host uses.                                    *)
(***************************************************************************)
Caps == [transition : {"no", "prepare", "live"}, ingress : BOOLEAN]

ASSUME WireConstants == NoConfig \notin Configs /\ ChildCaps \subseteq Caps

NoCaps == [transition |-> "no", ingress |-> FALSE]

(***************************************************************************)
(* The result classes of a successful response.  "malformed" stands for    *)
(* every result the typed API of that method refuses (not an object, an    *)
(* unknown action, another protocol version, a bad tool list).             *)
(***************************************************************************)
HealthValues == {"ready", "notready"}
TransitionValues == {"restart", "applied"}
Values == {"value", "malformed"} \cup HealthValues \cup TransitionValues

Request(id, method, config) ==
    [id |-> id, method |-> method, config |-> config]

Requests == [id : Nat, method : Methods, config : Configs \cup {NoConfig}]

(***************************************************************************)
(* Lines of the child's stdout.  "bad" is a line decode_message() refuses  *)
(* with ProtocolError, "overlong" one that StreamReader.readline() refuses *)
(* with ValueError before it is decoded.                                   *)
(***************************************************************************)
Result(id, value, caps) ==
    [kind |-> "result", id |-> id, value |-> value, caps |-> caps]

Error(id) == [kind |-> "error", id |-> id, value |-> "malformed", caps |-> NoCaps]

Junk(kind) == [kind |-> kind, id |-> 0, value |-> "malformed", caps |-> NoCaps]

Lines == [kind : {"result", "error", "bad", "overlong"}, id : Nat,
          value : Values, caps : Caps]

WireTypeOK ==
    /\ toChild \in Seq(Requests)
    /\ fromChild \in Seq(Lines)
    /\ inOpen \in BOOLEAN
    /\ outOpen \in BOOLEAN

WireInit ==
    /\ toChild = <<>>
    /\ fromChild = <<>>
    /\ inOpen = TRUE
    /\ outOpen = TRUE
=============================================================================

-------------------------- MODULE DeferredDelivery --------------------------
(***************************************************************************)
(* A deferred tool result (kestrel_sdk/tools/deferred.py): one private     *)
(* factory of render parts that is handed from wrapper to wrapper and run  *)
(* at most once, after post-tool policy, by whichever thread claims it.    *)
(*                                                                         *)
(* Result 1 is the tool's own; result n + 1 is the successor for_tool()    *)
(* makes of result n.  An envelope is the text the model sees; wrapper     *)
(* metadata is left out, because it is in the successor's baseline too.    *)
(***************************************************************************)
EXTENDS Naturals

CONSTANTS Threads,   \* threads of the host that use the result
          Contexts,  \* chat destinations
          None,      \* headless delivery, and no thread
          MaxResults \* bound: the chain of wrappers

ASSUME DeliveryConstants == None \notin Contexts /\ MaxResults \in Nat \ {0}

Texts == {"tool", "edited"}
Results == 1..MaxResults

VARIABLES made,       \* results that exist
          text,       \* envelope of each result, mutable by hooks
          baseline,   \* envelope each result was made with
          factory,    \* results that still have their factory
          context,    \* publication_context, shared by the chain
          at,         \* per thread: its place in for_tool() or finalize()
          on, to,     \* per thread: the result it works on, and the destination
          runs,       \* how often the factory was called
          delivered   \* envelopes of the results the factory was run for

resultVars == <<made, text, baseline>>
threadVars == <<on, to>>
deliveryVars == <<resultVars, factory, context, at, threadVars, runs, delivered>>

Places == {"idle", "wrap", "decide", "enter", "publish", "leave"}

DeliveryTypeOK ==
    /\ made \in Results
    /\ text \in [Results -> Texts] /\ baseline \in [Results -> Texts]
    /\ factory \subseteq 1..made
    /\ context \in Contexts \cup {None}
    /\ at \in [Threads -> Places]
    /\ on \in [Threads -> Results] /\ to \in [Threads -> Contexts \cup {None}]
    /\ runs \in Nat
    /\ delivered \subseteq Texts

DeliveryInit ==
    /\ made = 1
    /\ text = [r \in Results |-> "tool"] /\ baseline = [r \in Results |-> "tool"]
    /\ factory = {1}
    /\ context = None
    /\ at = [t \in Threads |-> "idle"]
    /\ on = [t \in Threads |-> 1] /\ to = [t \in Threads |-> None]
    /\ runs = 0
    /\ delivered = {}

\* Thread t moves to a place in its operation.
At(t, place) == at' = [at EXCEPT ![t] = place]

-----------------------------------------------------------------------------
\* Variant: the factory is read but not cleared.
TakeKeepsFactory(r) == r \in factory /\ UNCHANGED factory

\* _take_factory(): under the lock; the loser of a race gets a RuntimeError.
TakeFactory(r) == r \in factory /\ factory' = factory \ {r}

\* A hook or a tool edits the dictionary, or restores it.
Edit(r) ==
    /\ r \in 1..made
    /\ \E new \in Texts : text' = [text EXCEPT ![r] = new]
    /\ UNCHANGED <<made, baseline, factory, context, at, threadVars, runs, delivered>>

\* for_tool() claims the factory.
ForTool(t, r) ==
    /\ at[t] = "idle"
    /\ TakeFactory(r)
    /\ At(t, "wrap") /\ on' = [on EXCEPT ![t] = r]
    /\ UNCHANGED <<resultVars, to, context, runs, delivered>>

\* for_tool() with an unchanged envelope and valid arguments makes the successor.
Wrap(t) ==
    /\ at[t] = "wrap" /\ made < MaxResults
    /\ text[on[t]] = baseline[on[t]]
    /\ made' = made + 1
    /\ text' = [text EXCEPT ![made'] = text[on[t]]]
    /\ baseline' = [baseline EXCEPT ![made'] = text[on[t]]]
    /\ factory' = factory \cup {made'}
    /\ At(t, "idle")
    /\ UNCHANGED <<threadVars, context, runs, delivered>>

\* for_tool() raises, for a changed envelope or an invalid argument: the claimed factory is
\* gone with the call.
WrapRefused(t) ==
    /\ at[t] = "wrap"
    /\ At(t, "idle")
    /\ UNCHANGED <<resultVars, threadVars, factory, context, runs, delivered>>

\* finalize() claims the factory.
Finalize(t, r) ==
    /\ at[t] = "idle"
    /\ TakeFactory(r)
    /\ At(t, "decide") /\ on' = [on EXCEPT ![t] = r]
    /\ \E chat \in Contexts \cup {None} : to' = [to EXCEPT ![t] = chat]
    /\ UNCHANGED <<resultVars, context, runs, delivered>>

\* Delivery is withheld: denied, another object returned by policy, a changed envelope or an
\* invalid argument.
Withhold(t) ==
    /\ at[t] = "decide"
    /\ At(t, "idle")
    /\ UNCHANGED <<resultVars, threadVars, factory, context, runs, delivered>>

\* Policy allowed this very result, and a copy of it equals the baseline.
Decide(t) ==
    /\ at[t] = "decide"
    /\ text[on[t]] = baseline[on[t]]
    /\ delivered' = delivered \cup {text[on[t]]}
    /\ At(t, "enter")
    /\ UNCHANGED <<resultVars, threadVars, factory, context, runs>>

\* The destination is set under the lock before the factory runs.
EnterContext(t) ==
    /\ at[t] = "enter"
    /\ context' = to[t]
    /\ At(t, "publish")
    /\ UNCHANGED <<resultVars, threadVars, factory, runs, delivered>>

\* The factory is called; it returns or raises.
Publish(t) ==
    /\ at[t] = "publish"
    /\ runs' = runs + 1
    /\ At(t, "leave")
    /\ UNCHANGED <<resultVars, threadVars, factory, context, delivered>>

\* The finally clause clears the destination without the lock.
LeaveContext(t) ==
    /\ at[t] = "leave"
    /\ context' = None
    /\ At(t, "idle")
    /\ UNCHANGED <<resultVars, threadVars, factory, runs, delivered>>

DeliveryNext ==
    \/ \E r \in Results : Edit(r)
    \/ \E t \in Threads :
          \/ \E r \in Results : ForTool(t, r) \/ Finalize(t, r)
          \/ Wrap(t) \/ WrapRefused(t) \/ Withhold(t) \/ Decide(t) \/ EnterContext(t)
          \/ Publish(t) \/ LeaveContext(t)

DeliverySpec == DeliveryInit /\ [][DeliveryNext]_deliveryVars

-----------------------------------------------------------------------------
\* Threads that hold the claimed factory.
Holders == {t \in Threads : at[t] # "idle"}

\* However wrappers, finalizers and hooks interleave, the factory exists in one place or was
\* consumed: it runs at most once.
FactoryRunsOnce == runs <= 1

\* Wrapping never gives an edited envelope a fresh baseline: what is delivered reads as the
\* tool wrote it, so a redaction by a hook always withholds the parts.
NoEditDelivered == delivered \subseteq {"tool"}

\* A destination can be observed only while the factory it is meant for is being run, from
\* whichever result of the chain it is read.
ContextOnlyInside ==
    context # None =>
        \E t \in Threads : at[t] \in {"publish", "leave"} /\ to[t] = context

\* The three promises of a deferred result together.
DeliverySafe == FactoryRunsOnce /\ NoEditDelivered /\ ContextOnlyInside

(***************************************************************************)
(* The inductive invariant: one token, which is the factory of a result,   *)
(* or in the hands of one thread, or spent.                                *)
(***************************************************************************)
OneToken ==
    /\ \A r, s \in factory : r = s
    /\ \A t, u \in Holders : t = u
    /\ factory # {} => Holders = {}
    /\ \A t \in Threads : at[t] = "leave" <=> t \in Holders /\ runs = 1
    /\ runs = 1 => factory = {}

DeliveryInv ==
    /\ DeliveryTypeOK /\ FactoryRunsOnce /\ NoEditDelivered /\ ContextOnlyInside /\ OneToken
    /\ \A r \in Results : baseline[r] = "tool"
    /\ \A t \in Threads : at[t] # "idle" => on[t] \in 1..made
=============================================================================

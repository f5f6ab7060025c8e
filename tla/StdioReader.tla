---------------------------- MODULE StdioReader ----------------------------
(***************************************************************************)
(* _ThreadedStdioReader (isolated_feature/service.py): readline() on the   *)
(* event loop, one daemon thread that reads the inherited stdin.           *)
(*                                                                         *)
(* Calls of readline() and lines of the parent are numbered as they come.  *)
(* A result is posted to the loop by call_soon_threadsafe, so the loop     *)
(* applies results in the order the two threads post them.                 *)
(***************************************************************************)
EXTENDS Naturals, Sequences, SequencesExt

CONSTANTS MaxCalls,  \* bound: calls of readline()
          MaxLines   \* bound: lines the parent writes

ASSUME ReaderConstants == MaxCalls \in Nat /\ MaxLines \in Nat

VARIABLES calls,     \* calls of readline() so far
          requests,  \* _requests: the queue, with the sentinel of close()
          pending,   \* _pending: completions not yet done
          closed,
          lineFut,       \* per call: its completion, a line number once it is done
          gone,      \* calls whose task was cancelled
          thread,    \* "none", "get", "read", "ended"
          serving,   \* the call the thread is reading for
          posted,    \* results on their way to the loop
          taken      \* lines the thread has taken from the stream

readerVars == <<calls, requests, pending, closed, lineFut, gone, thread, serving, posted, taken>>

Calls == 1..MaxCalls
Sentinel == 0
Eof == MaxLines + 1      \* no line: end or failure of the stream, or a closed reader
Lines == 1..Eof
Unused == MaxLines + 2
Open == MaxLines + 3

ReaderTypeOK ==
    /\ calls \in 0..MaxCalls /\ taken \in 0..MaxLines
    /\ requests \in Seq(Calls \cup {Sentinel})
    /\ pending \subseteq Calls /\ gone \subseteq Calls
    /\ closed \in BOOLEAN
    /\ lineFut \in [Calls -> Lines \cup {Unused, Open}]
    /\ thread \in {"none", "get", "read", "ended"}
    /\ serving \in Calls \cup {Sentinel}
    /\ posted \in Seq(Calls \X Lines)

ReaderInit ==
    /\ calls = 0 /\ taken = 0
    /\ requests = <<>> /\ posted = <<>>
    /\ pending = {} /\ gone = {}
    /\ closed = FALSE
    /\ lineFut = [c \in Calls |-> Unused]
    /\ thread = "none" /\ serving = Sentinel

-----------------------------------------------------------------------------
\* readline() of an open reader; the first one starts the thread.
Readline ==
    /\ calls < MaxCalls /\ ~closed
    /\ calls' = calls + 1
    /\ lineFut' = [lineFut EXCEPT ![calls'] = Open]
    /\ pending' = pending \cup {calls'}
    /\ requests' = Append(requests, calls')
    /\ thread' = IF thread = "none" THEN "get" ELSE thread
    /\ UNCHANGED <<closed, gone, serving, posted, taken>>

\* readline() of a closed reader returns the empty line at once.
ReadlineClosed ==
    /\ calls < MaxCalls /\ closed
    /\ calls' = calls + 1
    /\ lineFut' = [lineFut EXCEPT ![calls'] = Eof]
    /\ UNCHANGED <<requests, pending, closed, gone, thread, serving, posted, taken>>

\* Variant: without the shield the cancellation ends the completion.
CancelUnshielded(c) ==
    /\ lineFut[c] = Open /\ c \notin gone
    /\ gone' = gone \cup {c}
    /\ lineFut' = [lineFut EXCEPT ![c] = Eof]
    /\ pending' = pending \ {c}
    /\ UNCHANGED <<calls, requests, closed, thread, serving, posted, taken>>

\* The caller is cancelled; the shielded completion stays and takes its line.
CancelReadline(c) ==
    /\ lineFut[c] = Open /\ c \notin gone
    /\ gone' = gone \cup {c}
    /\ UNCHANGED <<calls, requests, pending, closed, lineFut, thread, serving, posted, taken>>

\* Variant: close() wakes only the callers the thread has not come to.
CloseQueued ==
    /\ ~closed
    /\ closed' = TRUE
    /\ pending' = {}
    /\ requests' = <<Sentinel>>
    /\ posted' = posted \o [i \in 1..Len(requests) |-> <<requests[i], Eof>>]
    /\ UNCHANGED <<calls, lineFut, gone, thread, serving, taken>>

\* close(): every pending completion is answered with the empty line, and the thread ends at
\* the sentinel, if it ever comes to it.
CloseReader ==
    /\ ~closed
    /\ closed' = TRUE
    /\ pending' = {}
    /\ requests' = <<Sentinel>>
    /\ posted' = posted \o SetToSeq({<<c, Eof>> : c \in pending})
    /\ UNCHANGED <<calls, lineFut, gone, thread, serving, taken>>

\* The loop runs _set_future_result() and the done callback _forget_completion().
Apply ==
    /\ posted # <<>>
    /\ LET c == Head(posted)[1] IN
          /\ lineFut' = [lineFut EXCEPT ![c] = IF @ = Open THEN Head(posted)[2] ELSE @]
          /\ pending' = pending \ {c}
    /\ posted' = Tail(posted)
    /\ UNCHANGED <<calls, requests, closed, gone, thread, serving, taken>>

-----------------------------------------------------------------------------

\* The thread takes the next request.
TakeRequest ==
    /\ thread = "get" /\ requests # <<>>
    /\ serving' = Head(requests)
    /\ requests' = Tail(requests)
    /\ thread' = IF serving' = Sentinel THEN "ended" ELSE "read"
    /\ UNCHANGED <<calls, pending, closed, lineFut, gone, posted, taken>>

\* The blocking read returns a line or the end of the stream, or raises.
ReadReturns ==
    /\ thread = "read"
    /\ \/ taken < MaxLines /\ taken' = taken + 1 /\ posted' = Append(posted, <<serving, taken'>>)
       \/ UNCHANGED taken /\ posted' = Append(posted, <<serving, Eof>>)
    /\ thread' = "get"
    /\ UNCHANGED <<calls, requests, pending, closed, lineFut, gone, serving>>

ReaderNext ==
    \/ Readline \/ ReadlineClosed \/ CloseReader \/ Apply \/ TakeRequest \/ ReadReturns
    \/ \E c \in Calls : CancelReadline(c)

ReaderSpec == ReaderInit /\ [][ReaderNext]_readerVars

\* The event loop runs and the thread is scheduled; the parent may never write.
ReaderFairness == WF_readerVars(Apply) /\ WF_readerVars(TakeRequest)

-----------------------------------------------------------------------------
Delivered(c) == lineFut[c] \in 1..MaxLines

\* Lines are delivered in order and at most once, whoever is cancelled and whenever the
\* reader is closed. A line the thread took is delivered, on its way, or lost only because
\* the reader was closed: a cancelled caller consumes its line, and nobody else's.
LinesInOrder ==
    /\ ReaderTypeOK
    /\ \A c, d \in Calls : c < d /\ Delivered(c) /\ Delivered(d) => lineFut[c] < lineFut[d]
    /\ \A n \in 1..taken :
          \/ \E c \in Calls : lineFut[c] = n
          \/ \E i \in DOMAIN posted : posted[i][2] = n
          \/ closed

\* After close() no caller waits for the parent.
CloseReleases == closed ~> \A c \in Calls : lineFut[c] # Open
=============================================================================

---------------------------- MODULE EventSource -----------------------------
(***************************************************************************)
(* EventSourceClient as its owner, a StreamingTransport, uses it: connect  *)
(* is called once, close at any time, even from a listener in the middle   *)
(* of a chunk or of the shouldReconnect callback.  Each attempt has an     *)
(* AbortController; an attempt ends when its fetch is refused, its body    *)
(* ends or breaks, or its abort is noticed, and a timer starts the next.   *)
(*                                                                         *)
(* fetch is modelled by its promise: it is answered, it fails, or, once    *)
(* aborted, it rejects; a body read completely before the abort still ends *)
(* normally.  A result and the reaction on it are one step.                *)
(***************************************************************************)
EXTENDS EventSourceParser

CONSTANTS
    MaxAttempts,  \* bound: connection attempts in a behaviour
    MaxText,      \* bound: characters of one connection's body
    MaxChunk      \* bound: characters in a chunk

ASSUME BoundsAssumption == MaxAttempts \in Nat \ {0} /\ MaxText \in Nat /\ MaxChunk \in Nat

Attempts == 1 .. MaxAttempts
Chunks == UNION {[1 .. n -> Chars] : n \in 1 .. MaxChunk}

VARIABLES
    readyState,
    controller,  \* the attempt whose AbortController is this.abortController
    aborted,     \* the attempts whose controllers are aborted
    fetch,       \* how far each attempt's fetch has got
    timer,       \* reconnectTimeout is armed
    failures,    \* reconnectAttempt
    turn,        \* the callback the application's listeners run in
    parser,      \* the parser of the connection
    dispatched,  \* how many of its events went to onMessage
    text,        \* history: the body received on the connection
    splitCRLF,   \* history: a chunk boundary cut one of its CRLFs in two
    closedByOwner  \* history: close was called by the owner

connectionVars == <<readyState, controller, aborted, fetch, timer, failures>>
bodyVars == <<parser, dispatched, text, splitCRLF>>
vars == <<connectionVars, turn, bodyVars, closedByOwner>>

\* "over": nothing of this attempt will run any more.
FetchStates == {"none", "sent", "reading", "over"}
InFlight(a) == fetch[a] \in {"sent", "reading"}

TypeOK ==
    /\ readyState \in {"closed", "connecting", "open"}
    /\ controller \in 0 .. MaxAttempts
    /\ aborted \subseteq 0 .. MaxAttempts
    /\ fetch \in [Attempts -> FetchStates]
    /\ timer \in BOOLEAN /\ closedByOwner \in BOOLEAN
    /\ failures \in 0 .. MaxAttempts
    /\ turn \in {"none", "chunk", "deciding"}
    /\ parser \in Parsers /\ dispatched \in 0 .. Len(parser.out)
    /\ text \in Seq(Chars) /\ Len(text) <= MaxText
    /\ splitCRLF \in BOOLEAN

FreshBody == parser = NewParser /\ dispatched = 0 /\ text = <<>> /\ splitCRLF = FALSE

\* Controller 0 is the one the constructor made.
Init ==
    /\ readyState = "closed"
    /\ controller = 0 /\ aborted = {}
    /\ fetch = [a \in Attempts |-> "none"]
    /\ timer = FALSE /\ closedByOwner = FALSE
    /\ failures = 0
    /\ turn = "none"
    /\ FreshBody

----------------------------------------------------------------------------
(* The owner's calls.                                                      *)

InitiateConnection ==
    /\ controller < MaxAttempts
    /\ controller' = controller + 1
    /\ readyState' = "connecting"
    /\ fetch' = [fetch EXCEPT ![controller + 1] = "sent"]
    /\ UNCHANGED <<aborted, turn, bodyVars, closedByOwner>>

Connect ==
    /\ readyState = "closed" /\ controller = 0
    /\ failures' = 0
    /\ InitiateConnection
    /\ UNCHANGED timer

ShutDownLeavingTimer ==
    /\ UNCHANGED timer
    /\ readyState' = "closed"
    /\ aborted' = aborted \cup {controller}

ShutDownLeavingFetch ==
    /\ timer' = FALSE
    /\ readyState' = "closed"
    /\ UNCHANGED aborted

\* The effect of close, which an abort noticed later has once more.
ShutDown ==
    /\ timer' = FALSE
    /\ readyState' = "closed"
    /\ aborted' = aborted \cup {controller}

Close ==
    /\ controller # 0
    /\ ShutDown
    /\ closedByOwner' = TRUE
    /\ UNCHANGED <<controller, fetch, failures, turn, bodyVars>>

----------------------------------------------------------------------------
(* The end of an attempt.                                                  *)

DisconnectedStillConnecting == timer' = FALSE /\ UNCHANGED readyState

\* disconnected, for a 204 or when shouldReconnect said no.
Disconnected ==
    /\ timer' = FALSE
    /\ readyState' = "closed"

\* scheduleReconnect when shouldReconnect says yes, and not at all once aborted.
ScheduleReconnect ==
    IF controller \in aborted
    THEN UNCHANGED <<timer, failures, readyState>>
    ELSE /\ timer' = TRUE
         /\ failures' = failures + 1
         /\ readyState' = "connecting"

Over(a) == fetch' = [fetch EXCEPT ![a] = "over"]

\* A network error before the headers, a retryable status, no body, a body that breaks.
AttemptFails(a) ==
    /\ turn = "none"
    /\ InFlight(a) /\ a \notin aborted
    /\ Over(a)
    /\ ScheduleReconnect
    /\ UNCHANGED <<controller, aborted, turn, bodyVars, closedByOwner>>

\* The body ends: retried like a failure.  An abort may have come too late to break it.
StreamEnds(a) ==
    /\ turn = "none"
    /\ fetch[a] = "reading"
    /\ Over(a)
    /\ parser' = Finish(parser)
    /\ ScheduleReconnect
    /\ UNCHANGED <<controller, aborted, turn, dispatched, text, splitCRLF, closedByOwner>>

\* An aborted fetch or read rejects: the catch closes the client again.
AbortNoticed(a) ==
    /\ turn = "none"
    /\ InFlight(a) /\ a \in aborted
    /\ Over(a)
    /\ ShutDown
    /\ UNCHANGED <<controller, failures, turn, bodyVars, closedByOwner>>

NoContent(a) ==
    /\ turn = "none"
    /\ fetch[a] = "sent" /\ a \notin aborted
    /\ Over(a)
    /\ Disconnected
    /\ UNCHANGED <<controller, aborted, failures, turn, bodyVars, closedByOwner>>

\* A fatal status: shouldReconnect emits connectionError before it answers no.
Refused(a) ==
    /\ turn = "none"
    /\ fetch[a] = "sent" /\ a \notin aborted
    /\ Over(a)
    /\ failures' = failures + 1
    /\ turn' = "deciding"
    /\ UNCHANGED <<readyState, controller, aborted, timer, bodyVars, closedByOwner>>

GiveUp ==
    /\ turn = "deciding"
    /\ turn' = "none"
    /\ Disconnected
    /\ UNCHANGED <<controller, aborted, fetch, failures, bodyVars, closedByOwner>>

----------------------------------------------------------------------------
(* An accepted connection, and the timer.                                  *)

Accepted(a) ==
    /\ turn = "none"
    /\ fetch[a] = "sent" /\ a \notin aborted
    /\ fetch' = [fetch EXCEPT ![a] = "reading"]
    /\ readyState' = "open"
    /\ failures' = 0
    /\ parser' = NewParser /\ dispatched' = 0 /\ text' = <<>> /\ splitCRLF' = FALSE
    /\ UNCHANGED <<controller, aborted, timer, turn, closedByOwner>>

\* A chunk is parsed to its end, and every event it completes is dispatched, whatever
\* the listeners of the first of them do.
ReceiveChunk(a, chunk) ==
    /\ turn = "none"
    /\ fetch[a] = "reading" /\ a \notin aborted
    /\ Len(text) + Len(chunk) <= MaxText
    /\ parser' = Parse(parser, chunk)
    /\ text' = text \o chunk
    /\ splitCRLF' = (splitCRLF \/ (text # <<>> /\ text[Len(text)] = "CR" /\ chunk[1] = "LF"))
    /\ turn' = "chunk"
    /\ UNCHANGED <<connectionVars, dispatched, closedByOwner>>

DispatchEvent ==
    /\ turn = "chunk"
    /\ dispatched < Len(parser.out)
    /\ dispatched' = dispatched + 1
    /\ UNCHANGED <<connectionVars, turn, parser, text, splitCRLF, closedByOwner>>

EndOfChunk ==
    /\ turn = "chunk" /\ dispatched = Len(parser.out)
    /\ turn' = "none"
    /\ UNCHANGED <<connectionVars, bodyVars, closedByOwner>>

ReconnectRepeatedly ==
    /\ turn = "none"
    /\ timer
    /\ InitiateConnection
    /\ UNCHANGED <<timer, failures>>

Reconnect ==
    /\ turn = "none"
    /\ timer /\ timer' = FALSE
    /\ InitiateConnection
    /\ UNCHANGED failures

----------------------------------------------------------------------------
Attempt(a) ==
    \/ AttemptFails(a) \/ StreamEnds(a) \/ AbortNoticed(a) \/ NoContent(a)
    \/ Refused(a) \/ Accepted(a) \/ \E chunk \in Chunks : ReceiveChunk(a, chunk)

Next ==
    \/ Connect \/ Close \/ GiveUp \/ DispatchEvent \/ EndOfChunk \/ Reconnect
    \/ \E a \in Attempts : Attempt(a)

Spec == Init /\ [][Next]_vars

----------------------------------------------------------------------------
(* Properties.                                                             *)

\* The owner sees the contract: a closed or ended client never connects or opens again,
\* though its fetch, its body and its timer may all have been pending at the close.
Phase ==
    IF readyState # "closed" THEN readyState
    ELSE IF closedByOwner THEN "closed"
    ELSE IF controller = 0 THEN "none" ELSE "ended"
Contract == INSTANCE EventSourceContract WITH state <- Phase
ImplementsContract == Contract!Spec

\* One attempt at a time: a timer and a live fetch never exist together, nor two fetches.
OneAttemptAtATime ==
    /\ Cardinality({a \in Attempts : InFlight(a)}) <= 1
    /\ timer => \A a \in Attempts : ~InFlight(a)

\* A client that shows connecting or open has a fetch in flight or a retry scheduled, and
\* one that shows closed has neither: it neither stalls nor works on behind the owner.
ReadyStateIsHonest ==
    turn # "deciding" =>
        (readyState # "closed" <=> timer \/ \E a \in Attempts : InFlight(a) /\ a \notin aborted)

\* The ready state and the attempts belong together, also while a close races a fetch, a
\* body and a retry timer.
AttemptsMatchReadyState == OneAttemptAtATime /\ ReadyStateIsHonest

\* As long as no CRLF of a body is cut in two, the events of a connection are those of
\* its body as a whole, and of nothing received on an earlier one: chunk boundaries and
\* reconnects neither lose, split, merge nor invent events, and an event whose empty line
\* never arrived is not dispatched.
ChunksDoNotMatter == ~splitCRLF => parser.out = EventsOf(text)

\* The scanner's comment: CR, LF and CRLF are recognised as line terminators per the SSE
\* specification, so the events of a body do not depend on how it is cut.
EventsOfTheBody == parser.out = EventsOf(text)
=============================================================================

--------------------------- MODULE TestConnection ---------------------------
(***************************************************************************)
(* The in-memory connection of the SDKs' test clients, with the client's   *)
(* handler of a config set above it: a queue of updates delivered one at a *)
(* time, each told to the configsUpdated handlers and then to the watchers *)
(* of its keys, which may call the connection and the client again.        *)
(*                                                                         *)
(* The client SDK's connection makes its first delivery in a later         *)
(* microtask and can be held per attempt; the server SDK's delivers inside *)
(* connect.  A stored value is the revision encode gave it; 0 is no value, *)
(* which a watcher sees as its default.                                    *)
(***************************************************************************)
EXTENDS Naturals, Sequences, SequencesExt, FiniteSets, Functions

CONSTANTS
    Sdks,          \* the SDKs whose test client is checked
    Keys,          \* config keys
    Watchers,      \* callbacks the application registers
    Watched,       \* the key each of them watches
    Throws,        \* TRUE: callbacks may throw
    MaxCalls       \* bound: calls of the application in a behaviour

ASSUME TestBoundsAssumption ==
    /\ Sdks \subseteq {"client", "server"} /\ Watched \in [Watchers -> Keys]
    /\ IsFiniteSet(Watchers) /\ Throws \in BOOLEAN /\ MaxCalls \in Nat

VARIABLES
    sdk,         \* the SDK under test
    stored,      \* per key, the value the connection holds
    revision,    \* values encoded so far
    armed,       \* per attempt, what the next one meets
    held,        \* the attempt pendingHold keeps waiting, and its generation
    connected,
    generation,  \* connects and closes so far
    first,       \* generations whose first delivery is scheduled
    waiting,     \* generations whose connect has not settled
    wanted,      \* the generation the application last asked for; 0: it closed, or it failed
    pending,     \* updates queued
    turn,        \* the handler of the update being delivered
    served,      \* per key, the value the client serves
    watchers,    \* per key, its callbacks in order
    seen,        \* per callback, the value it was last told or registered under
    cut,         \* keys whose last round of callbacks ended early
    calls        \* calls made, for their bound

connectionVars == <<armed, held, connected, generation, first, waiting, wanted>>
valueVars == <<stored, revision>>
watchVars == <<watchers, seen, cut>>
vars == <<sdk, valueVars, connectionVars, pending, turn, served, watchVars, calls>>

Attempts == IF sdk = "client" THEN {"initialize", "updateContext"} ELSE {"initialize"}
NoHold == [attempt |-> "none", generation |-> 0]

\* A turn goes through the configsUpdated handlers, then through the keys the update
\* carries, then through those it removes.  forEach fixes its length when it starts and
\* reads the live array, or the one the map held before unwatchAll.
Idle == [at |-> "none", updated |-> {}, removed |-> {}, key |-> "none",
         index |-> 0, length |-> 0, array |-> <<>>, attached |-> FALSE, value |-> 0]

Init ==
    /\ sdk \in Sdks
    /\ stored = [k \in Keys |-> 1] /\ revision = 1
    /\ armed = [attempt \in {"initialize", "updateContext"} |-> "nothing"]
    /\ held = NoHold /\ connected = FALSE /\ generation = 0
    /\ first = {} /\ waiting = {} /\ wanted = 0
    /\ pending = <<>> /\ turn = Idle
    /\ served = [k \in Keys |-> 0]
    /\ watchers = [k \in Keys |-> SetToSeq({w \in Watchers : Watched[w] = k})]
    /\ seen = [w \in Watchers |-> 0] /\ cut = {}
    /\ calls = 0

-----------------------------------------------------------------------------
(* Updates: the values the application stores. *)

\* encode: the next revision.
Encoded == revision + 1

FullUpdate(values) == [kind |-> "full", values |-> values]
DeltaUpdate(k, value) == [kind |-> "delta", values |-> [j \in {k} |-> value]]

\* deliver: queued behind the update being delivered, if there is one.
Deliver(update) == pending' = Append(pending, update)
DeliverIfConnectedAndIdle(update) ==
    IF connected /\ turn = Idle THEN Deliver(update) ELSE UNCHANGED pending
DeliverIfConnected(update) == IF connected THEN Deliver(update) ELSE UNCHANGED pending

\* The application runs between two turns, or in a callback of one.
InCallback == turn.at \in {"listening", "watching"}
Settled == turn = Idle /\ pending = <<>>
Call ==
    /\ Settled \/ InCallback
    /\ calls < MaxCalls /\ calls' = calls + 1

SetValue(k) ==
    /\ Call
    /\ revision' = Encoded
    /\ stored' = [stored EXCEPT ![k] = revision']
    /\ DeliverIfConnected(DeltaUpdate(k, revision'))
    /\ UNCHANGED <<sdk, connectionVars, turn, served, watchVars>>

RemoveValue(k) ==
    /\ Call /\ stored[k] # 0
    /\ stored' = [stored EXCEPT ![k] = 0]
    /\ DeliverIfConnected(FullUpdate(stored'))
    /\ UNCHANGED <<sdk, revision, connectionVars, turn, served, watchVars>>

\* Encoding comes first: a value that cannot be encoded leaves everything as it was.
ReplaceValues(kept) ==
    /\ Call
    /\ revision' = Encoded
    /\ stored' = [k \in Keys |-> IF k \in kept THEN revision' ELSE 0]
    /\ armed' = [attempt \in DOMAIN armed |-> "nothing"]
    /\ DeliverIfConnected(FullUpdate(stored'))
    /\ UNCHANGED <<sdk, held, connected, generation, first, waiting, wanted,
                   turn, served, watchVars>>

-----------------------------------------------------------------------------
(* Attempts to connect. *)

\* connectNow, of an attempt that is not connected yet.
ConnectNow(g) ==
    IF sdk = "client"
      THEN connected' = FALSE /\ first' = first \cup {g} /\ UNCHANGED pending
      ELSE connected' = TRUE /\ Deliver(FullUpdate(stored)) /\ UNCHANGED first

Hold(attempt) ==
    /\ Call /\ attempt \in Attempts
    /\ armed' = [armed EXCEPT ![attempt] = "hold"]
    /\ UNCHANGED <<sdk, valueVars, held, connected, generation, first, waiting, wanted,
                   pending, turn, served, watchVars>>

Release == held' = NoHold /\ waiting' = waiting \ {held.generation}

Complete(attempt) ==
    /\ Call /\ attempt \in Attempts
    /\ IF held.attempt = attempt
         THEN Release /\ ConnectNow(held.generation) /\ UNCHANGED armed
         ELSE /\ armed' = IF armed[attempt] = "hold"
                            THEN [armed EXCEPT ![attempt] = "nothing"] ELSE armed
              /\ UNCHANGED <<held, waiting, connected, first, pending>>
    /\ UNCHANGED <<sdk, valueVars, generation, wanted, turn, served, watchVars>>

Fail(attempt) ==
    /\ Call /\ attempt \in Attempts
    /\ IF held.attempt = attempt
         THEN Release /\ wanted' = 0 /\ UNCHANGED armed
         ELSE armed' = [armed EXCEPT ![attempt] = "failure"] /\ UNCHANGED <<held, waiting, wanted>>
    /\ UNCHANGED <<sdk, valueVars, connected, generation, first, pending, turn, served, watchVars>>

\* endAttempt: a new generation, and a held connect settles without being connected.
UnheldStillWaiting == waiting
Unheld == waiting \ {held.generation}
EndAttempt == generation' = generation + 1

\* A resume, which only the client SDK has, meets nothing that was armed.
Connect(attempt) ==
    /\ Call /\ EndAttempt
    /\ attempt \in Attempts \cup (IF sdk = "client" THEN {"resume"} ELSE {})
    /\ armed' = [a \in DOMAIN armed |-> IF a = attempt THEN "nothing" ELSE armed[a]]
    /\ LET met == IF attempt \in Attempts THEN armed[attempt] ELSE "nothing"
       IN \/ /\ met = "nothing"
             /\ held' = NoHold /\ waiting' = Unheld /\ wanted' = generation'
             /\ ConnectNow(generation')
          \/ /\ met = "hold"
             /\ held' = [attempt |-> attempt, generation |-> generation']
             /\ waiting' = Unheld \cup {generation'} /\ wanted' = generation'
             /\ connected' = FALSE /\ UNCHANGED <<first, pending>>
          \/ /\ met = "failure"
             /\ held' = NoHold /\ waiting' = Unheld /\ wanted' = 0
             /\ connected' = FALSE /\ UNCHANGED <<first, pending>>
    /\ UNCHANGED <<sdk, valueVars, turn, served, watchVars>>

Close ==
    /\ Call /\ EndAttempt
    /\ connected' = FALSE /\ held' = NoHold /\ waiting' = Unheld /\ wanted' = 0
    /\ UNCHANGED <<sdk, valueVars, armed, first, pending, turn, served, watchVars>>

\* The timer of holdNow, which gives up at the client's timeout.
HoldTimer ==
    /\ Settled /\ held # NoHold
    /\ Release
    /\ UNCHANGED <<sdk, valueVars, armed, connected, generation, first, wanted,
                   pending, turn, served, watchVars, calls>>

FirstDeliveryAnyway(g) ==
    /\ Settled /\ g \in first
    /\ first' = first \ {g}
    /\ connected' = TRUE /\ Deliver(FullUpdate(stored))
    /\ UNCHANGED <<sdk, valueVars, armed, held, generation, waiting, wanted,
                   turn, served, watchVars, calls>>

\* The microtask of scheduleFirstDelivery.
FirstDelivery(g) ==
    /\ Settled /\ g \in first
    /\ first' = first \ {g}
    /\ IF g = generation
         THEN connected' = TRUE /\ Deliver(FullUpdate(stored))
         ELSE UNCHANGED <<connected, pending>>
    /\ UNCHANGED <<sdk, valueVars, armed, held, generation, waiting, wanted,
                   turn, served, watchVars, calls>>

-----------------------------------------------------------------------------
(* Deliveries: the client's handler of an update. *)

FindKeysRemovedByCarried(update) == {k \in DOMAIN update.values : update.values[k] # 0}

FindKeysRemovedBy(update) ==
    IF update.kind = "full" THEN {k \in Keys : served[k] # 0 /\ update.values[k] = 0} ELSE {}

FindKeysUpdatedBy(update) == {k \in DOMAIN update.values : update.values[k] # 0}

NextUpdate == Head(pending)

DeliverNext ==
    /\ turn = Idle /\ pending # <<>>
    /\ pending' = Tail(pending)
    /\ served' = [k \in Keys |-> IF k \in DOMAIN NextUpdate.values THEN NextUpdate.values[k] ELSE served[k]]
    /\ turn' = [Idle EXCEPT !.at = "listening", !.updated = FindKeysUpdatedBy(NextUpdate),
                            !.removed = FindKeysRemovedBy(NextUpdate)]
    /\ UNCHANGED <<sdk, valueVars, connectionVars, watchVars, calls>>

Iterated == IF turn.attached THEN watchers[turn.key] ELSE turn.array
HasNext == turn.index < turn.length /\ turn.index < Len(Iterated)

\* updateWatchersForConfig reads the config once, before its callbacks.
NextKey ==
    /\ turn.at = "watchers" /\ ~HasNext
    /\ LET due == IF turn.updated # {} THEN turn.updated ELSE turn.removed
       IN IF due = {} THEN turn' = Idle /\ UNCHANGED cut
          ELSE \E k \in due :
                 /\ turn' = [turn EXCEPT !.updated = @ \ {k}, !.removed = @ \ {k}, !.key = k,
                                         !.index = 0, !.length = Len(watchers[k]), !.attached = TRUE,
                                         !.array = <<>>, !.value = served[k]]
                 /\ cut' = cut \ {k}
    /\ UNCHANGED <<sdk, valueVars, connectionVars, pending, served, watchers, seen, calls>>

CallWatcher ==
    /\ turn.at = "watchers" /\ HasNext
    /\ seen' = [seen EXCEPT ![Iterated[turn.index + 1]] = turn.value]
    /\ turn' = [turn EXCEPT !.at = "watching", !.index = @ + 1]
    /\ UNCHANGED <<sdk, valueVars, connectionVars, pending, served, watchers, cut, calls>>

\* The client SDK's emit catches what a configsUpdated handler throws.
CaughtByEmit == sdk = "client" /\ turn.at = "listening"

CallbackReturns ==
    /\ InCallback
    /\ turn' = [turn EXCEPT !.at = "watchers"]
    /\ UNCHANGED <<sdk, valueVars, connectionVars, pending, served, watchVars, calls>>

\* emitCaught: what a callback throws ends this update, not the next ones.
CallbackThrows ==
    /\ InCallback /\ Throws /\ ~CaughtByEmit
    /\ turn' = Idle
    /\ cut' = cut \cup turn.updated \cup turn.removed \cup ({turn.key} \cap Keys)
    /\ UNCHANGED <<sdk, valueVars, connectionVars, pending, served, watchers, seen, calls>>

-----------------------------------------------------------------------------
(* The application's watchers. *)

Watch(w) ==
    LET k == Watched[w] IN
    /\ Call /\ w \notin Range(watchers[k])
    /\ watchers' = [watchers EXCEPT ![k] = Append(@, w)]
    /\ seen' = [seen EXCEPT ![w] = served[k]]
    /\ UNCHANGED <<sdk, valueVars, connectionVars, pending, turn, served, cut>>

\* splice moves the callbacks behind it into the place the iteration has passed.
Unwatch(w) ==
    LET k == Watched[w] IN
    \E position \in DOMAIN watchers[k] :
       /\ Call
       /\ watchers[k][position] = w /\ \A p \in 1 .. position - 1 : watchers[k][p] # w
       /\ watchers' = [watchers EXCEPT ![k] = RemoveAt(@, position)]
       /\ cut' = IF turn.attached /\ turn.key = k /\ position <= turn.index /\ HasNext
                    THEN cut \cup {k} ELSE cut
       /\ UNCHANGED <<sdk, valueVars, connectionVars, pending, turn, served, seen>>

UnwatchKey(k) ==
    /\ Call
    /\ watchers' = [watchers EXCEPT ![k] = <<>>]
    /\ UNCHANGED <<sdk, valueVars, connectionVars, pending, turn, served, seen, cut>>

\* The map is cleared; an iteration keeps the array it has.
UnwatchAll ==
    /\ Call
    /\ watchers' = [k \in Keys |-> <<>>]
    /\ turn' = IF turn.attached THEN [turn EXCEPT !.array = Iterated, !.attached = FALSE] ELSE turn
    /\ UNCHANGED <<sdk, valueVars, connectionVars, pending, served, seen, cut>>

Next ==
    \/ \E k \in Keys : SetValue(k) \/ RemoveValue(k) \/ UnwatchKey(k)
    \/ \E kept \in SUBSET Keys : ReplaceValues(kept)
    \/ \E attempt \in {"initialize", "updateContext"} :
          Hold(attempt) \/ Complete(attempt) \/ Fail(attempt)
    \/ \E attempt \in {"initialize", "updateContext", "resume"} : Connect(attempt)
    \/ Close \/ HoldTimer
    \/ \E g \in 1 .. MaxCalls : FirstDelivery(g)
    \/ DeliverNext \/ NextKey \/ CallWatcher \/ CallbackReturns \/ CallbackThrows
    \/ \E w \in Watchers : Watch(w) \/ Unwatch(w)
    \/ UnwatchAll

Spec == Init /\ [][Next]_vars

\* Timers fire; callbacks return and the synchronous loop of deliver goes on.
FairSpec ==
    /\ Spec /\ WF_vars(HoldTimer)
    /\ WF_vars(DeliverNext \/ NextKey \/ CallWatcher) /\ WF_vars(CallbackReturns \/ CallbackThrows)

-----------------------------------------------------------------------------
(* Properties. *)

Delivered == connected /\ Settled

\* While the client is connected and nothing is being delivered, every watcher was last
\* told the value the connection stores, through updates queued by callbacks, keys removed
\* and watchers that come and go: but for keys whose round of callbacks was cut short by
\* one that threw, or that unwatched a callback already passed.
WatchersAreTold ==
    Delivered => \A k \in Keys \ cut : \A w \in Range(watchers[k]) : seen[w] = stored[k]

\* A connection that is up is the one the application asked for last: a close, a failure or
\* a newer attempt leaves no first delivery that would bring an older one up.
ConnectedMeansWanted == connected => wanted = generation /\ held = NoHold

\* Every connect settles, whether its hold is completed, failed, timed out or ended by a
\* newer attempt or a close.
AttemptsSettle == \A g \in 1 .. MaxCalls : g \in waiting ~> g \notin waiting

-----------------------------------------------------------------------------
(* The inductive invariant behind WatchersAreTold (proved in               *)
(* TestConnectionProofs, with its types).                                  *)

\* While the client is connected, of every key the last update queued for it carries what
\* is stored, and without one the client serves that already.
QueueEndsAtStored ==
    connected => \A k \in Keys :
        \/ served[k] = stored[k] /\ \A i \in DOMAIN pending : k \notin DOMAIN pending[i].values
        \/ \E i \in DOMAIN pending :
              /\ k \in DOMAIN pending[i].values /\ pending[i].values[k] = stored[k]
              /\ \A j \in DOMAIN pending : j > i => k \notin DOMAIN pending[j].values

\* A round is called with what the client serves, and calls watchers of its key only.
RoundsAreOfTheirKey ==
    /\ \A k \in Keys : \A p \in DOMAIN watchers[k] : Watched[watchers[k][p]] = k
    /\ \A p \in DOMAIN turn.array : Watched[turn.array[p]] = turn.key
    /\ turn.attached => turn.key \in Keys
    /\ turn.length # 0 => turn.key \in Keys /\ turn.value = served[turn.key]

\* A watcher not told yet is one the turn comes to: its key is due, or the round of its
\* key still has its place in the array ahead.
ToldOrDue ==
    \A k \in Keys \ cut : \A p \in DOMAIN watchers[k] :
        \/ seen[watchers[k][p]] = served[k]
        \/ k \in turn.updated \cup turn.removed
        \/ turn.attached /\ turn.key = k /\ turn.index < p /\ p <= turn.length

=============================================================================

---------------------------- MODULE WatchClient ----------------------------
(***************************************************************************)
(* The goroutines and channels behind one resource of the Watcher: the    *)
(* goroutine of Watcher.Watch, and for every watch it starts the two of   *)
(* APIClient.Watch, a reader that sends what the server says over the     *)
(* unbuffered eventChan, and a closer that waits for the channel done to  *)
(* close the body of the response.  Watch may be called again after Stop. *)
(*                                                                         *)
(* What the events say, and what is done about them, is module Tracker's. *)
(***************************************************************************)
EXTENDS Naturals, Sequences

CONSTANTS
    MaxWatches,     \* bound: calls of Watcher.Watch
    MaxSessions,    \* bound: watches a goroutine starts; the last one goes on
    MaxLines        \* bound: lines the server sends

ASSUME BoundsTyped ==
    MaxWatches \in Nat /\ MaxSessions \in Nat \ {0} /\ MaxLines \in Nat

Watch == 1..MaxWatches
Session == Watch \X (1..MaxSessions)

VARIABLES
    stopChannels,   \* the watch Stop would stop, 0: none
    watches,        \* calls of Watcher.Watch so far
    stop,           \* the stop channel of each call is closed
    database,       \* of the DBManager: "open", "closing" or "closed"
    goroutine,      \* where its goroutine is
    current,        \* the session it is in, 0 before the first
    reader,         \* where the reader of each session is
    outbox,         \* what that has to send before it does anything else
    last,           \* having sent it, the reader returns
    closer,         \* where the closer is
    done,           \* the session's done is closed
    body,           \* the response's body
    lines,          \* lines sent so far
    outcome         \* of the process: "running", "fatal" (the code ends it) or
                    \* "panic" (the runtime does)

callVars == <<stopChannels, watches, stop, database>>
sessionVars == <<reader, outbox, last, closer, done, body>>
vars == <<callVars, sessionVars, goroutine, current, lines, outcome>>

\* A status comes with an io.EOF that is not the end of the stream.
Message == {"event", "status", "eof", "error"}

Init ==
    /\ stopChannels = 0
    /\ watches = 0
    /\ stop = [w \in Watch |-> FALSE]
    /\ database = "open"
    /\ goroutine = [w \in Watch |-> "none"]
    /\ current = [w \in Watch |-> 0]
    /\ reader = [s \in Session |-> "none"]
    /\ outbox = [s \in Session |-> <<>>]
    /\ last = [s \in Session |-> FALSE]
    /\ closer = [s \in Session |-> "none"]
    /\ done = [s \in Session |-> FALSE]
    /\ body = [s \in Session |-> "none"]
    /\ lines = 0
    /\ outcome = "running"

-----------------------------------------------------------------------------
(* The user of the Watcher.  Watching twice is a warning without effect, and *)
(* nothing is called after Destroy.                                        *)

StartWatch ==
    /\ database = "open"
    /\ stopChannels = 0
    /\ watches < MaxWatches
    /\ watches' = watches + 1
    /\ stopChannels' = watches'
    /\ goroutine' = [goroutine EXCEPT ![watches'] = "connect"]
    /\ UNCHANGED <<stop, database, current, sessionVars, lines, outcome>>

StopWatch ==
    /\ database = "open"
    /\ stopChannels # 0
    /\ stop' = [stop EXCEPT ![stopChannels] = TRUE]
    /\ stopChannels' = 0
    /\ UNCHANGED <<watches, database, goroutine, current, sessionVars, lines,
                   outcome>>

\* Destroy closes the stop channels, which stay registered, ...
Destroy ==
    /\ database = "open"
    /\ database' = "closing"
    /\ stop' = [w \in Watch |-> stop[w] \/ w = stopChannels]
    /\ UNCHANGED <<stopChannels, watches, goroutine, current, sessionVars,
                   lines, outcome>>

\* ... and then the database, without waiting for any goroutine.
CloseDatabase ==
    /\ database = "closing"
    /\ database' = "closed"
    /\ UNCHANGED <<stopChannels, watches, stop, goroutine, current,
                   sessionVars, lines, outcome>>

-----------------------------------------------------------------------------
(* The goroutine of Watcher.Watch.                                         *)

In(w) == <<w, current[w]>>

Connect(w) ==
    /\ goroutine[w] = "connect"
    /\ current[w] < MaxSessions
    /\ current' = [current EXCEPT ![w] = @ + 1]
    /\ reader' = [reader EXCEPT ![<<w, current'[w]>>] = "request"]
    /\ goroutine' = [goroutine EXCEPT ![w] = "select"]
    /\ UNCHANGED <<callVars, outbox, last, closer, done, body, lines, outcome>>

\* getRV asks the closed database, and log.Panicf ends the process.  (Connect
\* is what it does if its flag initialize is set.)
ConnectClosed(w) ==
    /\ goroutine[w] = "connect"
    /\ database = "closed"
    /\ outcome' = "fatal"
    /\ UNCHANGED <<callVars, sessionVars, goroutine, current, lines>>

\* Closing a channel twice panics.
CloseDone(s) ==
    IF done[s] THEN outcome' = "panic" /\ UNCHANGED done
    ELSE done' = [done EXCEPT ![s] = TRUE] /\ UNCHANGED outcome

\* Slip: the reader returns when it has been rid of a message.
SentOnce(s) ==
    /\ outbox' = [outbox EXCEPT ![s] = <<>>]
    /\ reader' = [reader EXCEPT ![s] = "returned"]
    /\ body' = [body EXCEPT ![s] = IF @ = "open" THEN "closed" ELSE @]
    /\ UNCHANGED <<last, closer>>

\* The reader is rid of the message and goes on, or returns: then eventChan
\* and the body are closed.
Sent(s) ==
    /\ outbox' = [outbox EXCEPT ![s] = Tail(@)]
    /\ IF Tail(outbox[s]) # <<>>
         THEN UNCHANGED <<reader, body>>
         ELSE IF last[s]
           THEN /\ reader' = [reader EXCEPT ![s] = "returned"]
                /\ body' = [body EXCEPT ![s] =
                                IF @ = "open" THEN "closed" ELSE @]
           ELSE /\ reader' = [reader EXCEPT ![s] = "read"]
                /\ UNCHANGED body
    /\ UNCHANGED <<last, closer>>

\* An event is handled; an EOF, with a status or without, ends the session;
\* any other error is fatal.
AfterMessage(w, message) ==
    CASE message = "event" ->
            /\ goroutine' = [goroutine EXCEPT ![w] = "handle"]
            /\ UNCHANGED <<done, outcome>>
      [] message = "error" ->
            /\ done' = [done EXCEPT ![In(w)] = TRUE]
            /\ outcome' = "fatal"
            /\ UNCHANGED goroutine
      [] OTHER ->
            /\ CloseDone(In(w))
            /\ goroutine' = [goroutine EXCEPT ![w] = "connect"]

\* The two goroutines meet at eventChan; or the reader has closed it, and what
\* comes is a WatchEvent without an event, whose type assertion panics.
Deliver(w) ==
    /\ goroutine[w] = "select"
    /\ reader[In(w)] \in {"send", "returned"}
    /\ IF reader[In(w)] = "returned"
         THEN outcome' = "panic" /\ UNCHANGED <<sessionVars, goroutine>>
         ELSE Sent(In(w)) /\ AfterMessage(w, Head(outbox[In(w)]))
    /\ UNCHANGED <<callVars, current, lines>>

\* The handler is done.  If the database is closed it had begun its last
\* transaction before, or needed none.
Handle(w) ==
    /\ goroutine[w] = "handle"
    /\ goroutine' = [goroutine EXCEPT ![w] = "select"]
    /\ UNCHANGED <<callVars, sessionVars, current, lines, outcome>>

\* A transaction that begins later fails: runTx tries again for ever, InsertNFS
\* ends the process.
HandleClosed(w) ==
    /\ goroutine[w] = "handle"
    /\ database = "closed"
    /\ \/ /\ goroutine' = [goroutine EXCEPT ![w] = "spin"]
          /\ UNCHANGED outcome
       \/ /\ outcome' = "fatal"
          /\ UNCHANGED goroutine
    /\ UNCHANGED <<callVars, sessionVars, current, lines>>

\* Slip: "break", which only leaves the select.
SeeStopBreaks(w) ==
    /\ goroutine[w] = "select" /\ stop[w]
    /\ CloseDone(In(w))
    /\ goroutine' = [goroutine EXCEPT ![w] = "connect"]
    /\ UNCHANGED <<callVars, reader, outbox, last, closer, body, current,
                   lines>>

\* Slip: returns at once.
SeeStopSilently(w) ==
    /\ goroutine[w] = "select" /\ stop[w]
    /\ goroutine' = [goroutine EXCEPT ![w] = "ended"]
    /\ UNCHANGED <<callVars, sessionVars, current, lines, outcome>>

\* The other branch of the select; when both are ready either is taken.
SeeStop(w) ==
    /\ goroutine[w] = "select" /\ stop[w]
    /\ CloseDone(In(w))
    /\ goroutine' = [goroutine EXCEPT ![w] = "ended"]
    /\ UNCHANGED <<callVars, reader, outbox, last, closer, body, current,
                   lines>>

-----------------------------------------------------------------------------
(* The reader and the closer of a session.                                 *)

Sends(s, messages, final) ==
    /\ reader' = [reader EXCEPT ![s] = "send"]
    /\ outbox' = [outbox EXCEPT ![s] = messages]
    /\ last' = [last EXCEPT ![s] = final]

\* Slip: nobody waits for done.
RequestUnwatched(s) ==
    /\ reader[s] = "request"
    /\ \/ /\ reader' = [reader EXCEPT ![s] = "read"]
          /\ body' = [body EXCEPT ![s] = "open"]
          /\ UNCHANGED <<outbox, last, closer>>
       \/ Sends(s, <<"error">>, TRUE) /\ UNCHANGED <<body, closer>>
    /\ UNCHANGED <<callVars, goroutine, current, done, lines, outcome>>

\* http.Get returns, with a response or an error.
Request(s) ==
    /\ reader[s] = "request"
    /\ \/ /\ reader' = [reader EXCEPT ![s] = "read"]
          /\ body' = [body EXCEPT ![s] = "open"]
          /\ closer' = [closer EXCEPT ![s] = "wait"]
          /\ UNCHANGED <<outbox, last>>
       \/ Sends(s, <<"error">>, TRUE) /\ UNCHANGED <<body, closer>>
    /\ UNCHANGED <<callVars, goroutine, current, done, lines, outcome>>

\* A line, from the stream or from what the bufio.Reader had read of it: an
\* event; a Status; an ERROR event, which fails to decode as the resource's
\* event, and is sent once as the Status it holds and once more as an event;
\* or something else.
ReadLine(s) ==
    /\ reader[s] = "read"
    /\ lines < MaxLines
    /\ lines' = lines + 1
    /\ \/ Sends(s, <<"event">>, FALSE)
       \/ s[2] < MaxSessions /\ Sends(s, <<"status">>, FALSE)
       \/ s[2] < MaxSessions /\ Sends(s, <<"status", "event">>, FALSE)
       \/ Sends(s, <<"error">>, FALSE)
    /\ UNCHANGED <<callVars, goroutine, current, closer, done, body, outcome>>

\* The stream ends, properly or not, ...
ReadEnd(s) ==
    /\ reader[s] = "read" /\ body[s] = "open"
    /\ \/ s[2] < MaxSessions /\ Sends(s, <<"eof">>, TRUE)
       \/ Sends(s, <<"error">>, TRUE)
    /\ UNCHANGED <<callVars, goroutine, current, closer, done, body, lines,
                   outcome>>

\* ... or the closer has closed the body under the reader.
ReadClosed(s) ==
    /\ reader[s] = "read" /\ body[s] = "closed"
    /\ Sends(s, <<"error">>, TRUE)
    /\ UNCHANGED <<callVars, goroutine, current, closer, done, body, lines,
                   outcome>>

CloseBody(s) ==
    /\ closer[s] = "wait" /\ done[s]
    /\ closer' = [closer EXCEPT ![s] = "returned"]
    /\ body' = [body EXCEPT ![s] = "closed"]
    /\ UNCHANGED <<callVars, goroutine, current, reader, outbox, last, done,
                   lines, outcome>>

-----------------------------------------------------------------------------
Loop(w) ==
    \/ Connect(w) \/ ConnectClosed(w)
    \/ Deliver(w)
    \/ Handle(w) \/ HandleClosed(w)

Read(s) == Request(s) \/ ReadLine(s) \/ ReadEnd(s) \/ ReadClosed(s)

Next ==
    /\ outcome = "running"
    /\ \/ StartWatch \/ StopWatch \/ Destroy \/ CloseDatabase
       \/ \E w \in Watch : Loop(w) \/ SeeStop(w)
       \/ \E s \in Session : Read(s) \/ CloseBody(s)

Spec == Init /\ [][Next]_vars

\* The goroutines run.  The server may stay silent, but answers a request, and
\* a read of a closed body returns.  A select with two ready branches takes
\* each of them with some probability, so it does not ignore stop for ever.
FairSpec ==
    /\ Spec
    /\ \A w \in Watch :
        /\ WF_vars(outcome = "running" /\ Loop(w))
        /\ SF_vars(outcome = "running" /\ SeeStop(w))
    /\ \A s \in Session :
        /\ WF_vars(outcome = "running" /\ (Request(s) \/ ReadClosed(s)))
        /\ WF_vars(outcome = "running" /\ CloseBody(s))

-----------------------------------------------------------------------------
TypeOK ==
    /\ stopChannels \in 0..watches
    /\ watches \in 0..MaxWatches
    /\ stop \in [Watch -> BOOLEAN]
    /\ goroutine \in
        [Watch -> {"none", "connect", "select", "handle", "spin", "ended"}]
    /\ database \in {"open", "closing", "closed"}
    /\ \A w \in Watch : goroutine[w] = "spin" => database = "closed"
    /\ current \in [Watch -> 0..MaxSessions]
    /\ reader \in
        [Session -> {"none", "request", "read", "send", "returned"}]
    /\ \A s \in Session :
        /\ outbox[s] \in Seq(Message)
        /\ outbox[s] # <<>> <=> reader[s] = "send"
        /\ body[s] # "none" <=> closer[s] # "none"
        /\ reader[s] # "none" <=> s[2] <= current[s[1]]
    /\ last \in [Session -> BOOLEAN]
    /\ closer \in [Session -> {"none", "wait", "returned"}]
    /\ done \in [Session -> BOOLEAN]
    /\ body \in [Session -> {"none", "open", "closed"}]
    /\ lines \in 0..MaxLines
    /\ outcome \in {"running", "fatal", "panic"}

\* No event is taken from a channel its reader has closed, and no done is
\* closed twice, by whichever of the ways a session can end.
NeverPanics == outcome # "panic"

\* A session is not left, for the next one or for good, without its closer
\* being told; and none is told while its events are still wanted.
DoneWhenLeft ==
    \A s \in Session :
        LET w == s[1]
        IN  s[2] <= current[w] /\ outcome = "running" =>
                (done[s] <=>
                    \/ s[2] < current[w]
                    \/ goroutine[w] \in {"connect", "ended"})

\* The connection of every session that is left is closed in the end, wherever
\* its reader is, even if the response comes after done has been closed.
BodiesClosed ==
    \A s \in Session :
        done[s] /\ body[s] = "open"
            ~> body[s] = "closed" \/ outcome # "running"

\* A stopped goroutine ends, in whichever state of its watch it is stopped, by
\* Stop or by Destroy; unless the latter closes the database under a handler,
\* which is then left to try its transaction for ever.
StopEnds ==
    \A w \in Watch :
        stop[w] ~> goroutine[w] \in {"ended", "spin"} \/ outcome # "running"

\* apiclient.go: done is "a channel used to signal that the watch should
\* terminate".  So a reader whose done is closed returns.
ReadersEnd ==
    \A s \in Session :
        done[s] ~> reader[s] = "returned" \/ outcome # "running"
=============================================================================

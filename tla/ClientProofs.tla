----------------------------- MODULE ClientProofs -----------------------------
(***************************************************************************)
(* The safety of the goroutines and channels behind a Watcher: no channel  *)
(* is closed twice or read after it has been closed (NeverPanics), and a   *)
(* session is told to end exactly when it is left (DoneWhenLeft), for any  *)
(* number of watches, sessions and lines.                                  *)
(***************************************************************************)
EXTENDS WatchClient, TLAPS

\* A goroutine that waits for an event, handles one or has ended is, or was,
\* in a session; one that has not been started has had none.
GoroutinesStand ==
    \A w \in Watch :
        /\ goroutine[w] = "none" <=> w > watches
        /\ goroutine[w] = "none" => current[w] = 0
        /\ goroutine[w] \in {"select", "handle", "spin", "ended"} =>
                current[w] # 0

\* A reader sends nothing after its last message but returns, and that message
\* is one after which its session is left; so the reader of a session that is
\* not left has not returned.
ReadersStand ==
    /\ outbox \in [Session -> {<<>>, <<"event">>, <<"status">>, <<"eof">>,
                               <<"error">>, <<"status", "event">>}]
    /\ \A s \in Session :
        /\ done[s] => s[2] <= current[s[1]]
        /\ last[s] => outbox[s] \in {<<>>, <<"eof">>, <<"error">>}
        /\ reader[s] = "returned" /\ s[2] = current[s[1]]
              /\ outcome = "running"
            => goroutine[s[1]] \in {"connect", "ended"}

\* The inductive invariant.  NeverPanics alone is not: that the channel done is
\* not closed twice is DoneWhenLeft, and that eventChan is not read when it is
\* closed is ReadersStand.
CInv ==
    /\ TypeOK
    /\ GoroutinesStand
    /\ ReadersStand
    /\ NeverPanics
    /\ DoneWhenLeft

-----------------------------------------------------------------------------
(* Sessions and what is sent in them.                                      *)

LEMMA SessionParts ==
    /\ \A s \in Session : /\ s[1] \in Watch /\ s[2] \in 1..MaxSessions
                          /\ s = <<s[1], s[2]>>
    /\ \A w \in Watch : \A k \in 1..MaxSessions :
            <<w, k>> \in Session /\ <<w, k>>[1] = w /\ <<w, k>>[2] = k
  BY DEF Session

\* The session a goroutine is in.
LEMMA InSession ==
    ASSUME TypeOK, NEW w \in Watch, current[w] # 0
    PROVE  In(w) \in Session /\ In(w)[1] = w /\ In(w)[2] = current[w]
  <1>1. current[w] \in 1..MaxSessions
    BY BoundsTyped DEF TypeOK
  <1>2. QED
    BY <1>1, SessionParts DEF In

\* What a reader has to send.
Outbox == {<<>>, <<"event">>, <<"status">>, <<"eof">>, <<"error">>,
           <<"status", "event">>}

LEMMA OutboxTyped ==
    /\ Outbox \subseteq Seq(Message)
    /\ <<"event">> # <<>> /\ <<"status">> # <<>> /\ <<"eof">> # <<>>
    /\ <<"error">> # <<>> /\ <<"status", "event">> # <<>>
  BY DEF Outbox, Message

\* Sending one of them.
LEMMA OutboxShrinks ==
    ASSUME NEW o \in Outbox, o # <<>>
    PROVE  /\ Head(o) \in Message /\ Tail(o) \in {<<>>, <<"event">>}
           /\ o \in {<<"eof">>, <<"error">>} =>
                Tail(o) = <<>> /\ Head(o) \in {"eof", "error"}
  <1>1. \A m : Head(<<m>>) = m /\ Tail(<<m>>) = <<>>
    OBVIOUS
  <1>2. /\ Head(<<"status", "event">>) = "status"
        /\ Tail(<<"status", "event">>) = <<"event">>
    OBVIOUS
  <1>3. /\ <<"status", "event">> # <<"eof">>
        /\ <<"status", "event">> # <<"error">>
    OBVIOUS
  <1>4. CASE o = <<"status", "event">>
    BY <1>2, <1>3, <1>4 DEF Message
  <1>5. CASE o # <<"status", "event">>
    <2>1. \E m \in Message : o = <<m>>
      BY <1>5 DEF Outbox, Message
    <2>2. o \in {<<"eof">>, <<"error">>} => Head(o) \in {"eof", "error"}
      BY <1>1
    <2>3. QED
      BY <1>1, <2>1, <2>2
  <1>6. QED
    BY <1>4, <1>5

-----------------------------------------------------------------------------
(* The steps.                                                              *)

\* Calls of Watch, Stop and Destroy.
LEMMA UserCInv ==
    ASSUME CInv, StartWatch \/ StopWatch \/ Destroy \/ CloseDatabase
    PROVE  CInv'
  <1>1. /\ UNCHANGED <<current, reader, outbox, last, closer, done, body>>
        /\ UNCHANGED <<lines, outcome>>
    BY DEF StartWatch, StopWatch, Destroy, CloseDatabase, sessionVars
  <1>2. CASE StartWatch
    <2>1. /\ watches' = watches + 1 /\ stopChannels' = watches'
          /\ watches \in 0..MaxWatches /\ watches' \in Watch
          /\ goroutine' = [goroutine EXCEPT ![watches'] = "connect"]
          /\ UNCHANGED <<stop, database>>
      BY <1>2, BoundsTyped DEF StartWatch, CInv, TypeOK, Watch
    <2>2. goroutine[watches'] = "none" /\ current[watches'] = 0
      BY <2>1, BoundsTyped DEF CInv, GoroutinesStand, Watch
    <2>3. TypeOK'
      BY <1>1, <2>1, BoundsTyped DEF CInv, TypeOK, Watch
    <2>4. GoroutinesStand'
      BY <1>1, <2>1, <2>2, BoundsTyped DEF CInv, TypeOK, GoroutinesStand, Watch
    <2>5. ReadersStand'
      BY <1>1, <2>1, SessionParts DEF CInv, TypeOK, ReadersStand
    <2>6. DoneWhenLeft'
      BY <1>1, <2>1, <2>2, SessionParts DEF CInv, TypeOK, DoneWhenLeft
    <2>7. QED
      BY <1>1, <2>3, <2>4, <2>5, <2>6 DEF CInv, NeverPanics
  <1>3. CASE StopWatch \/ Destroy \/ CloseDatabase
    <2>1. /\ UNCHANGED <<watches, goroutine>>
          /\ stop' \in [Watch -> BOOLEAN] /\ stopChannels' \in 0..watches
          /\ database' \in {"open", "closing", "closed"}
          /\ database = "closed" => database' = "closed"
      <3>1. CASE StopWatch
        <4>1. /\ UNCHANGED <<watches, goroutine, database>> /\ stopChannels' = 0
              /\ stop' = [stop EXCEPT ![stopChannels] = TRUE]
          BY <3>1 DEF StopWatch
        <4>2. stop' \in [Watch -> BOOLEAN]
          BY <4>1 DEF CInv, TypeOK
        <4>3. stopChannels' \in 0..watches
          BY <4>1, BoundsTyped DEF CInv, TypeOK
        <4>4. QED
          BY <4>1, <4>2, <4>3 DEF CInv, TypeOK
      <3>2. CASE Destroy
        BY <3>2 DEF Destroy, CInv, TypeOK
      <3>3. CASE CloseDatabase
        BY <3>3 DEF CloseDatabase, CInv, TypeOK
      <3>4. QED
        BY <1>3, <3>1, <3>2, <3>3
    <2>2. TypeOK'
      BY <1>1, <2>1 DEF CInv, TypeOK
    <2>3. GoroutinesStand' /\ ReadersStand' /\ NeverPanics' /\ DoneWhenLeft'
      BY <1>1, <2>1
         DEF CInv, GoroutinesStand, ReadersStand, NeverPanics, DoneWhenLeft
    <2>4. QED
      BY <2>2, <2>3 DEF CInv
  <1>4. QED
    BY <1>2, <1>3

\* A session is begun when the one before it has been left.
LEMMA ConnectCInv ==
    ASSUME CInv, NEW w \in Watch, Connect(w), outcome = "running"
    PROVE  CInv'
  <1> DEFINE k == current[w] + 1
             s == <<w, k>>
  <1>1. /\ k \in 1..MaxSessions /\ current[w] \in 0..MaxSessions
        /\ goroutine[w] = "connect"
    BY BoundsTyped DEF Connect, CInv, TypeOK
  <1>2. s \in Session /\ s[1] = w /\ s[2] = k
    BY <1>1, SessionParts
  <1>3. /\ current' = [current EXCEPT ![w] = k]
        /\ reader' = [reader EXCEPT ![s] = "request"]
        /\ goroutine' = [goroutine EXCEPT ![w] = "select"]
        /\ UNCHANGED <<stopChannels, watches, stop, database>>
        /\ UNCHANGED <<outbox, last, closer, done, body, lines, outcome>>
    BY DEF Connect, callVars, CInv, TypeOK
  <1> HIDE DEF k, s
  <1>4. k = current[w] + 1
    BY DEF k
  <1>5. /\ current'[w] = k /\ reader'[s] = "request" /\ goroutine'[w] = "select"
        /\ \A x \in Watch \ {w} : /\ current'[x] = current[x]
                                  /\ goroutine'[x] = goroutine[x]
        /\ \A t \in Session \ {s} : reader'[t] = reader[t]
    BY <1>2, <1>3 DEF CInv, TypeOK
  <1>6. \A t \in Session : t[1] = w /\ t[2] = k => t = s
    BY <1>2, SessionParts DEF s
  <1>7. /\ reader[s] = "none" /\ outbox[s] = <<>> /\ ~done[s]
    BY <1>1, <1>2, <1>4 DEF CInv, TypeOK, ReadersStand
  <1>8. TypeOK'
    <2>1. \A t \in Session :
            /\ outbox'[t] # <<>> <=> reader'[t] = "send"
            /\ reader'[t] # "none" <=> t[2] <= current'[t[1]]
      BY <1>1, <1>2, <1>3, <1>4, <1>5, <1>6, <1>7, SessionParts DEF CInv, TypeOK
    <2>2. /\ current' \in [Watch -> 0..MaxSessions]
          /\ reader' \in
                [Session -> {"none", "request", "read", "send", "returned"}]
          /\ goroutine' \in [Watch -> {"none", "connect", "select", "handle",
                                       "spin", "ended"}]
      <3>1. k \in 0..MaxSessions
        BY <1>1, <1>4
      <3>2. QED
        BY <1>3, <3>1 DEF CInv, TypeOK
    <2>3. \A x \in Watch : goroutine'[x] = "spin" => database' = "closed"
      BY <1>3, <1>5 DEF CInv, TypeOK
    <2>4. QED
      BY <1>3, <2>1, <2>2, <2>3 DEF CInv, TypeOK
  <1>9. GoroutinesStand'
    BY <1>1, <1>3, <1>5, BoundsTyped DEF CInv, GoroutinesStand
  <1>10. ReadersStand'
    BY <1>1, <1>2, <1>3, <1>4, <1>5, <1>6, SessionParts
       DEF CInv, TypeOK, ReadersStand
  <1>11. DoneWhenLeft'
    BY <1>1, <1>2, <1>3, <1>4, <1>5, <1>6, <1>7, SessionParts
       DEF CInv, TypeOK, DoneWhenLeft
  <1>12. QED
    BY <1>3, <1>8, <1>9, <1>10, <1>11 DEF CInv, NeverPanics

\* What the reader, the closer and the messages of one session do leaves the
\* others alone.
SessionsTyped ==
    /\ reader \in [Session -> {"none", "request", "read", "send", "returned"}]
    /\ outbox \in [Session -> Outbox]
    /\ \A s \in Session :
        /\ outbox[s] # <<>> <=> reader[s] = "send"
        /\ body[s] # "none" <=> closer[s] # "none"
        /\ reader[s] # "none" <=> s[2] <= current[s[1]]
        /\ last[s] => outbox[s] \in {<<>>, <<"eof">>, <<"error">>}
    /\ last \in [Session -> BOOLEAN]
    /\ closer \in [Session -> {"none", "wait", "returned"}]
    /\ body \in [Session -> {"none", "open", "closed"}]

LEMMA OneSession ==
    ASSUME SessionsTyped, NEW s \in Session, reader[s] # "none",
           NEW p \in {"request", "read", "send", "returned"}, NEW o \in Outbox,
           NEW l \in BOOLEAN, NEW c \in {"none", "wait", "returned"},
           NEW b \in {"none", "open", "closed"},
           o # <<>> <=> p = "send", b # "none" <=> c # "none",
           l => o \in {<<>>, <<"eof">>, <<"error">>},
           reader' = [reader EXCEPT ![s] = p],
           outbox' = [outbox EXCEPT ![s] = o],
           last' = [last EXCEPT ![s] = l],
           closer' = [closer EXCEPT ![s] = c],
           body' = [body EXCEPT ![s] = b],
           current' = current
    PROVE  SessionsTyped'
  <1>1. /\ reader'[s] = p /\ outbox'[s] = o /\ last'[s] = l
        /\ closer'[s] = c /\ body'[s] = b
        /\ \A t \in Session \ {s} :
            /\ reader'[t] = reader[t] /\ outbox'[t] = outbox[t]
            /\ last'[t] = last[t] /\ closer'[t] = closer[t]
            /\ body'[t] = body[t]
    BY DEF SessionsTyped
  <1>2. \A t \in Session :
            /\ outbox'[t] # <<>> <=> reader'[t] = "send"
            /\ body'[t] # "none" <=> closer'[t] # "none"
            /\ reader'[t] # "none" <=> t[2] <= current'[t[1]]
            /\ last'[t] => outbox'[t] \in {<<>>, <<"eof">>, <<"error">>}
    BY <1>1 DEF SessionsTyped
  <1>3. /\ reader' \in
            [Session -> {"none", "request", "read", "send", "returned"}]
        /\ outbox' \in [Session -> Outbox]
        /\ last' \in [Session -> BOOLEAN]
        /\ closer' \in [Session -> {"none", "wait", "returned"}]
        /\ body' \in [Session -> {"none", "open", "closed"}]
    BY DEF SessionsTyped
  <1>4. QED
    BY <1>2, <1>3 DEF SessionsTyped

LEMMA SessionsAreTyped ==
    ASSUME CInv
    PROVE  SessionsTyped
  BY DEF CInv, TypeOK, ReadersStand, SessionsTyped, Outbox

\* Steps of a reader or a closer, which end no reader.
LEMMA ReaderStep ==
    ASSUME CInv, SessionsTyped', NEW s \in Session,
           \A t \in Session : reader'[t] = "returned" => reader[t] = "returned",
           lines' \in 0..MaxLines,
           UNCHANGED <<callVars, goroutine, current, done, outcome>>
    PROVE  CInv'
  <1>1. UNCHANGED <<stopChannels, watches, stop, database>>
    BY DEF callVars
  <1>2. TypeOK'
    BY <1>1, OutboxTyped DEF CInv, TypeOK, SessionsTyped
  <1>3. ReadersStand'
    BY DEF CInv, ReadersStand, SessionsTyped, Outbox
  <1>4. GoroutinesStand' /\ NeverPanics' /\ DoneWhenLeft'
    BY <1>1 DEF CInv, GoroutinesStand, NeverPanics, DoneWhenLeft
  <1>5. QED
    BY <1>2, <1>3, <1>4 DEF CInv

LEMMA ReadCInv ==
    ASSUME CInv, NEW s \in Session, Read(s) \/ CloseBody(s)
    PROVE  CInv'
  <1>1. SessionsTyped
    BY SessionsAreTyped
  <1>2. /\ UNCHANGED <<callVars, goroutine, current, done, outcome>>
        /\ UNCHANGED current
    BY DEF Read, Request, ReadLine, ReadEnd, ReadClosed, CloseBody
  <1>3. lines' \in 0..MaxLines
    <2>1. lines' = lines \/ (lines < MaxLines /\ lines' = lines + 1)
      BY DEF Read, Request, ReadLine, ReadEnd, ReadClosed, CloseBody
    <2>2. QED
      BY <2>1, BoundsTyped DEF CInv, TypeOK
  <1>4. ASSUME NEW messages \in Outbox, messages # <<>>, NEW final \in BOOLEAN,
               final => messages \in {<<"eof">>, <<"error">>},
               Sends(s, messages, final), reader[s] \in {"request", "read"},
               UNCHANGED <<closer, body>>
        PROVE  CInv'
    <2>1. /\ closer' = [closer EXCEPT ![s] = closer[s]]
          /\ body' = [body EXCEPT ![s] = body[s]]
          /\ closer[s] \in {"none", "wait", "returned"}
          /\ body[s] \in {"none", "open", "closed"}
          /\ body[s] # "none" <=> closer[s] # "none"
      BY <1>1, <1>4 DEF SessionsTyped
    <2>2. SessionsTyped'
      BY <1>1, <1>2, <1>4, <2>1, OneSession DEF Sends
    <2>3. \A t \in Session : reader'[t] = "returned" => reader[t] = "returned"
      BY <1>1, <1>4 DEF Sends, SessionsTyped
    <2>4. QED
      BY <1>2, <1>3, <2>2, <2>3, ReaderStep
  <1>5. CASE Request(s)
    <2>1. CASE /\ reader' = [reader EXCEPT ![s] = "read"]
               /\ body' = [body EXCEPT ![s] = "open"]
               /\ closer' = [closer EXCEPT ![s] = "wait"]
               /\ UNCHANGED <<outbox, last>>
      <3>1. /\ outbox' = [outbox EXCEPT ![s] = <<>>]
            /\ last' = [last EXCEPT ![s] = last[s]] /\ last[s] \in BOOLEAN
            /\ reader[s] = "request"
        BY <1>1, <1>5, <2>1 DEF Request, SessionsTyped
      <3>2. <<>> \in Outbox
        BY DEF Outbox
      <3>3. SessionsTyped'
        BY <1>1, <1>2, <2>1, <3>1, <3>2, OneSession
      <3>4. \A t \in Session : reader'[t] = "returned" => reader[t] = "returned"
        BY <1>1, <2>1 DEF SessionsTyped
      <3>5. QED
        BY <1>2, <1>3, <3>3, <3>4, ReaderStep
    <2>2. CASE Sends(s, <<"error">>, TRUE) /\ UNCHANGED <<body, closer>>
      BY <1>4, <1>5, <2>2, OutboxTyped DEF Request, Outbox
    <2>3. QED
      BY <1>5, <2>1, <2>2 DEF Request
  <1>6. CASE ReadLine(s)
    <2>1. /\ reader[s] = "read" /\ UNCHANGED <<closer, body>>
          /\ \E messages \in Outbox \ {<<>>} : Sends(s, messages, FALSE)
      BY <1>6, OutboxTyped DEF ReadLine, Outbox
    <2>2. QED
      BY <1>4, <2>1
  <1>7. CASE ReadEnd(s) \/ ReadClosed(s)
    <2>1. /\ reader[s] = "read" /\ UNCHANGED <<closer, body>>
          /\ \E messages \in {<<"eof">>, <<"error">>} : Sends(s, messages, TRUE)
      BY <1>7 DEF ReadEnd, ReadClosed
    <2>2. {<<"eof">>, <<"error">>} \subseteq Outbox \ {<<>>}
      BY OutboxTyped DEF Outbox
    <2>3. QED
      BY <1>4, <2>1, <2>2
  <1>8. CASE CloseBody(s)
    <2>1. /\ closer[s] = "wait" /\ UNCHANGED <<reader, outbox, last>>
          /\ closer' = [closer EXCEPT ![s] = "returned"]
          /\ body' = [body EXCEPT ![s] = "closed"]
      BY <1>8 DEF CloseBody
    <2>2. SessionsTyped'
      BY <1>1, <1>2, <2>1 DEF SessionsTyped
    <2>3. QED
      BY <1>2, <1>3, <2>1, <2>2, ReaderStep
  <1>9. QED
    BY <1>5, <1>6, <1>7, <1>8 DEF Read

\* The session of a goroutine that waits in it is not done, and its reader has
\* not returned: neither channel is closed.
LEMMA SessionGoesOn ==
    ASSUME CInv, outcome = "running", NEW w \in Watch,
           goroutine[w] \in {"select", "handle"}
    PROVE  /\ In(w) \in Session /\ In(w)[1] = w /\ In(w)[2] = current[w]
           /\ ~done[In(w)] /\ reader[In(w)] \notin {"none", "returned"}
  <1>1. In(w) \in Session /\ In(w)[1] = w /\ In(w)[2] = current[w]
    BY InSession DEF CInv, GoroutinesStand
  <1>2. current[w] \in Nat
    BY BoundsTyped DEF CInv, TypeOK
  <1>3. reader[In(w)] # "none"
    BY <1>1, <1>2 DEF CInv, TypeOK
  <1>4. reader[In(w)] # "returned"
    BY <1>1 DEF CInv, ReadersStand
  <1>5. ~done[In(w)]
    <2>1. done[In(w)] <=> \/ In(w)[2] < current[In(w)[1]]
                         \/ goroutine[In(w)[1]] \in {"connect", "ended"}
      BY <1>1, <1>2 DEF CInv, DoneWhenLeft
    <2>2. QED
      BY <1>1, <1>2, <2>1
  <1>6. QED
    BY <1>1, <1>3, <1>4, <1>5

\* A goroutine goes on in its session, or leaves it and says so, or the process
\* ends.
LEMMA LoopStep ==
    ASSUME CInv, SessionsTyped', outcome = "running", NEW w \in Watch,
           goroutine[w] \in {"select", "handle"},
           NEW g \in {"connect", "select", "handle", "spin", "ended"},
           goroutine' = [goroutine EXCEPT ![w] = g],
           done' \in [Session -> BOOLEAN],
           \A s \in Session \ {In(w)} :
                done'[s] = done[s] /\ reader'[s] = reader[s],
           outcome' \in {"running", "fatal"},
           g = "spin" => database = "closed",
           outcome' = "running" => (done'[In(w)] <=> g \in {"connect", "ended"}),
           outcome' = "running" /\ reader'[In(w)] = "returned" => g = "connect",
           UNCHANGED <<callVars, current, lines>>
    PROVE  CInv'
  <1>1. UNCHANGED <<stopChannels, watches, stop, database>>
    BY DEF callVars
  <1>2. /\ goroutine'[w] = g
        /\ \A x \in Watch \ {w} : goroutine'[x] = goroutine[x]
    BY DEF CInv, TypeOK
  <1>3. \A s \in Session : s[1] = w /\ s[2] = current[w] => s = In(w)
    BY SessionParts DEF In
  <1>4. In(w) \in Session /\ In(w)[1] = w /\ In(w)[2] = current[w]
    BY SessionGoesOn
  <1>5. \A s \in Session : /\ s[1] \in Watch /\ s[2] \in Nat
                            /\ current[s[1]] \in Nat
    BY SessionParts, BoundsTyped DEF CInv, TypeOK
  <1>6. TypeOK'
    <2>1. goroutine' \in [Watch -> {"none", "connect", "select", "handle",
                                    "spin", "ended"}]
      BY DEF CInv, TypeOK
    <2>2. \A x \in Watch : goroutine'[x] = "spin" => database' = "closed"
      BY <1>1, <1>2 DEF CInv, TypeOK
    <2>3. QED
      BY <1>1, <2>1, <2>2, OutboxTyped DEF CInv, TypeOK, SessionsTyped
  <1>7. GoroutinesStand'
    <2>1. current[w] # 0 /\ goroutine[w] # "none"
      BY DEF CInv, GoroutinesStand
    <2>2. QED
      BY <1>1, <1>2, <2>1 DEF CInv, GoroutinesStand
  <1>8. ReadersStand'
    <2>1. \A s \in Session : done'[s] => s[2] <= current'[s[1]]
      BY <1>4, <1>5 DEF CInv, ReadersStand
    <2>2. ASSUME NEW s \in Session, reader'[s] = "returned",
                 s[2] = current[s[1]], outcome' = "running"
          PROVE  goroutine'[s[1]] \in {"connect", "ended"}
      <3>1. CASE s = In(w)
        BY <1>2, <1>4, <2>2, <3>1
      <3>2. CASE s # In(w)
        <4>1. s[1] # w /\ reader[s] = "returned"
          BY <1>3, <2>2, <3>2
        <4>2. goroutine[s[1]] \in {"connect", "ended"}
          BY <2>2, <4>1 DEF CInv, ReadersStand
        <4>3. QED
          BY <1>2, <1>5, <4>1, <4>2
      <3>3. QED
        BY <3>1, <3>2
    <2>3. QED
      BY <2>1, <2>2 DEF ReadersStand, SessionsTyped, Outbox
  <1>9. DoneWhenLeft'
    <2> SUFFICES ASSUME outcome' = "running",
                        NEW s \in Session, s[2] <= current[s[1]]
                 PROVE  done'[s] <=> \/ s[2] < current[s[1]]
                                    \/ goroutine'[s[1]] \in {"connect", "ended"}
      BY DEF DoneWhenLeft
    <2>1. CASE s = In(w)
      BY <1>2, <1>4, <1>5, <2>1
    <2>2. CASE s # In(w)
      <3>1. done'[s] <=> \/ s[2] < current[s[1]]
                        \/ goroutine[s[1]] \in {"connect", "ended"}
        BY <2>2 DEF CInv, DoneWhenLeft
      <3>2. CASE s[1] = w
        BY <1>3, <1>5, <2>2, <3>1, <3>2
      <3>3. CASE s[1] # w
        BY <1>2, <1>5, <3>1, <3>3
      <3>4. QED
        BY <3>2, <3>3
    <2>3. QED
      BY <2>1, <2>2
  <1>10. QED
    BY <1>6, <1>7, <1>8, <1>9 DEF CInv, NeverPanics

\* The message the goroutine waits for comes from a channel that is open, and if
\* it ends the session the channel it closes is open too.
LEMMA DeliverCInv ==
    ASSUME CInv, outcome = "running", NEW w \in Watch, Deliver(w)
    PROVE  CInv'
  <1> DEFINE s == In(w)
             o == outbox[s]
             m == Head(o)
             p == IF Tail(o) # <<>> THEN "send"
                  ELSE IF last[s] THEN "returned" ELSE "read"
             b == IF p = "returned" /\ body[s] = "open" THEN "closed" ELSE body[s]
  <1>1. goroutine[w] = "select" /\ UNCHANGED <<callVars, current, lines>>
    BY DEF Deliver
  <1>2. s \in Session /\ ~done[s] /\ reader[s] # "returned"
    BY <1>1, SessionGoesOn
  <1>3. reader[s] = "send" /\ Sent(s) /\ AfterMessage(w, m)
    BY <1>2 DEF Deliver
  <1>4. SessionsTyped
    BY SessionsAreTyped
  <1>5. o \in Outbox /\ o # <<>>
    BY <1>2, <1>3, <1>4 DEF SessionsTyped
  <1>6. /\ m \in Message /\ Tail(o) \in {<<>>, <<"event">>}
        /\ last[s] => Tail(o) = <<>> /\ m \in {"eof", "error"}
    BY <1>2, <1>4, <1>5, OutboxShrinks DEF SessionsTyped
  <1>7. SessionsTyped'
    <2>1. /\ outbox' = [outbox EXCEPT ![s] = Tail(o)]
          /\ UNCHANGED <<last, closer>>
          /\ reader' = [reader EXCEPT ![s] = p]
          /\ body' = [body EXCEPT ![s] = b]
      BY <1>2, <1>3, <1>4 DEF Sent, SessionsTyped
    <2>2. /\ last' = [last EXCEPT ![s] = last[s]] /\ last[s] \in BOOLEAN
          /\ closer' = [closer EXCEPT ![s] = closer[s]]
          /\ closer[s] \in {"none", "wait", "returned"}
          /\ b \in {"none", "open", "closed"} /\ (b # "none" <=> closer[s] # "none")
      BY <1>2, <1>4, <2>1 DEF SessionsTyped
    <2>3. Tail(o) \in Outbox /\ (Tail(o) # <<>> <=> p = "send")
      BY <1>6 DEF Outbox
    <2>4. QED
      BY <1>1, <1>2, <1>3, <1>4, <1>6, <2>1, <2>2, <2>3, OneSession
  <1>8. /\ reader'[s] = "returned" => m \in {"eof", "error"}
        /\ \A t \in Session \ {s} : reader'[t] = reader[t]
    BY <1>2, <1>3, <1>4, <1>6 DEF Sent, SessionsTyped
  <1> HIDE DEF s, o, m, p, b
  <1>9. CASE m = "event"
    <2>1. /\ goroutine' = [goroutine EXCEPT ![w] = "handle"]
          /\ UNCHANGED <<done, outcome>>
      BY <1>3, <1>9 DEF AfterMessage
    <2>2. done' \in [Session -> BOOLEAN]
      BY <2>1 DEF CInv, TypeOK
    <2>3. QED
      BY <1>1, <1>2, <1>7, <1>8, <1>9, <2>1, <2>2, LoopStep DEF s
  <1>10. CASE m = "error"
    <2>1. /\ done' = [done EXCEPT ![s] = TRUE]
          /\ outcome' = "fatal" /\ UNCHANGED goroutine
      BY <1>3, <1>10 DEF AfterMessage, s
    <2>2. /\ done' \in [Session -> BOOLEAN]
          /\ \A t \in Session \ {s} : done'[t] = done[t]
          /\ goroutine' = [goroutine EXCEPT ![w] = "select"]
      BY <1>1, <1>2, <2>1 DEF CInv, TypeOK
    <2>3. QED
      BY <1>1, <1>7, <1>8, <2>1, <2>2, LoopStep DEF s
  <1>11. CASE m \notin {"event", "error"}
    <2>1. /\ done' = [done EXCEPT ![s] = TRUE] /\ outcome' = "running"
          /\ goroutine' = [goroutine EXCEPT ![w] = "connect"]
      BY <1>2, <1>3, <1>11 DEF AfterMessage, CloseDone, s
    <2>2. /\ done' \in [Session -> BOOLEAN] /\ done'[s]
          /\ \A t \in Session \ {s} : done'[t] = done[t]
      BY <1>2, <2>1 DEF CInv, TypeOK
    <2>3. QED
      BY <1>1, <1>7, <1>8, <2>1, <2>2, LoopStep DEF s
  <1>12. QED
    BY <1>9, <1>10, <1>11

\* A stopped goroutine closes its channel once.
LEMMA SeeStopCInv ==
    ASSUME CInv, outcome = "running", NEW w \in Watch, SeeStop(w)
    PROVE  CInv'
  <1>1. /\ goroutine[w] = "select" /\ CloseDone(In(w))
        /\ goroutine' = [goroutine EXCEPT ![w] = "ended"]
        /\ UNCHANGED <<callVars, reader, outbox, last, closer, body, current, lines>>
    BY DEF SeeStop
  <1>2. In(w) \in Session /\ ~done[In(w)] /\ reader[In(w)] # "returned"
    BY <1>1, SessionGoesOn
  <1>3. done' = [done EXCEPT ![In(w)] = TRUE] /\ outcome' = "running"
    BY <1>1, <1>2 DEF CloseDone
  <1>4. /\ done' \in [Session -> BOOLEAN] /\ done'[In(w)]
        /\ \A t \in Session \ {In(w)} : done'[t] = done[t]
    BY <1>2, <1>3 DEF CInv, TypeOK
  <1>5. SessionsTyped'
    BY <1>1, SessionsAreTyped DEF SessionsTyped
  <1>6. QED
    BY <1>1, <1>2, <1>3, <1>4, <1>5, LoopStep

LEMMA HandleCInv ==
    ASSUME CInv, outcome = "running", NEW w \in Watch,
           Handle(w) \/ HandleClosed(w)
    PROVE  CInv'
  <1>1. /\ goroutine[w] = "handle"
        /\ UNCHANGED <<callVars, current, lines>>
        /\ UNCHANGED <<reader, outbox, last, closer, done, body>>
    BY DEF Handle, HandleClosed, sessionVars
  <1>2. In(w) \in Session /\ ~done[In(w)] /\ reader[In(w)] # "returned"
    BY <1>1, SessionGoesOn
  <1>3. done' \in [Session -> BOOLEAN]
    BY <1>1 DEF CInv, TypeOK
  <1>4. SessionsTyped'
    BY <1>1, SessionsAreTyped DEF SessionsTyped
  <1>5. PICK g \in {"select", "spin", "handle"} :
            /\ goroutine' = [goroutine EXCEPT ![w] = g]
            /\ g = "spin" => database = "closed"
            /\ outcome' \in {"running", "fatal"}
    <2>1. CASE Handle(w)
      BY <2>1 DEF Handle
    <2>2. CASE HandleClosed(w)
      <3>1. UNCHANGED goroutine => goroutine' = [goroutine EXCEPT ![w] = "handle"]
        BY <1>1 DEF CInv, TypeOK
      <3>2. QED
        BY <2>2, <3>1 DEF HandleClosed
    <2>3. QED
      BY <2>1, <2>2
  <1>6. QED
    BY <1>1, <1>2, <1>3, <1>4, <1>5, LoopStep

LEMMA ConnectClosedCInv ==
    ASSUME CInv, NEW w \in Watch, ConnectClosed(w)
    PROVE  CInv'
  <1>1. /\ outcome' = "fatal"
        /\ UNCHANGED <<stopChannels, watches, stop, database>>
        /\ UNCHANGED <<reader, outbox, last, closer, done, body>>
        /\ UNCHANGED <<goroutine, current, lines>>
    BY DEF ConnectClosed, callVars, sessionVars
  <1>2. TypeOK'
    BY <1>1 DEF CInv, TypeOK
  <1>3. QED
    BY <1>1, <1>2
       DEF CInv, GoroutinesStand, ReadersStand, NeverPanics, DoneWhenLeft

-----------------------------------------------------------------------------
LEMMA InitCInv == Init => CInv
  <1> SUFFICES ASSUME Init PROVE CInv
    OBVIOUS
  <1>1. \A s \in Session : s[2] > 0
    BY SessionParts, BoundsTyped
  <1>2. TypeOK
    BY <1>1, SessionParts, BoundsTyped, OutboxTyped DEF Init, TypeOK, Outbox
  <1>3. GoroutinesStand /\ ReadersStand /\ NeverPanics
    BY BoundsTyped DEF Init, GoroutinesStand, ReadersStand, NeverPanics, Watch
  <1>4. DoneWhenLeft
    BY <1>1, SessionParts DEF Init, DoneWhenLeft
  <1>5. QED
    BY <1>2, <1>3, <1>4 DEF CInv

LEMMA StutterCInv ==
    ASSUME CInv, UNCHANGED vars
    PROVE  CInv'
  <1>1. /\ UNCHANGED <<stopChannels, watches, stop, database>>
        /\ UNCHANGED <<reader, outbox, last, closer, done, body>>
        /\ UNCHANGED <<goroutine, current, lines, outcome>>
    BY DEF vars, callVars, sessionVars
  <1>2. TypeOK'
    BY <1>1 DEF CInv, TypeOK
  <1>3. QED
    BY <1>1, <1>2
       DEF CInv, GoroutinesStand, ReadersStand, NeverPanics, DoneWhenLeft

LEMMA NextCInv ==
    ASSUME CInv, [Next]_vars
    PROVE  CInv'
  <1>1. CASE UNCHANGED vars
    BY <1>1, StutterCInv
  <1>2. CASE StartWatch \/ StopWatch \/ Destroy \/ CloseDatabase
    BY <1>2, UserCInv
  <1>3. ASSUME NEW w \in Watch, Loop(w) \/ SeeStop(w), outcome = "running"
        PROVE  CInv'
    BY <1>3, ConnectCInv, ConnectClosedCInv, DeliverCInv, HandleCInv,
       SeeStopCInv DEF Loop
  <1>4. ASSUME NEW s \in Session, Read(s) \/ CloseBody(s)
        PROVE  CInv'
    BY <1>4, ReadCInv
  <1>5. QED
    BY <1>1, <1>2, <1>3, <1>4 DEF Next

\* The invariant above holds in every state of the goroutines of a Watcher.
THEOREM ClientInvariant == Spec => []CInv
  <1>1. QED
    BY InitCInv, NextCInv, PTL DEF Spec

\* Every variable has its type, however many watches and sessions there are.
THEOREM ClientTypeCorrect == Spec => []TypeOK
  <1>1. CInv => TypeOK
    BY DEF CInv
  <1>2. QED
    BY <1>1, ClientInvariant, PTL

\* No goroutine takes an event from a channel its reader has closed, and none
\* closes done twice, though a session can end by an end of stream, a status, an
\* error or Stop, and the reader may send another message after a status.
THEOREM ChannelsAreSafe == Spec => []NeverPanics
  <1>1. CInv => NeverPanics
    BY DEF CInv
  <1>2. QED
    BY <1>1, ClientInvariant, PTL

\* The closer of a session is told to close the connection exactly when the
\* session is left, for the next one or for good.
THEOREM LeftSessionsAreDone == Spec => []DoneWhenLeft
  <1>1. CInv => DoneWhenLeft
    BY DEF CInv
  <1>2. QED
    BY <1>1, ClientInvariant, PTL
=============================================================================

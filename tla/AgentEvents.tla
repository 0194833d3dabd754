----------------------------- MODULE AgentEvents -----------------------------
(***************************************************************************)
(* AgentEventsService on one replica: SSE clients observe runs through one  *)
(* Subject per run, fed by one Redis connection in subscriber mode.         *)
(*                                                                         *)
(* The commands of that connection are executed in order, and their replies *)
(* and the published messages come back in order; everything else is a race:*)
(* the continuation of observe runs some time after the reply has been read,*)
(* and by then further messages may have been handled.                      *)
(***************************************************************************)
EXTENDS Naturals, Sequences, FiniteSets

CONSTANTS
  Runs,         \* runs that publish events
  Observers,    \* SSE requests
  MaxEvents,    \* bound: events published on one channel
  MaxEnds,      \* bound: ends of stream published on one channel
  NoObserver    \* no subject; a Subject is named by the observe that made it

ASSUME RunsAssumption == Runs # {}
ASSUME ObserverAssumption == NoObserver \notin Observers
ASSUME BoundsAssumption == MaxEvents \in Nat /\ MaxEnds \in Nat \ {0}

Kinds == {"event", "stream_end"}
States == {"idle", "authorised", "subscribing", "returned", "attached",
           "completed", "failed", "gone"}

VARIABLES
  published,   \* the messages published on the channel of a run
  subscribed,  \* the runs whose channel the connection is subscribed to
  commands,    \* commands sent on the connection and not executed yet
  replies,     \* replies and messages not read yet
  subjects,    \* the map of AgentEventsService: run -> Subject
  ended,       \* Subjects that have been completed
  observers,   \* SSE requests: state, run, Subject, messages received
  running      \* until onModuleDestroy

\* History: the code keeps nothing of this, the properties speak of it.
VARIABLES
  refused,     \* the runs whose last command was refused by Redis
  unheard      \* the messages published while the channel was not subscribed to

vars == <<published, subscribed, commands, replies, subjects, ended, observers,
          running, refused, unheard>>

Command(op, r, o) == [op |-> op, run |-> r, by |-> o]
Message(r, n)     == [kind |-> "message", run |-> r, at |-> n]
Reply(kind, o)    == [kind |-> kind, by |-> o]

Positions(r, kind) == {i \in DOMAIN published[r] : published[r][i] = kind}
Ended(r) == Positions(r, "stream_end") # {}

Init ==
  /\ published  = [r \in Runs |-> <<>>]
  /\ subscribed = {}
  /\ commands   = <<>>
  /\ replies    = <<>>
  /\ subjects   = [r \in Runs |-> NoObserver]
  /\ ended      = {}
  /\ observers  = [o \in Observers |->
                     [state |-> "idle", run |-> CHOOSE r \in Runs : TRUE,
                      subject |-> NoObserver, received |-> <<>>]]
  /\ running    = TRUE
  /\ refused    = {}
  /\ unheard    = [r \in Runs |-> {}]

-----------------------------------------------------------------------------
(* The executor and Redis.                                                 *)

\* emit and complete.  Every execution of a run ends its stream, so that events and
\* further ends may follow an end: of an execution that overlaps, or of a later one.
Publish(r, kind) ==
  LET n == Len(published[r]) + 1 IN
  /\ Cardinality(Positions(r, kind)) < (IF kind = "event" THEN MaxEvents ELSE MaxEnds)
  /\ published' = [published EXCEPT ![r] = Append(@, kind)]
  /\ IF r \in subscribed
       THEN replies' = Append(replies, Message(r, n)) /\ UNCHANGED unheard
       ELSE unheard' = [unheard EXCEPT ![r] = @ \cup {n}] /\ UNCHANGED replies
  /\ UNCHANGED <<subscribed, commands, subjects, ended, observers, running, refused>>

ExecuteCommand ==
  /\ commands # <<>>
  /\ LET c == Head(commands) IN
     /\ IF c.op = "subscribe"
          THEN /\ subscribed' = subscribed \cup {c.run}
               /\ replies' = Append(replies, Reply("subscribed", c.by))
          ELSE /\ subscribed' = subscribed \ {c.run}
               /\ UNCHANGED replies
     /\ refused' = refused \ {c.run}
  /\ commands' = Tail(commands)
  /\ UNCHANGED <<published, subjects, ended, observers, running, unheard>>

\* A command is refused.  The observe that waits for its subscribe fails;
\* removeSubject waits for nothing and only logs the error.
RefuseCommand ==
  /\ commands # <<>>
  /\ LET c == Head(commands) IN
     /\ replies' = IF c.op = "subscribe"
                     THEN Append(replies, Reply("refused", c.by)) ELSE replies
     /\ refused' = refused \cup {c.run}
  /\ commands' = Tail(commands)
  /\ UNCHANGED <<published, subscribed, subjects, ended, observers, running, unheard>>

-----------------------------------------------------------------------------
(* The SSE handler and observe.                                            *)

\* getById found the run.  Its status is not looked at.
Authorise(o, r) ==
  /\ running
  /\ observers[o].state = "idle"
  /\ observers' = [observers EXCEPT ![o].state = "authorised", ![o].run = r]
  /\ UNCHANGED <<published, subscribed, commands, replies, subjects, ended,
                 running, refused, unheard>>

\* Only the first observer of a run waits for the subscription.
Observe(o) ==
  LET r == observers[o].run IN
  /\ running
  /\ observers[o].state = "authorised"
  /\ IF subjects[r] = NoObserver
       THEN /\ subjects' = [subjects EXCEPT ![r] = o]
            /\ commands' = Append(commands, Command("subscribe", r, o))
            /\ observers' = [observers EXCEPT ![o].state = "subscribing",
                                              ![o].subject = o]
       ELSE /\ observers' = [observers EXCEPT ![o].state = "returned",
                                              ![o].subject = subjects[r]]
            /\ UNCHANGED <<subjects, commands>>
  /\ UNCHANGED <<published, subscribed, replies, ended, running, refused, unheard>>

\* The response is attached to the Subject, or ends at once if that is over.
Attach(o) ==
  /\ observers[o].state = "returned"
  /\ observers' = [observers EXCEPT ![o].state =
       IF observers[o].subject \in ended THEN "completed" ELSE "attached"]
  /\ UNCHANGED <<published, subscribed, commands, replies, subjects, ended,
                 running, refused, unheard>>

\* The client goes away.  A handler on its way is not cut off by that, and the service
\* is not told: the Subject stays.
Disconnect(o) ==
  /\ observers[o].state = "attached"
  /\ observers' = [observers EXCEPT ![o].state = "gone"]
  /\ UNCHANGED <<published, subscribed, commands, replies, subjects, ended,
                 running, refused, unheard>>

-----------------------------------------------------------------------------
(* What the connection delivers.                                           *)

Listening(subject) ==
  {o \in Observers : observers[o].state = "attached" /\ observers[o].subject = subject}

\* The reply to a subscribe ends the await of observe, if it is still waited for.
Answer(o, state) ==
  observers' = [observers EXCEPT ![o].state = IF @ = "subscribing" THEN state ELSE @]

Complete(subject) ==
  /\ ended' = ended \cup {subject}
  /\ observers' = [o \in Observers |->
       IF o \in Listening(subject)
         THEN [observers[o] EXCEPT !.state = "completed"] ELSE observers[o]]

\* Mutant: the map entry goes, its Subject is not completed.
EndSubjectSilently(r) ==
  /\ subjects' = [subjects EXCEPT ![r] = NoObserver]
  /\ commands' = Append(commands, Command("unsubscribe", r, NoObserver))
  /\ UNCHANGED <<ended, observers>>

\* Mutant: the channel stays subscribed.
EndSubjectStaysSubscribed(r) ==
  /\ Complete(subjects[r])
  /\ subjects' = [subjects EXCEPT ![r] = NoObserver]
  /\ UNCHANGED commands

\* complete() of the Subject and removeSubject.
EndSubject(r) ==
  /\ Complete(subjects[r])
  /\ subjects' = [subjects EXCEPT ![r] = NoObserver]
  /\ commands' = Append(commands, Command("unsubscribe", r, NoObserver))

\* Mutant: every observe adds a message handler of its own.
DeliverPerHandler(r, n) ==
  observers' = [o \in Observers |->
    IF o \in Listening(subjects[r])
      THEN [observers[o] EXCEPT !.received =
              IF Cardinality(Listening(subjects[r])) > 1 THEN @ \o <<n, n>>
                                                         ELSE Append(@, n)]
      ELSE observers[o]]

Deliver(r, n) ==
  observers' = [o \in Observers |->
    IF o \in Listening(subjects[r])
      THEN [observers[o] EXCEPT !.received = Append(@, n)]
      ELSE observers[o]]

\* Mutant: the lookup of the Subject is not checked.
HandleMessageUnchecked(r, n) ==
  IF published[r][n] = "stream_end"
    THEN EndSubject(r)
    ELSE Deliver(r, n) /\ UNCHANGED <<subjects, commands, ended>>

\* handleMessage: a message for a run without a Subject is ignored.
HandleMessage(r, n) ==
  IF subjects[r] = NoObserver
    THEN UNCHANGED <<subjects, commands, ended, observers>>
    ELSE IF published[r][n] = "stream_end"
           THEN EndSubject(r)
           ELSE Deliver(r, n) /\ UNCHANGED <<subjects, commands, ended>>

Read ==
  /\ replies # <<>>
  /\ LET m == Head(replies) IN
       CASE m.kind = "message" -> HandleMessage(m.run, m.at)
         [] m.kind = "subscribed" ->
              Answer(m.by, "returned") /\ UNCHANGED <<subjects, commands, ended>>
         [] m.kind = "refused" ->
              Answer(m.by, "failed") /\ UNCHANGED <<subjects, commands, ended>>
  /\ replies' = Tail(replies)
  /\ UNCHANGED <<published, subscribed, running, refused, unheard>>

\* onModuleDestroy completes every Subject and forgets it.  The process is about
\* to end: RedisService closes the connection, and requests that are not attached
\* to a Subject yet end with the process.
Shutdown ==
  /\ running
  /\ running' = FALSE
  /\ ended' = ended \cup ({subjects[r] : r \in Runs} \ {NoObserver})
  /\ observers' = [o \in Observers |->
       CASE \E r \in Runs : o \in Listening(subjects[r]) ->
              [observers[o] EXCEPT !.state = "completed"]
         [] observers[o].state \in {"authorised", "subscribing", "returned"} ->
              [observers[o] EXCEPT !.state = "gone"]
         [] OTHER -> observers[o]]
  /\ subjects' = [r \in Runs |-> NoObserver]
  /\ UNCHANGED <<published, subscribed, commands, replies, refused, unheard>>

Next ==
  \/ \E r \in Runs, kind \in Kinds : Publish(r, kind)
  \/ ExecuteCommand
  \/ RefuseCommand
  \/ \E o \in Observers :
       \/ \E r \in Runs : Authorise(o, r)
       \/ Observe(o)
       \/ Attach(o)
       \/ Disconnect(o)
  \/ Read
  \/ Shutdown

Spec == Init /\ [][Next]_vars

\* Redis and the event loop go on, and every run ends its stream at least once
\* (StreamEnds of AgentRuns).  No client has to connect and none has to go away.
Fairness ==
  /\ WF_vars(ExecuteCommand) /\ WF_vars(Read)
  /\ \A o \in Observers : WF_vars(Observe(o)) /\ WF_vars(Attach(o))
  /\ \A r \in Runs : WF_vars(~ Ended(r) /\ Publish(r, "stream_end"))

FairSpec == Spec /\ Fairness

-----------------------------------------------------------------------------
(* Properties.                                                             *)

Observer == [state : States, run : Runs, subject : Observers \cup {NoObserver},
             received : Seq(Nat)]

\* Every variable has its type, and only a Subject that was made is observed.
TypeOK ==
  /\ published \in [Runs -> Seq(Kinds)]
  /\ subscribed \subseteq Runs
  /\ commands \in Seq([op : {"subscribe", "unsubscribe"}, run : Runs,
                       by : Observers \cup {NoObserver}])
  /\ replies \in Seq([kind : {"message"}, run : Runs, at : Nat \ {0}]
                     \cup [kind : {"subscribed", "refused"}, by : Observers])
  /\ subjects \in [Runs -> Observers \cup {NoObserver}]
  /\ ended \subseteq Observers
  /\ observers \in [Observers -> Observer]
  /\ running \in BOOLEAN
  /\ refused \subseteq Runs
  /\ unheard \in [Runs -> SUBSET (Nat \ {0})]

\* What the connection will be subscribed to once its commands are executed.
Pending(r) == {i \in DOMAIN commands : commands[i].run = r}
WillBeSubscribed(r) ==
  \/ r \in subscribed /\ Pending(r) = {}
  \/ \E i \in Pending(r) :
       commands[i].op = "subscribe" /\ \A k \in Pending(r) : k <= i

\* The connection follows the map, whatever order clients came and ends of streams
\* were handled in: once the commands on their way are executed, a run is subscribed
\* to exactly if it has a Subject.  Only a refusal can leave a channel subscribed
\* without a Subject, or a Subject without its channel, and that until the next
\* command for the run.
SubscriptionFollowsSubject ==
  running => \A r \in Runs :
    \/ WillBeSubscribed(r) <=> subjects[r] # NoObserver
    \/ r \in refused /\ Pending(r) = {}

\* Message n of a run is the next one after m for a client: what was published in
\* between was published while the channel was not subscribed to, and given up it
\* was because an execution of the run had ended the stream before.
Follows(r, m, n) ==
  /\ m < n
  /\ \A k \in (m + 1)..(n - 1) :
       k \in unheard[r] /\ \E e \in Positions(r, "stream_end") : e < k

\* What a client received are events of its run that follow each other, none twice
\* and none out of order, also if executions of the run overlap and the Subject of
\* the run is ended and made anew while commands and messages are on their way; and
\* if its stream has completed, an end of the stream follows what it received.
ReceivedUninterrupted ==
  \A o \in Observers :
    LET run  == observers[o].run
        seen == observers[o].received IN
    /\ \A i \in 1..(Len(seen) - 1) : Follows(run, seen[i], seen[i + 1])
    /\ \A i \in DOMAIN seen : seen[i] \in Positions(run, "event")
    /\ observers[o].state = "completed" /\ running =>
         \E n \in Positions(run, "stream_end") :
           seen # <<>> => Follows(run, seen[Len(seen)], n)

\* A client attached to a run whose channel is subscribed before the stream ends
\* sees it end.
AttachedStreamEnds ==
  \A o \in Observers :
    (/\ observers[o].state = "attached"
     /\ observers[o].run \in subscribed
     /\ ~ Ended(observers[o].run))
    ~> observers[o].state \in {"completed", "gone"}

\* A client that was let in while the run was going on receives what it publishes
\* until the end, so that its stream completes.
AuthorisedStreamEnds ==
  \A o \in Observers :
    (observers[o].state = "authorised" /\ ~ Ended(observers[o].run))
    ~> observers[o].state \in {"completed", "failed", "gone"}

==============================================================================

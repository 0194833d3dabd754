-------------------------- MODULE AgentEventsProofs --------------------------
(***************************************************************************)
(* Proofs about AgentEvents for any number of runs, observers and messages:*)
(* types, a connection that follows the map, and what a client receives.   *)
(*                                                                         *)
(* The last rests on three groups of facts: observers and the map name the *)
(* same Subjects (SubjectsMatch); what is on its way on the connection is  *)
(* what was heard last, in order, and once a channel was heard it is given *)
(* up only after an end of the stream (StreamsInv); and what a client      *)
(* received ends where that begins (Received).                             *)
(***************************************************************************)
EXTENDS AgentEvents, TLAPS

Absent == Observers \cup {NoObserver}
CommandType == [op : {"subscribe", "unsubscribe"}, run : Runs, by : Absent]
MessageType == [kind : {"message"}, run : Runs, at : Nat \ {0}]
AnswerType  == [kind : {"subscribed", "refused"}, by : Observers]
ReplyType   == MessageType \cup AnswerType

\* A subscribe is sent by an observe.
SubscribersNamed ==
  \A i \in DOMAIN commands : commands[i].op = "subscribe" => commands[i].by \in Observers

TypeInv ==
  /\ published \in [Runs -> Seq(Kinds)]
  /\ subscribed \subseteq Runs
  /\ commands \in Seq(CommandType)
  /\ replies \in Seq(ReplyType)
  /\ subjects \in [Runs -> Absent]
  /\ ended \subseteq Observers
  /\ observers \in [Observers -> Observer]
  /\ running \in BOOLEAN
  /\ refused \subseteq Runs
  /\ unheard \in [Runs -> SUBSET (Nat \ {0})]
  /\ SubscribersNamed

-----------------------------------------------------------------------------
(* Sequences.                                                              *)

LEMMA Appended ==
  ASSUME NEW S, NEW s \in Seq(S), NEW x \in S
  PROVE  /\ Append(s, x) \in Seq(S)
         /\ Len(Append(s, x)) = Len(s) + 1
         /\ DOMAIN Append(s, x) = 1..(Len(s) + 1)
         /\ DOMAIN s = 1..Len(s) /\ Len(s) \in Nat
         /\ \A i \in 1..Len(s) : Append(s, x)[i] = s[i]
         /\ Append(s, x)[Len(s) + 1] = x
  OBVIOUS

LEMMA Removed ==
  ASSUME NEW S, NEW s \in Seq(S), s # <<>>
  PROVE  /\ Tail(s) \in Seq(S)
         /\ Len(s) \in Nat /\ Len(s) >= 1
         /\ DOMAIN s = 1..Len(s)
         /\ DOMAIN Tail(s) = 1..(Len(s) - 1)
         /\ \A i \in 1..(Len(s) - 1) : Tail(s)[i] = s[i + 1]
         /\ Head(s) = s[1] /\ Head(s) \in S
  OBVIOUS

-----------------------------------------------------------------------------
(* Observers.                                                              *)

\* What an observer observes is settled.
SameFor(o) ==
  /\ observers'[o].run = observers[o].run
  /\ observers'[o].subject = observers[o].subject

\* Nobody receives anything, and whoever is settled stays so.
Quiet(o) == SameFor(o) /\ observers'[o].received = observers[o].received

LEMMA RecordParts ==
  ASSUME TypeInv, NEW o \in Observers
  PROVE  /\ observers[o].state \in States
         /\ observers[o].run \in Runs
         /\ observers[o].subject \in Absent
         /\ observers[o].received \in Seq(Nat)
  BY DEF TypeInv, Observer, Absent

\* One observer gets another state.
LEMMA StateSet ==
  ASSUME TypeInv, NEW o \in Observers, NEW state \in States,
         observers' = [observers EXCEPT ![o].state = state]
  PROVE  /\ observers' \in [Observers -> Observer]
         /\ observers'[o].state = state /\ Quiet(o)
         /\ \A p \in Observers \ {o} : observers'[p] = observers[p]
<1> DEFINE r == [observers[o] EXCEPT !.state = state]
<1>1. observers' = [observers EXCEPT ![o] = r]
  BY DEF TypeInv
<1>2. observers[o] \in Observer
  BY DEF TypeInv
<1>3. r \in Observer
  BY <1>2 DEF Observer
<1>4. observers'[o] = r
  BY <1>1 DEF TypeInv
<1>5. QED
  BY <1>1, <1>2, <1>3, <1>4 DEF TypeInv, Observer, Quiet, SameFor

\* Some observers get another state.
LEMMA StatesSet ==
  ASSUME TypeInv, NEW S \in SUBSET Observers, NEW state \in States,
         observers' = [o \in Observers |->
           IF o \in S THEN [observers[o] EXCEPT !.state = state] ELSE observers[o]]
  PROVE  /\ observers' \in [Observers -> Observer]
         /\ \A o \in S : observers'[o].state = state /\ Quiet(o)
         /\ \A o \in Observers \ S : observers'[o] = observers[o]
<1>1. \A o \in Observers : observers[o] \in Observer
  BY DEF TypeInv
<1>2. \A o \in Observers : [observers[o] EXCEPT !.state = state] \in Observer
  BY <1>1 DEF Observer
<1>3. \A o \in S : observers'[o] = [observers[o] EXCEPT !.state = state]
  OBVIOUS
<1>4. \A o \in S : observers'[o].state = state /\ Quiet(o)
  BY <1>1, <1>3 DEF Observer, Quiet, SameFor
<1>5. QED
  BY <1>1, <1>2, <1>4

\* A message is delivered to those that listen.
LEMMA Delivered ==
  ASSUME TypeInv, NEW r \in Runs, NEW n \in Nat, Deliver(r, n)
  PROVE  /\ observers' \in [Observers -> Observer]
         /\ \A o \in Listening(subjects[r]) :
              /\ SameFor(o) /\ observers'[o].state = observers[o].state
              /\ observers'[o].received = Append(observers[o].received, n)
         /\ \A o \in Observers \ Listening(subjects[r]) : observers'[o] = observers[o]
<1> DEFINE more(o) == [observers[o] EXCEPT !.received = Append(observers[o].received, n)]
<1>1. \A o \in Observers : observers[o] \in Observer
  BY DEF TypeInv
<1>2. \A o \in Observers : more(o) \in Observer
  <2> SUFFICES ASSUME NEW o \in Observers PROVE more(o) \in Observer
    OBVIOUS
  <2>1. Append(observers[o].received, n) \in Seq(Nat)
    BY <1>1 DEF Observer
  <2>2. QED
    BY <1>1, <2>1 DEF Observer
<1>3. observers' = [o \in Observers |->
        IF o \in Listening(subjects[r]) THEN more(o) ELSE observers[o]]
  BY DEF Deliver
<1>4. \A o \in Listening(subjects[r]) : o \in Observers /\ observers'[o] = more(o)
  BY <1>3 DEF Listening
<1>5. \A o \in Listening(subjects[r]) :
        /\ SameFor(o) /\ observers'[o].state = observers[o].state
        /\ observers'[o].received = Append(observers[o].received, n)
  BY <1>1, <1>4 DEF Observer, SameFor
<1>6. QED
  BY <1>1, <1>2, <1>3, <1>5

-----------------------------------------------------------------------------
(* What is read from the connection.                                       *)

ReadIgnored(r, n) ==
  subjects[r] = NoObserver /\ UNCHANGED <<subjects, commands, ended, observers>>

ReadEnd(r, n) ==
  subjects[r] # NoObserver /\ published[r][n] = "stream_end" /\ EndSubject(r)

ReadEvent(r, n) ==
  /\ subjects[r] # NoObserver /\ published[r][n] # "stream_end" /\ Deliver(r, n)
  /\ UNCHANGED <<subjects, commands, ended>>

ReadAnswer(o) ==
  /\ \E state \in {"returned", "failed"} : Answer(o, state)
  /\ UNCHANGED <<subjects, commands, ended>>

LEMMA ReadCases ==
  ASSUME TypeInv, Read
  PROVE  /\ replies # <<>> /\ replies' = Tail(replies)
         /\ UNCHANGED <<published, subscribed, running, refused, unheard>>
         /\ \/ \E r \in Runs, n \in Nat \ {0} :
                 /\ Head(replies) = Message(r, n)
                 /\ ReadIgnored(r, n) \/ ReadEnd(r, n) \/ ReadEvent(r, n)
            \/ \E o \in Observers : Head(replies).kind # "message" /\ ReadAnswer(o)
<1> PICK m : m = Head(replies)
  OBVIOUS
<1>1. m \in ReplyType
  BY DEF Read, TypeInv
<1>2. CASE m \in MessageType
  <2>1. m = Message(m.run, m.at) /\ m.run \in Runs /\ m.at \in Nat \ {0}
    BY <1>2 DEF MessageType, Message
  <2>2. HandleMessage(m.run, m.at)
    BY <1>2 DEF Read, MessageType
  <2>3. ReadIgnored(m.run, m.at) \/ ReadEnd(m.run, m.at) \/ ReadEvent(m.run, m.at)
    BY <2>2 DEF HandleMessage, ReadIgnored, ReadEnd, ReadEvent
  <2>4. QED
    BY <2>1, <2>3 DEF Read
<1>3. CASE m \in AnswerType
  <2>1. m.by \in Observers /\ m.kind \in {"subscribed", "refused"}
    BY <1>3 DEF AnswerType
  <2>2. ReadAnswer(m.by)
    BY <2>1 DEF Read, ReadAnswer
  <2>3. QED
    BY <2>1, <2>2 DEF Read
<1>4. QED
  BY <1>1, <1>2, <1>3 DEF ReplyType

\* An answer moves the observer that waits for it.
LEMMA AnswerMoves ==
  ASSUME TypeInv, NEW o \in Observers, ReadAnswer(o)
  PROVE  /\ observers' \in [Observers -> Observer]
         /\ Quiet(o)
         /\ \A p \in Observers \ {o} : observers'[p] = observers[p]
         /\ \/ observers'[o].state = observers[o].state
            \/ /\ observers[o].state = "subscribing"
               /\ observers'[o].state \in {"returned", "failed"}
<1>1. PICK state \in {"returned", "failed"} : Answer(o, state)
  BY DEF ReadAnswer
<1> DEFINE next == IF observers[o].state = "subscribing" THEN state ELSE observers[o].state
<1>2. next \in States
  BY <1>1, RecordParts DEF States
<1>3. observers' = [observers EXCEPT ![o].state = next]
  BY <1>1 DEF Answer
<1>4. QED
  BY <1>1, <1>2, <1>3, StateSet

\* The end of a Subject is the end for those that listen.
LEMMA SubjectEnds ==
  ASSUME TypeInv, NEW r \in Runs, NEW n, ReadEnd(r, n)
  PROVE  /\ observers' \in [Observers -> Observer]
         /\ \A o \in Listening(subjects[r]) : observers'[o].state = "completed" /\ Quiet(o)
         /\ \A o \in Observers \ Listening(subjects[r]) : observers'[o] = observers[o]
         /\ ended' = ended \cup {subjects[r]}
         /\ subjects' = [subjects EXCEPT ![r] = NoObserver]
         /\ commands' = Append(commands, Command("unsubscribe", r, NoObserver))
<1>1. Listening(subjects[r]) \in SUBSET Observers /\ "completed" \in States
  BY DEF Listening, States
<1>2. observers' = [o \in Observers |->
        IF o \in Listening(subjects[r])
          THEN [observers[o] EXCEPT !.state = "completed"] ELSE observers[o]]
  BY DEF ReadEnd, EndSubject, Complete
<1>3. QED
  BY <1>1, <1>2, StatesSet DEF ReadEnd, EndSubject, Complete

\* Whoever is attached when the process ends is completed, others are cut off.
LEMMA ShutdownMoves ==
  ASSUME TypeInv, Shutdown
  PROVE  /\ observers' \in [Observers -> Observer]
         /\ \A o \in Observers :
              /\ Quiet(o)
              /\ \/ observers'[o].state = observers[o].state
                 \/ /\ observers[o].state = "attached"
                    /\ observers'[o].state = "completed"
                 \/ /\ observers[o].state \in {"authorised", "subscribing", "returned"}
                    /\ observers'[o].state = "gone"
<1> DEFINE ends(o) == \E r \in Runs : o \in Listening(subjects[r])
           cut(o) == observers[o].state \in {"authorised", "subscribing", "returned"}
           next(o) == IF ends(o) THEN [observers[o] EXCEPT !.state = "completed"]
                      ELSE IF cut(o) THEN [observers[o] EXCEPT !.state = "gone"]
                      ELSE observers[o]
<1>1. \A o \in Observers : ends(o) => observers[o].state = "attached"
  BY DEF Listening
<1>2. \A o \in Observers : observers'[o] = next(o)
  <2>1. SUFFICES ASSUME NEW o \in Observers PROVE observers'[o] = next(o)
    OBVIOUS
  <2>2. ends(o) => ~ cut(o)
    BY <1>1
  <2>3. observers'[o] = CASE ends(o) -> [observers[o] EXCEPT !.state = "completed"]
                          [] cut(o) -> [observers[o] EXCEPT !.state = "gone"]
                          [] OTHER -> observers[o]
    BY DEF Shutdown
  <2>4. QED
    BY <2>2, <2>3
<1>3. \A o \in Observers : observers[o] \in Observer
  BY DEF TypeInv
<1>4. observers' \in [Observers -> Observer]
  <2>1. \A o \in Observers : next(o) \in Observer
    BY <1>3 DEF Observer, States
  <2>2. \E f : observers' = [o \in Observers |-> f[o]]
    <3>1. observers' = [o \in Observers |-> observers'[o]]
      BY DEF Shutdown
    <3>2. QED
      BY <3>1
  <2>3. QED
    BY <1>2, <2>1, <2>2
<1>5. ASSUME NEW o \in Observers
      PROVE  /\ Quiet(o)
             /\ \/ observers'[o].state = observers[o].state
                \/ observers[o].state = "attached" /\ observers'[o].state = "completed"
                \/ cut(o) /\ observers'[o].state = "gone"
  BY <1>1, <1>2, <1>3 DEF Observer, Quiet, SameFor
<1>6. QED
  BY <1>4, <1>5

\* observe makes a Subject and subscribes, or joins the one that there is.
LEMMA ObserveMoves ==
  ASSUME TypeInv, NEW o \in Observers, Observe(o)
  PROVE  /\ observers' \in [Observers -> Observer]
         /\ \A p \in Observers \ {o} : observers'[p] = observers[p]
         /\ observers'[o].run = observers[o].run
         /\ observers'[o].received = observers[o].received
         /\ \/ /\ subjects[observers[o].run] = NoObserver
               /\ subjects' = [subjects EXCEPT ![observers[o].run] = o]
               /\ commands' = Append(commands, Command("subscribe", observers[o].run, o))
               /\ observers'[o].state = "subscribing" /\ observers'[o].subject = o
            \/ /\ subjects[observers[o].run] # NoObserver
               /\ UNCHANGED <<subjects, commands>>
               /\ observers'[o].state = "returned"
               /\ observers'[o].subject = subjects[observers[o].run]
<1> DEFINE run == observers[o].run
           with(state, s) == [observers[o] EXCEPT !.state = state, !.subject = s]
<1>1. observers[o] \in Observer /\ run \in Runs
  BY DEF TypeInv, Observer
<1>2. ASSUME NEW state \in States, NEW s \in Absent,
             observers' = [observers EXCEPT ![o].state = state, ![o].subject = s]
      PROVE  /\ observers' \in [Observers -> Observer]
             /\ \A p \in Observers \ {o} : observers'[p] = observers[p]
             /\ observers'[o].run = observers[o].run
             /\ observers'[o].received = observers[o].received
             /\ observers'[o].state = state /\ observers'[o].subject = s
  <2>1. observers' = [observers EXCEPT ![o] = with(state, s)]
    BY <1>2 DEF TypeInv
  <2>2. with(state, s) \in Observer
    BY <1>1 DEF Observer, Absent
  <2>3. observers'[o] = with(state, s)
    BY <2>1 DEF TypeInv
  <2>4. QED
    BY <1>1, <2>1, <2>2, <2>3 DEF TypeInv, Observer
<1>3. subjects[run] \in Absent /\ o \in Absent
  BY <1>1 DEF TypeInv, Absent
<1>4. CASE subjects[run] = NoObserver
  <2>1. /\ subjects' = [subjects EXCEPT ![run] = o]
        /\ commands' = Append(commands, Command("subscribe", run, o))
        /\ observers' = [observers EXCEPT ![o].state = "subscribing", ![o].subject = o]
    BY <1>4 DEF Observe
  <2>2. QED
    BY <1>2, <1>3, <1>4, <2>1 DEF States
<1>5. CASE subjects[run] # NoObserver
  <2>1. /\ UNCHANGED <<subjects, commands>>
        /\ observers' = [observers EXCEPT ![o].state = "returned",
                                          ![o].subject = subjects[run]]
    BY <1>5 DEF Observe
  <2>2. QED
    BY <1>2, <1>3, <1>5, <2>1 DEF States
<1>6. QED
  BY <1>4, <1>5

\* The request of a client has been let in.
LEMMA AuthoriseMoves ==
  ASSUME TypeInv, NEW o \in Observers, NEW r \in Runs, Authorise(o, r)
  PROVE  /\ observers' \in [Observers -> Observer]
         /\ \A p \in Observers \ {o} : observers'[p] = observers[p]
         /\ observers'[o].run = r /\ observers'[o].state = "authorised"
         /\ observers'[o].subject = observers[o].subject
         /\ observers'[o].received = observers[o].received
<1> DEFINE next == [observers[o] EXCEPT !.state = "authorised", !.run = r]
<1>1. observers[o] \in Observer
  BY DEF TypeInv
<1>2. observers' = [observers EXCEPT ![o] = next]
  BY DEF Authorise, TypeInv
<1>3. next \in Observer
  BY <1>1 DEF Observer, States
<1>4. observers'[o] = next
  BY <1>2 DEF TypeInv
<1>5. QED
  BY <1>1, <1>2, <1>3, <1>4 DEF TypeInv, Observer

LEMMA AttachMoves ==
  ASSUME TypeInv, NEW o \in Observers, Attach(o)
  PROVE  /\ observers' \in [Observers -> Observer]
         /\ \A p \in Observers \ {o} : observers'[p] = observers[p]
         /\ Quiet(o)
         /\ \/ observers[o].subject \in ended /\ observers'[o].state = "completed"
            \/ observers[o].subject \notin ended /\ observers'[o].state = "attached"
  BY StateSet DEF Attach, States

LEMMA DisconnectMoves ==
  ASSUME TypeInv, NEW o \in Observers, Disconnect(o)
  PROVE  /\ observers' \in [Observers -> Observer]
         /\ \A p \in Observers \ {o} : observers'[p] = observers[p]
         /\ Quiet(o) /\ observers'[o].state = "gone"
  BY StateSet DEF Disconnect, States

-----------------------------------------------------------------------------
(* Types.                                                                  *)

LEMMA CommandSent ==
  ASSUME TypeInv, NEW op \in {"subscribe", "unsubscribe"}, NEW r \in Runs, NEW by \in Absent,
         op = "subscribe" => by \in Observers, commands' = Append(commands, Command(op, r, by))
  PROVE  commands' \in Seq(CommandType) /\ SubscribersNamed'
<1>1. Command(op, r, by) \in CommandType /\ commands \in Seq(CommandType)
  BY DEF Command, CommandType, TypeInv
<1>2. /\ commands' \in Seq(CommandType)
      /\ DOMAIN commands' = 1..(Len(commands) + 1)
      /\ DOMAIN commands = 1..Len(commands) /\ Len(commands) \in Nat
      /\ \A i \in 1..Len(commands) : commands'[i] = commands[i]
      /\ commands'[Len(commands) + 1] = Command(op, r, by)
  BY <1>1, Appended
<1>3. ASSUME NEW i \in DOMAIN commands', commands'[i].op = "subscribe"
      PROVE  commands'[i].by \in Observers
  <2>1. CASE i = Len(commands) + 1
    BY <1>2, <1>3, <2>1 DEF Command
  <2>2. CASE i \in 1..Len(commands)
    BY <1>2, <1>3, <2>2 DEF TypeInv, SubscribersNamed
  <2>3. QED
    BY <1>2, <2>1, <2>2
<1>4. QED
  BY <1>2, <1>3 DEF SubscribersNamed

LEMMA CommandTaken ==
  ASSUME TypeInv, commands # <<>>, commands' = Tail(commands)
  PROVE  /\ commands' \in Seq(CommandType) /\ SubscribersNamed'
         /\ Head(commands) \in CommandType
         /\ Head(commands).op = "subscribe" => Head(commands).by \in Observers
<1>1. commands \in Seq(CommandType)
  BY DEF TypeInv
<1>2. /\ commands' \in Seq(CommandType)
      /\ Len(commands) \in Nat /\ Len(commands) >= 1
      /\ DOMAIN commands = 1..Len(commands)
      /\ DOMAIN commands' = 1..(Len(commands) - 1)
      /\ \A i \in 1..(Len(commands) - 1) : commands'[i] = commands[i + 1]
      /\ Head(commands) = commands[1] /\ Head(commands) \in CommandType
  BY <1>1, Removed
<1>3. SubscribersNamed'
  BY <1>2 DEF TypeInv, SubscribersNamed
<1>4. QED
  BY <1>2, <1>3 DEF TypeInv, SubscribersNamed

\* A message goes on its way, or is published unheard.
LEMMA PublishMoves ==
  ASSUME TypeInv, NEW r \in Runs, NEW kind \in Kinds, Publish(r, kind),
         NEW n, n = Len(published[r]) + 1
  PROVE  /\ n \in Nat \ {0} /\ Message(r, n) \in MessageType
         /\ published' \in [Runs -> Seq(Kinds)]
         /\ published'[r] = Append(published[r], kind)
         /\ \A q \in Runs \ {r} : published'[q] = published[q] /\ unheard'[q] = unheard[q]
         /\ \/ /\ r \in subscribed
               /\ replies' = Append(replies, Message(r, n)) /\ unheard' = unheard
            \/ /\ r \notin subscribed /\ replies' = replies
               /\ unheard' \in [Runs -> SUBSET (Nat \ {0})]
               /\ unheard'[r] = unheard[r] \cup {n}
         /\ UNCHANGED <<subscribed, commands, subjects, ended, observers, running, refused>>
<1>1. /\ published \in [Runs -> Seq(Kinds)] /\ published[r] \in Seq(Kinds)
      /\ unheard \in [Runs -> SUBSET (Nat \ {0})]
  BY DEF TypeInv
<1>2. n \in Nat \ {0} /\ Message(r, n) \in MessageType
  BY <1>1 DEF Message, MessageType
<1>3. Append(published[r], kind) \in Seq(Kinds)
  BY <1>1
<1>4. published' = [published EXCEPT ![r] = Append(published[r], kind)]
  BY DEF Publish
<1>5. CASE r \in subscribed
  BY <1>1, <1>2, <1>3, <1>4, <1>5 DEF Publish
<1>6. CASE r \notin subscribed
  <2>1. unheard' = [unheard EXCEPT ![r] = unheard[r] \cup {n}] /\ replies' = replies
    BY <1>6 DEF Publish
  <2>2. unheard[r] \cup {n} \in SUBSET (Nat \ {0})
    BY <1>1, <1>2
  <2>3. QED
    BY <1>1, <1>2, <1>3, <1>4, <1>6, <2>1, <2>2 DEF Publish
<1>7. QED
  BY <1>5, <1>6

LEMMA PublishTyped ==
  ASSUME TypeInv, NEW r \in Runs, NEW kind \in Kinds, Publish(r, kind)
  PROVE  TypeInv'
<1> PICK n : n = Len(published[r]) + 1
  OBVIOUS
<1>1. Message(r, n) \in ReplyType
  BY PublishMoves DEF ReplyType
<1>2. replies' \in Seq(ReplyType)
  <2>1. CASE replies' = Append(replies, Message(r, n))
    BY <1>1, <2>1, Appended DEF TypeInv
  <2>2. CASE replies' = replies
    BY <2>2 DEF TypeInv
  <2>3. QED
    BY <2>1, <2>2, PublishMoves
<1>3. unheard' \in [Runs -> SUBSET (Nat \ {0})]
  BY PublishMoves DEF TypeInv
<1>4. /\ published' \in [Runs -> Seq(Kinds)]
      /\ UNCHANGED <<subscribed, commands, subjects, ended, observers, running, refused>>
  BY PublishMoves
<1>5. QED
  BY <1>2, <1>3, <1>4 DEF TypeInv, SubscribersNamed

LEMMA ExecuteCommandTyped ==
  ASSUME TypeInv, ExecuteCommand
  PROVE  TypeInv'
<1> PICK c : c = Head(commands)
  OBVIOUS
<1>1. /\ commands' \in Seq(CommandType) /\ SubscribersNamed'
      /\ c \in CommandType /\ (c.op = "subscribe" => c.by \in Observers)
  BY CommandTaken DEF ExecuteCommand
<1>2. c.op = "subscribe" => Reply("subscribed", c.by) \in ReplyType
  BY <1>1 DEF Reply, ReplyType, AnswerType
<1>3. replies' \in Seq(ReplyType)
  <2>1. replies \in Seq(ReplyType)
    BY DEF TypeInv
  <2>2. CASE c.op = "subscribe" /\ replies' = Append(replies, Reply("subscribed", c.by))
    BY <1>2, <2>1, <2>2, Appended
  <2>3. CASE replies' = replies
    BY <2>1, <2>3
  <2>4. QED
    BY <2>2, <2>3 DEF ExecuteCommand
<1>4. subscribed' \subseteq Runs /\ refused' \subseteq Runs
  BY <1>1 DEF ExecuteCommand, TypeInv, CommandType
<1>5. QED
  BY <1>1, <1>3, <1>4 DEF ExecuteCommand, TypeInv

LEMMA RefuseCommandTyped ==
  ASSUME TypeInv, RefuseCommand
  PROVE  TypeInv'
<1> PICK c : c = Head(commands)
  OBVIOUS
<1>1. /\ commands' \in Seq(CommandType) /\ SubscribersNamed'
      /\ c \in CommandType /\ (c.op = "subscribe" => c.by \in Observers)
  BY CommandTaken DEF RefuseCommand
<1>2. c.op = "subscribe" => Reply("refused", c.by) \in ReplyType
  BY <1>1 DEF Reply, ReplyType, AnswerType
<1>3. replies' \in Seq(ReplyType)
  <2>1. replies \in Seq(ReplyType)
    BY DEF TypeInv
  <2>2. CASE c.op = "subscribe" /\ replies' = Append(replies, Reply("refused", c.by))
    BY <1>2, <2>1, <2>2, Appended
  <2>3. CASE replies' = replies
    BY <2>1, <2>3
  <2>4. QED
    BY <2>2, <2>3 DEF RefuseCommand
<1>4. refused' \subseteq Runs
  BY <1>1 DEF RefuseCommand, TypeInv, CommandType
<1>5. QED
  BY <1>1, <1>3, <1>4 DEF RefuseCommand, TypeInv

LEMMA ObserveTyped ==
  ASSUME TypeInv, NEW o \in Observers, Observe(o)
  PROVE  TypeInv'
<1>1. observers' \in [Observers -> Observer] /\ observers[o].run \in Runs
  BY ObserveMoves, RecordParts
<1>2. CASE /\ subjects' = [subjects EXCEPT ![observers[o].run] = o]
           /\ commands' = Append(commands, Command("subscribe", observers[o].run, o))
  <2>1. subjects' \in [Runs -> Absent]
    BY <1>2 DEF TypeInv, Absent
  <2>2. commands' \in Seq(CommandType) /\ SubscribersNamed'
    BY <1>1, <1>2, CommandSent DEF Absent
  <2>3. QED
    BY <1>1, <2>1, <2>2 DEF Observe, TypeInv
<1>3. CASE UNCHANGED <<subjects, commands>>
  BY <1>1, <1>3 DEF Observe, TypeInv, SubscribersNamed
<1>4. QED
  BY <1>2, <1>3, ObserveMoves

LEMMA ReadTyped ==
  ASSUME TypeInv, Read
  PROVE  TypeInv'
<1>1. /\ replies # <<>> /\ replies' = Tail(replies)
      /\ UNCHANGED <<published, subscribed, running, refused, unheard>>
  BY ReadCases
<1>2. replies' \in Seq(ReplyType)
  BY <1>1, Removed DEF TypeInv
<1>3. ASSUME NEW r \in Runs, NEW n \in Nat \ {0}, ReadIgnored(r, n)
      PROVE  TypeInv'
  BY <1>1, <1>2, <1>3 DEF ReadIgnored, TypeInv, SubscribersNamed
<1>4. ASSUME NEW r \in Runs, NEW n \in Nat \ {0}, ReadEnd(r, n)
      PROVE  TypeInv'
  <2>1. subjects[r] \in Observers /\ subjects' \in [Runs -> Absent]
    BY <1>4, SubjectEnds DEF ReadEnd, TypeInv, Absent
  <2>2. commands' \in Seq(CommandType) /\ SubscribersNamed'
    BY <1>4, SubjectEnds, CommandSent DEF Absent
  <2>3. observers' \in [Observers -> Observer] /\ ended' = ended \cup {subjects[r]}
    BY <1>4, SubjectEnds
  <2>4. QED
    BY <1>1, <1>2, <2>1, <2>2, <2>3 DEF TypeInv
<1>5. ASSUME NEW r \in Runs, NEW n \in Nat \ {0}, ReadEvent(r, n)
      PROVE  TypeInv'
  <2>1. observers' \in [Observers -> Observer]
    BY <1>5, Delivered DEF ReadEvent
  <2>2. QED
    BY <1>1, <1>2, <1>5, <2>1 DEF ReadEvent, TypeInv, SubscribersNamed
<1>6. ASSUME NEW o \in Observers, ReadAnswer(o)
      PROVE  TypeInv'
  <2>1. observers' \in [Observers -> Observer]
    BY <1>6, AnswerMoves
  <2>2. QED
    BY <1>1, <1>2, <1>6, <2>1 DEF ReadAnswer, TypeInv, SubscribersNamed
<1>7. QED
  BY <1>3, <1>4, <1>5, <1>6, ReadCases

LEMMA ShutdownTyped ==
  ASSUME TypeInv, Shutdown
  PROVE  TypeInv'
<1>1. observers' \in [Observers -> Observer]
  BY ShutdownMoves
<1>2. ended' \subseteq Observers /\ subjects' \in [Runs -> Absent]
  BY DEF Shutdown, TypeInv, Absent
<1>3. QED
  BY <1>1, <1>2 DEF Shutdown, TypeInv, SubscribersNamed

LEMMA TypeInit == Init => TypeInv
<1> SUFFICES ASSUME Init PROVE TypeInv
  OBVIOUS
<1>1. (CHOOSE r \in Runs : TRUE) \in Runs
  BY RunsAssumption
<1>2. observers \in [Observers -> Observer]
  BY <1>1 DEF Init, Observer, States
<1>3. QED
  BY <1>2 DEF Init, TypeInv, SubscribersNamed, Absent

LEMMA TypeStep == TypeInv /\ [Next]_vars => TypeInv'
<1> SUFFICES ASSUME TypeInv, [Next]_vars PROVE TypeInv'
  OBVIOUS
<1>1. CASE UNCHANGED vars
  BY <1>1 DEF vars, TypeInv, SubscribersNamed
<1>2. ASSUME NEW o \in Observers, NEW r \in Runs, Authorise(o, r)
      PROVE  TypeInv'
  BY <1>2, AuthoriseMoves DEF Authorise, TypeInv, SubscribersNamed
<1>3. ASSUME NEW o \in Observers, Attach(o)
      PROVE  TypeInv'
  BY <1>3, AttachMoves DEF Attach, TypeInv, SubscribersNamed
<1>4. ASSUME NEW o \in Observers, Disconnect(o)
      PROVE  TypeInv'
  BY <1>4, DisconnectMoves DEF Disconnect, TypeInv, SubscribersNamed
<1>5. QED
  BY <1>1, <1>2, <1>3, <1>4, PublishTyped, ExecuteCommandTyped, RefuseCommandTyped,
     ObserveTyped, ReadTyped, ShutdownTyped DEF Next

\* Every variable keeps its type, however many clients observe however many runs.
THEOREM TypeCorrect == Spec => []TypeOK
<1>1. TypeInv => TypeOK
  BY DEF TypeInv, TypeOK, Absent, CommandType, ReplyType, MessageType, AnswerType
<1>2. QED
  BY <1>1, TypeInit, TypeStep, PTL DEF Spec

-----------------------------------------------------------------------------
(* Subscriptions.  What the connection will be subscribed to is not changed*)
(* by the execution of a command, only by the sending of one.              *)

LEMMA CommandsShift ==
  ASSUME TypeInv, commands # <<>>, commands' = Tail(commands), NEW r \in Runs
  PROVE  /\ \A i \in Pending(r)' :
              i \in Nat \ {0} /\ i + 1 \in Pending(r) /\ commands'[i] = commands[i + 1]
         /\ \A i \in Pending(r) :
              i \in Nat /\ (i = 1 \/ i - 1 \in Pending(r)')
         /\ 1 \in Pending(r) <=> Head(commands).run = r
         /\ commands[1] = Head(commands)
<1>1. /\ Len(commands) \in Nat /\ Len(commands) >= 1
      /\ DOMAIN commands = 1..Len(commands)
      /\ DOMAIN commands' = 1..(Len(commands) - 1)
      /\ \A i \in 1..(Len(commands) - 1) : commands'[i] = commands[i + 1]
      /\ Head(commands) = commands[1]
  BY Removed DEF TypeInv
<1>2. \A i \in Pending(r)' :
        i \in Nat \ {0} /\ i + 1 \in Pending(r) /\ commands'[i] = commands[i + 1]
  BY <1>1 DEF Pending
<1>3. \A i \in Pending(r) : i \in Nat /\ (i = 1 \/ i - 1 \in Pending(r)')
  BY <1>1 DEF Pending
<1>4. 1 \in Pending(r) <=> Head(commands).run = r
  BY <1>1 DEF Pending
<1>5. QED
  BY <1>1, <1>2, <1>3, <1>4

\* What is sent last decides, and a command that is taken from the connection is last
\* only if no other for its run is on its way.
LEMMA TakenWanted ==
  ASSUME TypeInv, commands # <<>>, commands' = Tail(commands), NEW r \in Runs
  PROVE  /\ Pending(r)' # {} => (WillBeSubscribed(r)' <=> WillBeSubscribed(r)) /\ Pending(r) # {}
         /\ Pending(r)' = {} /\ Head(commands).run = r =>
              /\ WillBeSubscribed(r) <=> Head(commands).op = "subscribe"
              /\ Pending(r) # {}
         /\ Pending(r)' = {} /\ Head(commands).run # r => Pending(r) = {}
<1>1. ASSUME Pending(r)' # {}
      PROVE  (WillBeSubscribed(r)' <=> WillBeSubscribed(r)) /\ Pending(r) # {}
  <2>1. PICK j : j \in Pending(r)'
    BY <1>1
  <2>2. j \in Nat \ {0} /\ j + 1 \in Pending(r)
    BY <2>1, CommandsShift
  <2>3. ASSUME WillBeSubscribed(r)'
        PROVE  WillBeSubscribed(r)
    <3>1. PICK i \in Pending(r)' :
            commands'[i].op = "subscribe" /\ \A k \in Pending(r)' : k <= i
      BY <1>1, <2>3 DEF WillBeSubscribed
    <3>2. i \in Nat /\ i + 1 \in Pending(r) /\ commands[i + 1].op = "subscribe"
      BY <3>1, CommandsShift
    <3>3. \A k \in Pending(r) : k <= i + 1
      BY <3>1, <3>2, CommandsShift
    <3>4. QED
      BY <3>2, <3>3 DEF WillBeSubscribed
  <2>4. ASSUME WillBeSubscribed(r)
        PROVE  WillBeSubscribed(r)'
    <3>1. PICK i \in Pending(r) :
            commands[i].op = "subscribe" /\ \A k \in Pending(r) : k <= i
      BY <2>2, <2>4 DEF WillBeSubscribed
    <3>2. i \in Nat /\ j + 1 <= i /\ i # 1
      <4>1. i \in Nat
        BY <3>1, CommandsShift
      <4>2. QED
        BY <2>2, <3>1, <4>1
    <3>3. i - 1 \in Pending(r)'
      BY <3>1, <3>2, CommandsShift
    <3>4. commands'[i - 1].op = "subscribe"
      <4>1. commands'[i - 1] = commands[(i - 1) + 1]
        BY <3>3, CommandsShift
      <4>2. (i - 1) + 1 = i
        BY <3>2
      <4>3. QED
        BY <3>1, <4>1, <4>2
    <3>5. ASSUME NEW k \in Pending(r)'
          PROVE  k <= i - 1
      <4>1. k \in Nat /\ k + 1 \in Pending(r)
        BY CommandsShift
      <4>2. k + 1 <= i
        BY <3>1, <4>1
      <4>3. QED
        BY <3>2, <4>1, <4>2
    <3>6. QED
      BY <3>3, <3>4, <3>5 DEF WillBeSubscribed
  <2>5. QED
    BY <2>2, <2>3, <2>4
<1>2. ASSUME Pending(r)' = {}
      PROVE  \A i \in Pending(r) : i = 1
  BY <1>2, CommandsShift
<1>3. ASSUME Pending(r)' = {}, Head(commands).run = r
      PROVE  /\ WillBeSubscribed(r) <=> Head(commands).op = "subscribe"
             /\ Pending(r) # {}
  <2>1. 1 \in Pending(r) /\ commands[1] = Head(commands)
    BY <1>3, CommandsShift
  <2>2. QED
    BY <1>2, <1>3, <2>1 DEF WillBeSubscribed
<1>4. ASSUME Pending(r)' = {}, Head(commands).run # r
      PROVE  Pending(r) = {}
  BY <1>2, <1>4, CommandsShift
<1>5. QED
  BY <1>1, <1>3, <1>4

LEMMA SentWanted ==
  ASSUME TypeInv, NEW op \in {"subscribe", "unsubscribe"}, NEW r \in Runs, NEW by \in Absent,
         commands' = Append(commands, Command(op, r, by)), subscribed' = subscribed,
         NEW s \in Runs
  PROVE  /\ s = r => (WillBeSubscribed(s)' <=> op = "subscribe")
         /\ s # r => /\ WillBeSubscribed(s)' <=> WillBeSubscribed(s)
                     /\ Pending(s)' = Pending(s)
<1>1. Command(op, r, by) \in CommandType /\ commands \in Seq(CommandType)
  BY DEF Command, CommandType, TypeInv
<1>2. /\ DOMAIN commands' = 1..(Len(commands) + 1)
      /\ DOMAIN commands = 1..Len(commands) /\ Len(commands) \in Nat
      /\ \A i \in 1..Len(commands) : commands'[i] = commands[i]
      /\ commands'[Len(commands) + 1] = Command(op, r, by)
  BY <1>1, Appended
<1>3. Command(op, r, by).run = r /\ Command(op, r, by).op = op
  BY DEF Command
<1>4. ASSUME s = r
      PROVE  WillBeSubscribed(s)' <=> op = "subscribe"
  <2>1. /\ Len(commands) + 1 \in Pending(s)'
        /\ \A i \in Pending(s)' : i \in 1..(Len(commands) + 1)
    BY <1>2, <1>3, <1>4 DEF Pending
  <2>2. ASSUME WillBeSubscribed(s)'
        PROVE  op = "subscribe"
    <3>1. PICK i \in Pending(s)' :
            commands'[i].op = "subscribe" /\ \A k \in Pending(s)' : k <= i
      BY <2>1, <2>2 DEF WillBeSubscribed
    <3>2. i = Len(commands) + 1
      BY <1>2, <2>1, <3>1
    <3>3. QED
      BY <1>2, <1>3, <3>1, <3>2
  <2>3. ASSUME op = "subscribe"
        PROVE  WillBeSubscribed(s)'
    <3>1. commands'[Len(commands) + 1].op = "subscribe"
      BY <1>2, <1>3, <2>3
    <3>2. \A k \in Pending(s)' : k <= Len(commands) + 1
      BY <1>2, <2>1
    <3>3. QED
      BY <2>1, <3>1, <3>2 DEF WillBeSubscribed
  <2>4. QED
    BY <2>2, <2>3
<1>5. ASSUME s # r
      PROVE  (WillBeSubscribed(s)' <=> WillBeSubscribed(s)) /\ Pending(s)' = Pending(s)
  <2>1. Pending(s)' = Pending(s) /\ \A i \in Pending(s) : commands'[i] = commands[i]
    BY <1>2, <1>3, <1>5 DEF Pending
  <2>2. QED
    BY <1>5, <2>1 DEF WillBeSubscribed
<1>6. QED
  BY <1>4, <1>5

\* The connection follows the map as far as this run goes.
InStep(r) ==
  \/ WillBeSubscribed(r) <=> subjects[r] # NoObserver
  \/ r \in refused /\ Pending(r) = {}

LEMMA InStepStays ==
  ASSUME NEW r \in Runs, InStep(r), Pending(r)' = Pending(r),
         WillBeSubscribed(r)' <=> WillBeSubscribed(r),
         subjects'[r] = subjects[r], r \in refused => r \in refused'
  PROVE  InStep(r)'
BY DEF InStep

LEMMA ExecuteInStep ==
  ASSUME TypeInv, ExecuteCommand, NEW r \in Runs, InStep(r)
  PROVE  InStep(r)'
<1> PICK c : c = Head(commands)
  OBVIOUS
<1>1. /\ c \in CommandType /\ commands # <<>> /\ commands' = Tail(commands)
      /\ subjects' = subjects /\ refused' = refused \ {c.run}
  BY CommandTaken DEF ExecuteCommand
<1>2. CASE Pending(r)' # {}
  BY <1>1, <1>2, TakenWanted DEF InStep
<1>3. CASE Pending(r)' = {} /\ c.run = r
  <2>1. (WillBeSubscribed(r) <=> c.op = "subscribe") /\ Pending(r) # {}
    BY <1>1, <1>3, TakenWanted
  <2>2. r \in subscribed' <=> c.op = "subscribe"
    BY <1>1, <1>3 DEF ExecuteCommand, CommandType
  <2>3. WillBeSubscribed(r)' <=> r \in subscribed'
    BY <1>3 DEF WillBeSubscribed
  <2>4. QED
    BY <1>1, <2>1, <2>2, <2>3 DEF InStep
<1>4. CASE Pending(r)' = {} /\ c.run # r
  <2>1. Pending(r) = {} /\ (r \in subscribed' <=> r \in subscribed)
    BY <1>1, <1>4, TakenWanted DEF ExecuteCommand
  <2>2. WillBeSubscribed(r)' <=> WillBeSubscribed(r)
    BY <1>4, <2>1 DEF WillBeSubscribed
  <2>3. QED
    BY <1>1, <1>4, <2>1, <2>2 DEF InStep
<1>5. QED
  BY <1>2, <1>3, <1>4

LEMMA RefuseInStep ==
  ASSUME TypeInv, RefuseCommand, NEW r \in Runs, InStep(r)
  PROVE  InStep(r)'
<1> PICK c : c = Head(commands)
  OBVIOUS
<1>1. /\ commands # <<>> /\ commands' = Tail(commands)
      /\ UNCHANGED <<subjects, subscribed>> /\ refused' = refused \cup {c.run}
  BY DEF RefuseCommand
<1>2. CASE Pending(r)' # {}
  BY <1>1, <1>2, TakenWanted DEF InStep
<1>3. CASE Pending(r)' = {} /\ c.run = r
  BY <1>1, <1>3 DEF InStep
<1>4. CASE Pending(r)' = {} /\ c.run # r
  <2>1. Pending(r) = {}
    BY <1>1, <1>4, TakenWanted
  <2>2. WillBeSubscribed(r)' <=> WillBeSubscribed(r)
    BY <1>1, <1>4, <2>1 DEF WillBeSubscribed
  <2>3. QED
    BY <1>1, <1>4, <2>1, <2>2 DEF InStep
<1>5. QED
  BY <1>2, <1>3, <1>4

\* A Subject is made or ended, and the command for it sent.
LEMMA SentInStep ==
  ASSUME TypeInv, NEW op \in {"subscribe", "unsubscribe"}, NEW run \in Runs,
         NEW by \in Absent, NEW s,
         commands' = Append(commands, Command(op, run, by)),
         subjects' = [subjects EXCEPT ![run] = s],
         op = "subscribe" <=> s # NoObserver,
         UNCHANGED <<subscribed, refused>>, NEW r \in Runs, InStep(r)
  PROVE  InStep(r)'
<1>1. CASE r = run
  <2>1. subjects'[r] = s
    BY <1>1 DEF TypeInv
  <2>2. WillBeSubscribed(r)' <=> op = "subscribe"
    BY <1>1, SentWanted
  <2>3. QED
    BY <2>1, <2>2 DEF InStep
<1>2. CASE r # run
  <2>1. subjects'[r] = subjects[r]
    BY <1>2 DEF TypeInv
  <2>2. (WillBeSubscribed(r)' <=> WillBeSubscribed(r)) /\ Pending(r)' = Pending(r)
    BY <1>2, SentWanted
  <2>3. QED
    BY <2>1, <2>2, InStepStays
<1>3. QED
  BY <1>1, <1>2

LEMMA FollowsStep ==
  TypeInv /\ SubscriptionFollowsSubject /\ [Next]_vars => SubscriptionFollowsSubject'
<1> SUFFICES ASSUME TypeInv, SubscriptionFollowsSubject, [Next]_vars, running', NEW r \in Runs
             PROVE  InStep(r)'
  BY DEF SubscriptionFollowsSubject, InStep
<1>1. running => InStep(r)
  BY DEF SubscriptionFollowsSubject, InStep
<1>2. CASE UNCHANGED <<commands, subscribed, subjects, refused, running>>
  BY <1>1, <1>2 DEF InStep, WillBeSubscribed, Pending
<1>3. CASE ExecuteCommand
  BY <1>1, <1>3, ExecuteInStep DEF ExecuteCommand
<1>4. CASE RefuseCommand
  BY <1>1, <1>4, RefuseInStep DEF RefuseCommand
<1>5. ASSUME NEW o \in Observers, Observe(o)
      PROVE  InStep(r)'
  <2>1. PICK run \in Runs : run = observers[o].run
    BY RecordParts
  <2>2. CASE UNCHANGED <<commands, subjects>>
    BY <1>2, <1>5, <2>2 DEF Observe
  <2>3. CASE /\ subjects' = [subjects EXCEPT ![run] = o]
             /\ commands' = Append(commands, Command("subscribe", run, o))
    BY <1>1, <1>5, <2>3, SentInStep, ObserverAssumption DEF Observe, Absent
  <2>4. QED
    BY <1>5, <2>1, <2>2, <2>3, ObserveMoves
<1>6. CASE Read
  <2>1. UNCHANGED <<subscribed, running, refused>>
    BY <1>6, ReadCases
  <2>2. ASSUME NEW run \in Runs, NEW n, ReadEnd(run, n)
        PROVE  InStep(r)'
    <3>1. /\ commands' = Append(commands, Command("unsubscribe", run, NoObserver))
          /\ subjects' = [subjects EXCEPT ![run] = NoObserver]
      BY <2>2, SubjectEnds
    <3>2. QED
      BY <1>1, <2>1, <3>1, SentInStep DEF Absent
  <2>3. CASE UNCHANGED <<subjects, commands>>
    BY <1>2, <2>1, <2>3
  <2>4. QED
    BY <1>6, <2>2, <2>3, ReadCases DEF ReadIgnored, ReadEvent, ReadAnswer
<1>7. CASE Shutdown
  BY <1>7 DEF Shutdown
<1>8. CASE UNCHANGED vars
  BY <1>2, <1>8 DEF vars
<1>9. QED
  BY <1>2, <1>3, <1>4, <1>5, <1>6, <1>7, <1>8
  DEF Next, Publish, Authorise, Attach, Disconnect

\* Whatever order clients come and ends of streams are handled in, and however many
\* commands are on their way at once: the channels that the connection is subscribed
\* to once they are executed are those of the runs in the map, save where Redis
\* refused the last command for a run.
THEOREM ConnectionFollows == Spec => []SubscriptionFollowsSubject
<1>1. Init => SubscriptionFollowsSubject
  BY DEF Init, SubscriptionFollowsSubject, WillBeSubscribed, Pending
<1>2. TypeInv /\ SubscriptionFollowsSubject /\ [Next]_vars =>
        TypeInv' /\ SubscriptionFollowsSubject'
  BY TypeStep, FollowsStep
<1>3. QED
  BY <1>1, <1>2, TypeInit, PTL DEF Spec

-----------------------------------------------------------------------------
(* Subjects: an observer observes the Subject of its run, one of the map or*)
(* one that has ended.                                                     *)

Attached(o) == observers[o].subject # NoObserver

Settled(o) ==
  /\ observers[o].state \in {"idle", "authorised"} => ~ Attached(o)
  /\ observers[o].state \in {"subscribing", "returned", "attached"} => Attached(o)
  /\ observers[o].state = "attached" => observers[o].subject \notin ended

OfItsRun(o) ==
  Attached(o) =>
    LET s == observers[o].subject IN
    observers[s].subject = s /\ observers[s].run = observers[o].run

InMap(o) ==
  Attached(o) /\ observers[o].subject \notin ended =>
    subjects[observers[o].run] = observers[o].subject

MapMatches ==
  \A r \in Runs : subjects[r] # NoObserver =>
    observers[subjects[r]].subject = subjects[r] /\ observers[subjects[r]].run = r

EndedMade == \A s \in ended : observers[s].subject = s

SubjectsMatch ==
  /\ \A o \in Observers : Settled(o) /\ OfItsRun(o) /\ InMap(o)
  /\ MapMatches
  /\ EndedMade

LEMMA ListenersOfRun ==
  ASSUME TypeInv, SubjectsMatch, NEW r \in Runs, subjects[r] # NoObserver,
         NEW o \in Observers
  PROVE  /\ o \in Listening(subjects[r]) => observers[o].run = r
         /\ observers[o].state = "attached" /\ observers[o].run = r =>
              o \in Listening(subjects[r])
  BY DEF SubjectsMatch, Settled, OfItsRun, InMap, MapMatches, Listening, Attached

\* What an observer observes is settled, and only Subjects of the map can go.
LEMMA MatchKept ==
  ASSUME TypeInv, SubjectsMatch, \A o \in Observers : SameFor(o),
         ended' \subseteq ended \cup ({subjects[r] : r \in Runs} \ {NoObserver}),
         \A r \in Runs :
           \/ subjects'[r] = subjects[r]
           \/ subjects'[r] = NoObserver /\ subjects[r] \in ended' \cup {NoObserver},
         ended \subseteq ended',
         \A o \in Observers : Settled(o)'
  PROVE  SubjectsMatch'
<1>1. ASSUME NEW o \in Observers
      PROVE  OfItsRun(o)' /\ InMap(o)'
  <2>1. observers[o].subject \in Absent /\ observers[o].run \in Runs
    BY RecordParts
  <2>2. OfItsRun(o)'
    BY <2>1 DEF SubjectsMatch, OfItsRun, Attached, SameFor, Absent
  <2>3. InMap(o)'
    BY <2>1 DEF SubjectsMatch, InMap, Attached, SameFor, Absent
  <2>4. QED
    BY <2>2, <2>3
<1>2. MapMatches'
  <2>1. SUFFICES ASSUME NEW r \in Runs, subjects'[r] # NoObserver
                 PROVE  /\ observers'[subjects'[r]].subject = subjects'[r]
                        /\ observers'[subjects'[r]].run = r
    BY DEF MapMatches
  <2>2. PICK s : s = subjects[r]
    OBVIOUS
  <2>3. subjects'[r] = s /\ s \in Observers
    BY <2>1, <2>2 DEF TypeInv, Absent
  <2>4. observers[s].subject = s /\ observers[s].run = r
    BY <2>2, <2>3, <2>1 DEF SubjectsMatch, MapMatches
  <2>5. QED
    BY <2>3, <2>4 DEF SameFor
<1>3. EndedMade'
  <2>1. ASSUME NEW s \in ended'
        PROVE  s \in Observers /\ observers[s].subject = s
    <3>1. CASE s \in ended
      BY <3>1 DEF SubjectsMatch, EndedMade, TypeInv
    <3>2. CASE s \notin ended
      <4>1. PICK r \in Runs : s = subjects[r] /\ s # NoObserver
        BY <2>1, <3>2
      <4>2. QED
        BY <4>1 DEF SubjectsMatch, MapMatches, TypeInv, Absent
    <3>3. QED
      BY <3>1, <3>2
  <2>2. QED
    BY <2>1 DEF EndedMade, SameFor
<1>4. QED
  BY <1>1, <1>2, <1>3 DEF SubjectsMatch

\* One observer's state moves on, and nothing else.
LEMMA MatchMoves ==
  ASSUME TypeInv, SubjectsMatch, NEW o \in Observers, SameFor(o),
         \A p \in Observers \ {o} : observers'[p] = observers[p],
         UNCHANGED <<subjects, ended>>, Settled(o)'
  PROVE  SubjectsMatch'
<1>1. \A p \in Observers : SameFor(p) /\ Settled(p)'
  BY DEF SameFor, SubjectsMatch, Settled, Attached
<1>2. QED
  BY <1>1, MatchKept

LEMMA ObserveMatches ==
  ASSUME TypeInv, SubjectsMatch, NEW o \in Observers, Observe(o)
  PROVE  SubjectsMatch'
<1> PICK run \in Runs : run = observers[o].run
  BY RecordParts
<1>1. ended' = ended /\ ~ Attached(o) /\ o # NoObserver
  BY ObserverAssumption DEF Observe, SubjectsMatch, Settled
<1>2. /\ \A p \in Observers \ {o} : observers'[p] = observers[p]
      /\ observers'[o].run = run
  BY ObserveMoves
<1>3. ASSUME NEW p \in Observers \ {o}, Attached(p)
      PROVE  observers[p].subject \in Observers \ {o}
  BY <1>1, <1>3, RecordParts DEF SubjectsMatch, OfItsRun, Attached, Absent
<1>4. \A r \in Runs : subjects[r] # o
  BY <1>1 DEF SubjectsMatch, MapMatches, Attached
<1>5. EndedMade' /\ o \notin ended
  BY <1>1, <1>2 DEF SubjectsMatch, EndedMade, Attached, TypeInv
<1>6. CASE /\ subjects[run] = NoObserver
           /\ subjects' = [subjects EXCEPT ![run] = o]
           /\ observers'[o].state = "subscribing" /\ observers'[o].subject = o
  <2>1. /\ subjects'[run] = o /\ \A r \in Runs \ {run} : subjects'[r] = subjects[r]
    BY <1>6 DEF TypeInv
  <2>2. ASSUME NEW p \in Observers
        PROVE  Settled(p)' /\ OfItsRun(p)' /\ InMap(p)'
    <3>1. CASE p = o
      BY <1>1, <1>2, <1>6, <2>1, <3>1 DEF Settled, OfItsRun, InMap, Attached
    <3>2. CASE p # o
      <4>1. Settled(p)'
        BY <1>1, <1>2, <3>2 DEF SubjectsMatch, Settled, Attached
      <4>2. OfItsRun(p)'
        BY <1>2, <1>3, <3>2 DEF SubjectsMatch, OfItsRun, Attached
      <4>3. InMap(p)'
        BY <1>1, <1>2, <1>6, <2>1, <3>2, RecordParts DEF SubjectsMatch, InMap, Attached
      <4>4. QED
        BY <4>1, <4>2, <4>3
    <3>3. QED
      BY <3>1, <3>2
  <2>3. MapMatches'
    BY <1>2, <1>4, <1>6, <2>1 DEF SubjectsMatch, MapMatches, TypeInv, Absent
  <2>4. QED
    BY <1>5, <2>2, <2>3 DEF SubjectsMatch
<1>7. CASE /\ subjects[run] # NoObserver /\ subjects' = subjects
           /\ observers'[o].state = "returned" /\ observers'[o].subject = subjects[run]
  <2>1. subjects[run] \in Observers \ {o}
    BY <1>4, <1>7 DEF TypeInv, Absent
  <2>2. ASSUME NEW p \in Observers
        PROVE  Settled(p)' /\ OfItsRun(p)' /\ InMap(p)'
    <3>1. CASE p = o
      BY <1>1, <1>2, <1>7, <2>1, <3>1
      DEF SubjectsMatch, MapMatches, Settled, OfItsRun, InMap, Attached
    <3>2. CASE p # o
      <4>1. Settled(p)' /\ InMap(p)'
        BY <1>1, <1>2, <1>7, <3>2 DEF SubjectsMatch, Settled, InMap, Attached
      <4>2. OfItsRun(p)'
        BY <1>2, <1>3, <3>2 DEF SubjectsMatch, OfItsRun, Attached
      <4>3. QED
        BY <4>1, <4>2
    <3>3. QED
      BY <3>1, <3>2
  <2>3. MapMatches'
    BY <1>2, <1>4, <1>7 DEF SubjectsMatch, MapMatches, TypeInv, Absent
  <2>4. QED
    BY <1>5, <2>2, <2>3 DEF SubjectsMatch
<1>8. QED
  BY <1>6, <1>7, ObserveMoves

\* The run of an observer that has no Subject yet is of no account.
LEMMA AuthoriseMatches ==
  ASSUME TypeInv, SubjectsMatch, NEW o \in Observers, NEW r \in Runs, Authorise(o, r)
  PROVE  SubjectsMatch'
<1>1. /\ UNCHANGED <<subjects, ended>>
      /\ observers[o].subject = NoObserver /\ o # NoObserver
  BY ObserverAssumption DEF Authorise, SubjectsMatch, Settled, Attached
<1>2. /\ \A p \in Observers \ {o} : observers'[p] = observers[p]
      /\ observers'[o].subject = NoObserver /\ observers'[o].state = "authorised"
  BY <1>1, AuthoriseMoves
<1>3. ASSUME NEW p \in Observers
      PROVE  Settled(p)' /\ OfItsRun(p)' /\ InMap(p)'
  <2>1. CASE p = o
    BY <1>2, <2>1 DEF Settled, OfItsRun, InMap, Attached
  <2>2. CASE p # o
    <3>1. observers[p].subject \in Absent /\ observers'[p] = observers[p]
      BY <1>2, <2>2, RecordParts
    <3>2. Attached(p) => observers[p].subject \in Observers \ {o}
      BY <1>1, <3>1 DEF SubjectsMatch, OfItsRun, Attached, Absent
    <3>3. QED
      BY <1>1, <1>2, <3>1, <3>2 DEF SubjectsMatch, Settled, OfItsRun, InMap, Attached
  <2>3. QED
    BY <2>1, <2>2
<1>4. MapMatches' /\ EndedMade'
  BY <1>1, <1>2 DEF SubjectsMatch, MapMatches, EndedMade, TypeInv, Absent
<1>5. QED
  BY <1>3, <1>4 DEF SubjectsMatch

LEMMA ReadMatches ==
  ASSUME TypeInv, SubjectsMatch, Read
  PROVE  SubjectsMatch'
<1>1. ASSUME NEW r \in Runs, NEW n \in Nat \ {0}, ReadIgnored(r, n)
      PROVE  SubjectsMatch'
  BY <1>1 DEF ReadIgnored, SubjectsMatch, Settled, OfItsRun, InMap, MapMatches, EndedMade,
              Attached
<1>2. ASSUME NEW r \in Runs, NEW n \in Nat \ {0}, ReadEnd(r, n)
      PROVE  SubjectsMatch'
  <2>1. /\ \A o \in Listening(subjects[r]) : observers'[o].state = "completed" /\ Quiet(o)
        /\ \A o \in Observers \ Listening(subjects[r]) : observers'[o] = observers[o]
        /\ ended' = ended \cup {subjects[r]}
        /\ subjects' = [subjects EXCEPT ![r] = NoObserver]
        /\ subjects[r] # NoObserver
    BY <1>2, SubjectEnds DEF ReadEnd
  <2>2. \A o \in Observers : SameFor(o)
    BY <2>1 DEF Quiet, SameFor
  <2>3. \A o \in Observers : Settled(o)'
    BY <2>1, <2>2 DEF SubjectsMatch, Settled, Attached, SameFor, Listening
  <2>4. \A x \in Runs :
          \/ subjects'[x] = subjects[x]
          \/ subjects'[x] = NoObserver /\ subjects[x] \in ended' \cup {NoObserver}
    BY <2>1 DEF TypeInv
  <2>5. QED
    BY <2>1, <2>2, <2>3, <2>4, MatchKept
<1>3. ASSUME NEW r \in Runs, NEW n \in Nat \ {0}, ReadEvent(r, n)
      PROVE  SubjectsMatch'
  <2>1. \A o \in Observers : SameFor(o) /\ observers'[o].state = observers[o].state
    BY <1>3, Delivered DEF ReadEvent, SameFor
  <2>2. \A o \in Observers : Settled(o)'
    BY <1>3, <2>1 DEF ReadEvent, SubjectsMatch, Settled, Attached, SameFor
  <2>3. QED
    BY <1>3, <2>1, <2>2, MatchKept DEF ReadEvent
<1>4. ASSUME NEW o \in Observers, ReadAnswer(o)
      PROVE  SubjectsMatch'
  <2>1. Settled(o)'
    BY <1>4, AnswerMoves DEF ReadAnswer, SubjectsMatch, Settled, Attached, Quiet, SameFor
  <2>2. QED
    BY <1>4, <2>1, AnswerMoves, MatchMoves DEF ReadAnswer, Quiet
<1>5. QED
  BY <1>1, <1>2, <1>3, <1>4, ReadCases

LEMMA ShutdownMatches ==
  ASSUME TypeInv, SubjectsMatch, Shutdown
  PROVE  SubjectsMatch'
<1>1. /\ ended' = ended \cup ({subjects[r] : r \in Runs} \ {NoObserver})
      /\ subjects' = [r \in Runs |-> NoObserver]
  BY DEF Shutdown
<1>2. \A o \in Observers : SameFor(o)
  BY ShutdownMoves DEF Quiet
<1>3. ASSUME NEW o \in Observers
      PROVE  Settled(o)'
  <2>1. observers[o].state # "attached" => Settled(o)'
    BY <1>2, ShutdownMoves DEF SubjectsMatch, Settled, Attached, SameFor
  <2>2. CASE observers[o].state = "attached"
    <3>1. \E r \in Runs : o \in Listening(subjects[r])
      BY <2>2, RecordParts DEF SubjectsMatch, Settled, InMap, Attached, Listening
    <3>2. observers'[o] = [observers[o] EXCEPT !.state = "completed"]
      BY <2>2, <3>1 DEF Shutdown
    <3>3. observers[o] \in Observer
      BY DEF TypeInv
    <3>4. observers'[o].state = "completed"
      BY <3>2, <3>3 DEF Observer
    <3>5. QED
      BY <3>4 DEF Settled
  <2>3. QED
    BY <2>1, <2>2
<1>4. QED
  BY <1>1, <1>2, <1>3, MatchKept

LEMMA MatchStep == TypeInv /\ SubjectsMatch /\ [Next]_vars => SubjectsMatch'
<1> SUFFICES ASSUME TypeInv, SubjectsMatch, [Next]_vars PROVE SubjectsMatch'
  OBVIOUS
<1>1. CASE UNCHANGED <<observers, subjects, ended>>
  BY <1>1 DEF SubjectsMatch, Settled, OfItsRun, InMap, MapMatches, EndedMade, Attached
<1>2. ASSUME NEW o \in Observers, Attach(o)
      PROVE  SubjectsMatch'
  <2>1. Settled(o)'
    BY <1>2, AttachMoves DEF Attach, SubjectsMatch, Settled, Attached, Quiet, SameFor
  <2>2. QED
    BY <1>2, <2>1, AttachMoves, MatchMoves DEF Attach, Quiet
<1>3. ASSUME NEW o \in Observers, Disconnect(o)
      PROVE  SubjectsMatch'
  <2>1. Settled(o)'
    BY <1>3, DisconnectMoves DEF Settled
  <2>2. QED
    BY <1>3, <2>1, DisconnectMoves, MatchMoves DEF Disconnect, Quiet
<1>4. QED
  BY <1>1, <1>2, <1>3, ObserveMatches, AuthoriseMatches, ReadMatches, ShutdownMatches
  DEF Next, Publish, ExecuteCommand, RefuseCommand, vars

-----------------------------------------------------------------------------
(* Streams: a channel is given up only once an execution has ended the      *)
(* stream, and a Subject ends with such an end.                             *)

Ends(r) == Positions(r, "stream_end")

Unsubscribing ==
  \A i \in DOMAIN commands : commands[i].op = "unsubscribe" => Ended(commands[i].run)

EndedOver ==
  running => \A o \in Observers :
    Attached(o) /\ observers[o].subject \in ended => Ended(observers[o].run)

\* Once a message was heard the channel stays subscribed to until the stream has ended.
Covered(r) == r \in subscribed \/ Ended(r)
HeardOn(r) ==
  /\ unheard[r] \subseteq 1..Len(published[r])
  /\ \A m \in 1..Len(published[r]) : m \notin unheard[r] =>
       /\ Covered(r)
       /\ \A k \in 1..Len(published[r]) :
            m < k /\ k \in unheard[r] => \E e \in Ends(r) : e < k

\* The messages of a run that come in were published and heard, in that order, and
\* with one of them comes all that was heard after it.
InTransit(r, n) == \E i \in DOMAIN replies : replies[i] = Message(r, n)

Ordered(r) ==
  \A i, j \in DOMAIN replies : \A m, n \in Nat :
    i < j /\ replies[i] = Message(r, m) /\ replies[j] = Message(r, n) => m < n

InFlight(r) ==
  /\ \A n \in Nat : InTransit(r, n) => n \in 1..Len(published[r]) /\ n \notin unheard[r]
  /\ Ordered(r)
  /\ \A n \in Nat : InTransit(r, n) =>
       \A k \in (n + 1)..Len(published[r]) : InTransit(r, k) \/ k \in unheard[r]

StreamsInv ==
  Unsubscribing /\ EndedOver /\ \A r \in Runs : HeardOn(r) /\ InFlight(r)

LEMMA MessagesDiffer ==
  ASSUME NEW r, NEW n
  PROVE  /\ \A x, k : Message(x, k) = Message(r, n) => x = r /\ k = n
         /\ \A kind, o : kind # "message" => Reply(kind, o) # Message(r, n)
<1>1. ASSUME NEW x, NEW k, Message(x, k) = Message(r, n)
      PROVE  x = r /\ k = n
  <2>1. Message(x, k).run = x /\ Message(x, k).at = k
    BY DEF Message
  <2>2. Message(r, n).run = r /\ Message(r, n).at = n
    BY DEF Message
  <2>3. QED
    BY <1>1, <2>1, <2>2
<1>2. ASSUME NEW kind, NEW o, kind # "message"
      PROVE  Reply(kind, o) # Message(r, n)
  <2>1. Reply(kind, o).kind = kind /\ Message(r, n).kind = "message"
    BY DEF Reply, Message
  <2>2. QED
    BY <1>2, <2>1
<1>3. QED
  BY <1>1, <1>2

\* A published message stays where it is, heard or not.
Grows(r) ==
  /\ Len(published[r]) \in Nat /\ Len(published'[r]) \in Nat
  /\ DOMAIN published[r] = 1..Len(published[r])
  /\ DOMAIN published'[r] = 1..Len(published'[r])
  /\ Len(published[r]) <= Len(published'[r])
  /\ \A i \in 1..Len(published[r]) :
       /\ published'[r][i] = published[r][i]
       /\ i \in unheard'[r] <=> i \in unheard[r]

LEMMA SameGrows ==
  ASSUME TypeInv, NEW r \in Runs, published'[r] = published[r], unheard'[r] = unheard[r]
  PROVE  Grows(r)
<1>1. published[r] \in Seq(Kinds)
  BY DEF TypeInv
<1>2. QED
  BY <1>1 DEF Grows

LEMMA PublishedOrNot ==
  ASSUME TypeInv, [Next]_vars, NEW r \in Runs
  PROVE  \/ \E kind \in Kinds : Publish(r, kind)
         \/ published'[r] = published[r] /\ unheard'[r] = unheard[r]
<1>1. ASSUME NEW x \in Runs, NEW kind \in Kinds, Publish(x, kind), x # r
      PROVE  published'[r] = published[r] /\ unheard'[r] = unheard[r]
  BY <1>1, PublishMoves
<1>2. \/ \E x \in Runs, kind \in Kinds : Publish(x, kind)
      \/ UNCHANGED <<published, unheard>>
  BY ReadCases
  DEF Next, ExecuteCommand, RefuseCommand, Authorise, Observe, Attach, Disconnect,
      Shutdown, vars
<1>3. QED
  BY <1>1, <1>2

LEMMA PublishedStays ==
  ASSUME TypeInv, [Next]_vars, NEW r \in Runs
  PROVE  Grows(r)
<1>1. ASSUME NEW kind \in Kinds, Publish(r, kind)
      PROVE  Grows(r)
  <2>1. PICK n : n = Len(published[r]) + 1
    OBVIOUS
  <2>2. /\ published[r] \in Seq(Kinds) /\ published'[r] = Append(published[r], kind)
        /\ unheard'[r] \in {unheard[r], unheard[r] \cup {n}}
    BY <1>1, <2>1, PublishMoves DEF TypeInv
  <2>3. /\ Len(published'[r]) = n /\ DOMAIN published'[r] = 1..n
        /\ DOMAIN published[r] = 1..Len(published[r]) /\ Len(published[r]) \in Nat
        /\ \A i \in 1..Len(published[r]) : published'[r][i] = published[r][i]
    BY <2>1, <2>2, Appended
  <2>4. n \notin 1..Len(published[r])
    BY <2>1, <2>3
  <2>5. \A i \in 1..Len(published[r]) : i \in unheard'[r] <=> i \in unheard[r]
    BY <2>2, <2>4
  <2>6. QED
    BY <2>1, <2>3, <2>5 DEF Grows
<1>2. QED
  BY <1>1, PublishedOrNot, SameGrows

LEMMA EndedStays ==
  ASSUME TypeInv, [Next]_vars, NEW r \in Runs
  PROVE  /\ \A kind : \A n \in Positions(r, kind) :
              n \in 1..Len(published[r]) /\ n \in Positions(r, kind)'
         /\ Ended(r) => Ended(r)'
<1>1. Grows(r)
  BY PublishedStays
<1>2. \A kind : \A n \in Positions(r, kind) :
        n \in 1..Len(published[r]) /\ n \in Positions(r, kind)'
  BY <1>1 DEF Grows, Positions
<1>3. QED
  BY <1>2 DEF Ended

LEMMA EndedOverStep ==
  ASSUME TypeInv, SubjectsMatch, EndedOver, \A r \in Runs : InFlight(r), [Next]_vars
  PROVE  EndedOver'
<1> SUFFICES ASSUME running', NEW o \in Observers, Attached(o)',
                    observers'[o].subject \in ended'
             PROVE  \E q \in Runs : observers'[o].run = q /\ Ended(q)'
  BY DEF EndedOver, Ended, Positions
<1> PICK run \in Runs : run = observers[o].run
  BY RecordParts
<1>1. ASSUME SameFor(o), Attached(o), observers[o].subject \in ended, running
      PROVE  \E q \in Runs : observers'[o].run = q /\ Ended(q)'
  <2>1. Ended(run) /\ observers'[o].run = run
    BY <1>1 DEF EndedOver, SameFor
  <2>2. QED
    BY <2>1, EndedStays
<1>2. CASE SameFor(o) /\ ended' = ended /\ running' = running
  BY <1>1, <1>2 DEF SameFor, Attached
<1>3. ASSUME NEW p \in Observers, Observe(p)
      PROVE  \E q \in Runs : observers'[o].run = q /\ Ended(q)'
  <2>1. CASE p # o
    BY <1>2, <1>3, <2>1, ObserveMoves DEF Observe, SameFor
  <2>2. CASE p = o
    <3>1. /\ ended' = ended /\ ~ Attached(o) /\ o # NoObserver
          /\ running /\ observers'[o].run = run
      BY <1>3, <2>2, ObserverAssumption, ObserveMoves DEF Observe, SubjectsMatch, Settled
    <3>2. o \notin ended
      BY <3>1 DEF SubjectsMatch, EndedMade, Attached
    <3>3. PICK s : s = subjects[run]
      OBVIOUS
    <3>4. s # NoObserver /\ observers'[o].subject = s
      BY <1>3, <2>2, <3>1, <3>2, <3>3, ObserveMoves
    <3>5. s \in Observers /\ observers[s].subject = s /\ observers[s].run = run /\ s \in ended
      BY <3>1, <3>3, <3>4 DEF SubjectsMatch, MapMatches, TypeInv, Absent
    <3>6. Ended(run)
      BY <3>1, <3>4, <3>5 DEF EndedOver, Attached
    <3>7. QED
      BY <3>1, <3>6, EndedStays
  <2>3. QED
    BY <2>1, <2>2
<1>4. ASSUME NEW r \in Runs, NEW n \in Nat \ {0},
             replies # <<>>, Head(replies) = Message(r, n), ReadEnd(r, n),
             running' = running
      PROVE  \E q \in Runs : observers'[o].run = q /\ Ended(q)'
  <2>1. SameFor(o) /\ ended' = ended \cup {subjects[r]} /\ subjects[r] # NoObserver
    BY <1>4, SubjectEnds DEF ReadEnd, SameFor, Quiet
  <2>2. CASE observers[o].subject \in ended
    BY <1>1, <1>4, <2>1, <2>2 DEF SameFor, Attached
  <2>3. CASE observers[o].subject = subjects[r]
    <3>1. run = r
      BY <2>1, <2>3 DEF SubjectsMatch, OfItsRun, MapMatches, Attached
    <3>2. n \in 1..Len(published[r])
      <4>1. InTransit(r, n)
        <5>1. replies \in Seq(ReplyType)
          BY DEF TypeInv
        <5>2. 1 \in DOMAIN replies /\ replies[1] = Message(r, n)
          BY <1>4, <5>1, Removed
        <5>3. QED
          BY <5>2 DEF InTransit
      <4>2. QED
        BY <4>1 DEF InFlight
    <3>3. Ended(r)
      BY <1>4, <3>2, PublishedStays DEF ReadEnd, Ended, Positions, Grows
    <3>4. QED
      BY <2>1, <3>1, <3>3, EndedStays DEF SameFor
  <2>4. QED
    BY <2>1, <2>2, <2>3 DEF SameFor
<1>5. ASSUME Read
      PROVE  \E q \in Runs : observers'[o].run = q /\ Ended(q)'
  <2>1. ASSUME NEW r \in Runs, NEW n \in Nat \ {0}, ReadEvent(r, n),
               running' = running
        PROVE  \E q \in Runs : observers'[o].run = q /\ Ended(q)'
    <3>1. SameFor(o)
      BY <2>1, Delivered DEF ReadEvent, SameFor
    <3>2. QED
      BY <1>2, <2>1, <3>1 DEF ReadEvent
  <2>2. ASSUME NEW p \in Observers, ReadAnswer(p), running' = running
        PROVE  \E q \in Runs : observers'[o].run = q /\ Ended(q)'
    BY <1>2, <2>2, AnswerMoves DEF ReadAnswer, Quiet, SameFor
  <2>3. ASSUME NEW r \in Runs, NEW n \in Nat \ {0}, ReadIgnored(r, n),
               running' = running
        PROVE  \E q \in Runs : observers'[o].run = q /\ Ended(q)'
    BY <1>2, <2>3 DEF ReadIgnored, SameFor
  <2>4. QED
    BY <1>4, <1>5, <2>1, <2>2, <2>3, ReadCases
<1>6. ASSUME NEW p \in Observers, NEW r \in Runs, Authorise(p, r)
      PROVE  \E q \in Runs : observers'[o].run = q /\ Ended(q)'
  <2>1. p # o
    BY <1>6, AuthoriseMoves DEF Authorise, SubjectsMatch, Settled, Attached
  <2>2. QED
    BY <1>2, <1>6, <2>1, AuthoriseMoves DEF Authorise, SameFor
<1>7. ASSUME NEW p \in Observers, Attach(p) \/ Disconnect(p)
      PROVE  \E q \in Runs : observers'[o].run = q /\ Ended(q)'
  BY <1>2, <1>7, AttachMoves, DisconnectMoves DEF Attach, Disconnect, SameFor, Quiet
<1>8. CASE UNCHANGED <<observers, ended, running>>
  BY <1>2, <1>8 DEF SameFor
<1>9. QED
  BY <1>3, <1>5, <1>6, <1>7, <1>8
  DEF Next, Publish, ExecuteCommand, RefuseCommand, Shutdown, vars

-----------------------------------------------------------------------------
(* Messages on their way.                                                  *)

LEMMA HeadTaken ==
  ASSUME TypeInv, replies # <<>>, replies' = Tail(replies), NEW r \in Runs
  PROVE  /\ \A n \in Nat : InTransit(r, n)' => InTransit(r, n)
         /\ \A n \in Nat : InTransit(r, n) /\ Head(replies) # Message(r, n) =>
              InTransit(r, n)'
         /\ \A m, n \in Nat : Ordered(r) /\ Head(replies) = Message(r, m) /\ InTransit(r, n)' =>
              m < n
         /\ \A m, n \in Nat : Ordered(r) /\ Head(replies) = Message(r, m) /\ InTransit(r, n) =>
              m <= n
         /\ \A m \in Nat : Head(replies) = Message(r, m) => InTransit(r, m)
         /\ Ordered(r) => Ordered(r)'
<1>1. /\ Len(replies) \in Nat /\ Len(replies) >= 1
      /\ DOMAIN replies = 1..Len(replies)
      /\ DOMAIN replies' = 1..(Len(replies) - 1)
      /\ \A i \in 1..(Len(replies) - 1) : replies'[i] = replies[i + 1]
      /\ Head(replies) = replies[1]
  BY Removed DEF TypeInv
<1>2. ASSUME NEW n \in Nat, InTransit(r, n)'
      PROVE  \E i \in DOMAIN replies : i > 1 /\ replies[i] = Message(r, n)
  <2>1. PICK i \in DOMAIN replies' : replies'[i] = Message(r, n)
    BY <1>2 DEF InTransit
  <2>2. i + 1 \in DOMAIN replies /\ i + 1 > 1 /\ replies[i + 1] = Message(r, n)
    BY <1>1, <2>1
  <2>3. QED
    BY <2>2
<1>3. ASSUME NEW n \in Nat, NEW i \in DOMAIN replies, i > 1, replies[i] = Message(r, n)
      PROVE  InTransit(r, n)'
  <2>1. i - 1 \in DOMAIN replies' /\ replies'[i - 1] = Message(r, n)
    BY <1>1, <1>3
  <2>2. QED
    BY <2>1 DEF InTransit
<1>4. ASSUME NEW n \in Nat, InTransit(r, n)
      PROVE  Head(replies) = Message(r, n) \/ InTransit(r, n)'
  <2>1. PICK i \in DOMAIN replies : replies[i] = Message(r, n)
    BY <1>4 DEF InTransit
  <2>2. i = 1 \/ i > 1
    BY <1>1
  <2>3. QED
    BY <1>1, <1>3, <2>1, <2>2
<1>5. ASSUME NEW m \in Nat, NEW n \in Nat, Ordered(r), Head(replies) = Message(r, m),
             InTransit(r, n)'
      PROVE  m < n
  <2>1. PICK i \in DOMAIN replies : i > 1 /\ replies[i] = Message(r, n)
    BY <1>2, <1>5
  <2>2. 1 \in DOMAIN replies
    BY <1>1
  <2>3. QED
    BY <1>1, <1>5, <2>1, <2>2 DEF Ordered
<1>6. ASSUME NEW m \in Nat, NEW n \in Nat, Ordered(r), Head(replies) = Message(r, m),
             InTransit(r, n)
      PROVE  m <= n
  <2>1. CASE InTransit(r, n)'
    BY <1>5, <1>6, <2>1
  <2>2. CASE Head(replies) = Message(r, n)
    BY <1>6, <2>2, MessagesDiffer
  <2>3. QED
    BY <1>4, <1>6, <2>1, <2>2
<1>7. ASSUME NEW m \in Nat, Head(replies) = Message(r, m)
      PROVE  InTransit(r, m)
  BY <1>1, <1>7 DEF InTransit
<1>8. ASSUME Ordered(r)
      PROVE  Ordered(r)'
  <2>1. SUFFICES ASSUME NEW i \in DOMAIN replies', NEW j \in DOMAIN replies',
                        NEW m \in Nat, NEW n \in Nat, i < j,
                        replies'[i] = Message(r, m), replies'[j] = Message(r, n)
                 PROVE  m < n
    BY DEF Ordered
  <2>2. /\ i + 1 \in DOMAIN replies /\ j + 1 \in DOMAIN replies /\ i + 1 < j + 1
        /\ replies[i + 1] = Message(r, m) /\ replies[j + 1] = Message(r, n)
    BY <1>1, <2>1
  <2>3. QED
    BY <1>8, <2>2 DEF Ordered
<1>9. QED
  BY <1>2, <1>3, <1>4, <1>5, <1>6, <1>7, <1>8 DEF InTransit

\* Something that is no message of the run comes behind.
LEMMA OtherAdded ==
  ASSUME TypeInv, NEW x \in ReplyType, replies' = Append(replies, x), NEW r \in Runs,
         \A n \in Nat : x # Message(r, n)
  PROVE  /\ \A n \in Nat : InTransit(r, n)' <=> InTransit(r, n)
         /\ Ordered(r) => Ordered(r)'
<1>1. /\ Len(replies) \in Nat
      /\ DOMAIN replies = 1..Len(replies)
      /\ DOMAIN replies' = 1..(Len(replies) + 1)
      /\ \A i \in 1..Len(replies) : replies'[i] = replies[i]
      /\ replies'[Len(replies) + 1] = x
  BY Appended DEF TypeInv
<1>2. \A n \in Nat : \A i \in DOMAIN replies' :
        replies'[i] = Message(r, n) => i \in DOMAIN replies /\ replies[i] = Message(r, n)
  BY <1>1
<1>3. \A n \in Nat : InTransit(r, n)' <=> InTransit(r, n)
  <2>1. ASSUME NEW n \in Nat, InTransit(r, n)'
        PROVE  InTransit(r, n)
    BY <1>2, <2>1 DEF InTransit
  <2>2. ASSUME NEW n \in Nat, InTransit(r, n)
        PROVE  InTransit(r, n)'
    BY <1>1, <2>2 DEF InTransit
  <2>3. QED
    BY <2>1, <2>2
<1>4. Ordered(r) => Ordered(r)'
  BY <1>2 DEF Ordered
<1>5. QED
  BY <1>3, <1>4

\* A message of the run comes behind all those that are on their way.
LEMMA MessageAdded ==
  ASSUME TypeInv, NEW r \in Runs, NEW k \in Nat \ {0},
         replies' = Append(replies, Message(r, k)),
         Ordered(r), \A n \in Nat : InTransit(r, n) => n < k
  PROVE  /\ \A n \in Nat : InTransit(r, n)' <=> (InTransit(r, n) \/ n = k)
         /\ Ordered(r)'
<1>1. Message(r, k) \in ReplyType
  BY DEF Message, ReplyType, MessageType
<1>2. /\ Len(replies) \in Nat
      /\ DOMAIN replies = 1..Len(replies)
      /\ DOMAIN replies' = 1..(Len(replies) + 1)
      /\ \A i \in 1..Len(replies) : replies'[i] = replies[i]
      /\ replies'[Len(replies) + 1] = Message(r, k)
  BY <1>1, Appended DEF TypeInv
<1>3. \A n \in Nat : \A i \in DOMAIN replies' : replies'[i] = Message(r, n) =>
        \/ i \in DOMAIN replies /\ replies[i] = Message(r, n)
        \/ i = Len(replies) + 1 /\ n = k
  BY <1>2, MessagesDiffer
<1>4. \A n \in Nat : InTransit(r, n)' <=> (InTransit(r, n) \/ n = k)
  <2>1. ASSUME NEW n \in Nat, InTransit(r, n)'
        PROVE  InTransit(r, n) \/ n = k
    BY <1>3, <2>1 DEF InTransit
  <2>2. ASSUME NEW n \in Nat, InTransit(r, n)
        PROVE  InTransit(r, n)'
    BY <1>2, <2>2 DEF InTransit
  <2>3. InTransit(r, k)'
    <3>1. Len(replies) + 1 \in DOMAIN replies'
      BY <1>2
    <3>2. QED
      BY <1>2, <3>1 DEF InTransit
  <2>4. QED
    BY <2>1, <2>2, <2>3
<1>5. Ordered(r)'
  <2>1. SUFFICES ASSUME NEW i \in DOMAIN replies', NEW j \in DOMAIN replies',
                        NEW m \in Nat, NEW n \in Nat, i < j,
                        replies'[i] = Message(r, m), replies'[j] = Message(r, n)
                 PROVE  m < n
    BY DEF Ordered
  <2>2. i \in DOMAIN replies /\ replies[i] = Message(r, m)
    BY <1>2, <2>1
  <2>3. CASE j \in DOMAIN replies /\ replies[j] = Message(r, n)
    BY <2>1, <2>2, <2>3 DEF Ordered
  <2>4. CASE n = k
    BY <2>2, <2>4 DEF InTransit
  <2>5. QED
    BY <1>3, <2>1, <2>3, <2>4
<1>6. QED
  BY <1>4, <1>5

LEMMA UnsubscribingStep ==
  ASSUME TypeInv, Unsubscribing, \A r \in Runs : InFlight(r), [Next]_vars
  PROVE  Unsubscribing'
<1>1. commands \in Seq(CommandType)
  BY DEF TypeInv
<1>2. \A i \in DOMAIN commands : commands[i].run \in Runs
  <2>1. \A i \in DOMAIN commands : commands[i] \in CommandType
    BY <1>1
  <2>2. QED
    BY <2>1 DEF CommandType
<1>3. \A r \in Runs : Ended(r) => Ended(r)'
  BY EndedStays
<1>4. CASE commands' = commands
  <2>1. SUFFICES ASSUME NEW i \in DOMAIN commands, commands[i].op = "unsubscribe"
                 PROVE  Ended(commands[i].run)'
    BY <1>4 DEF Unsubscribing, Ended, Positions
  <2>2. PICK r \in Runs : r = commands[i].run
    BY <1>2
  <2>3. Ended(r)'
    BY <1>3, <2>1, <2>2 DEF Unsubscribing
  <2>4. QED
    BY <1>4, <2>2, <2>3 DEF Ended, Positions
<1>5. ASSUME NEW op \in {"subscribe", "unsubscribe"}, NEW x \in Runs, NEW by \in Absent,
             commands' = Append(commands, Command(op, x, by)),
             op = "unsubscribe" => Ended(x)
      PROVE  Unsubscribing'
  <2>1. Command(op, x, by) \in CommandType
    BY DEF Command, CommandType
  <2>2. /\ DOMAIN commands' = 1..(Len(commands) + 1)
        /\ DOMAIN commands = 1..Len(commands) /\ Len(commands) \in Nat
        /\ \A i \in 1..Len(commands) : commands'[i] = commands[i]
        /\ commands'[Len(commands) + 1] = Command(op, x, by)
    BY <1>1, <1>5, <2>1, Appended
  <2>3. ASSUME NEW i \in DOMAIN commands', commands'[i].op = "unsubscribe"
        PROVE  \E r \in Runs : commands'[i].run = r /\ Ended(r)'
    <3>1. CASE i = Len(commands) + 1
      BY <1>3, <1>5, <2>2, <2>3, <3>1 DEF Command
    <3>2. CASE i \in 1..Len(commands)
      <4>1. PICK r \in Runs : r = commands[i].run
        BY <1>2, <2>2, <3>2
      <4>2. Ended(r)
        BY <2>2, <2>3, <3>2, <4>1 DEF Unsubscribing
      <4>3. QED
        BY <1>3, <2>2, <3>2, <4>1, <4>2
    <3>3. QED
      BY <2>2, <3>1, <3>2
  <2>4. QED
    BY <2>3 DEF Unsubscribing, Ended, Positions
<1>6. ASSUME commands # <<>>, commands' = Tail(commands)
      PROVE  Unsubscribing'
  <2>1. /\ Len(commands) \in Nat
        /\ DOMAIN commands = 1..Len(commands)
        /\ DOMAIN commands' = 1..(Len(commands) - 1)
        /\ \A i \in 1..(Len(commands) - 1) : commands'[i] = commands[i + 1]
    BY <1>1, <1>6, Removed
  <2>2. ASSUME NEW i \in DOMAIN commands', commands'[i].op = "unsubscribe"
        PROVE  \E r \in Runs : commands'[i].run = r /\ Ended(r)'
    <3>1. i + 1 \in DOMAIN commands /\ commands'[i] = commands[i + 1]
      BY <2>1
    <3>2. PICK r \in Runs : r = commands[i + 1].run
      BY <1>2, <3>1
    <3>3. Ended(r)
      BY <2>2, <3>1, <3>2 DEF Unsubscribing
    <3>4. QED
      BY <1>3, <3>1, <3>2, <3>3
  <2>3. QED
    BY <2>2 DEF Unsubscribing, Ended, Positions
<1>7. ASSUME NEW o \in Observers, Observe(o)
      PROVE  Unsubscribing'
  <2>1. PICK run \in Runs : run = observers[o].run
    BY RecordParts
  <2>2. CASE commands' = Append(commands, Command("subscribe", run, o))
    BY <1>5, <2>2 DEF Absent
  <2>3. QED
    BY <1>4, <1>7, <2>1, <2>2 DEF Observe
<1>8. ASSUME Read
      PROVE  Unsubscribing'
  <2>1. ASSUME NEW r \in Runs, NEW n \in Nat \ {0}, Head(replies) = Message(r, n),
               ReadEnd(r, n)
        PROVE  Unsubscribing'
    <3>1. InTransit(r, n)
      BY <1>8, <2>1, ReadCases, HeadTaken
    <3>2. n \in 1..Len(published[r])
      BY <3>1 DEF InFlight
    <3>3. Ended(r)
      BY <2>1, <3>2, PublishedStays DEF ReadEnd, Ended, Positions, Grows
    <3>4. QED
      BY <1>5, <2>1, <3>3, SubjectEnds DEF Absent
  <2>2. QED
    BY <1>4, <1>8, <2>1, ReadCases DEF ReadIgnored, ReadEvent, ReadAnswer
<1>9. QED
  BY <1>4, <1>6, <1>7, <1>8
  DEF Next, Publish, ExecuteCommand, RefuseCommand, Authorise, Attach, Disconnect,
      Shutdown, vars

\* A channel is unsubscribed from only after an end of the stream.
LEMMA CoveredStep ==
  ASSUME TypeInv, Unsubscribing, [Next]_vars, NEW r \in Runs, Covered(r)
  PROVE  Covered(r)'
<1>1. Ended(r) => Ended(r)'
  BY EndedStays
<1>2. r \in subscribed /\ r \notin subscribed' => Ended(r)
  <2>1. SUFFICES ASSUME r \in subscribed, r \notin subscribed' PROVE Ended(r)
    OBVIOUS
  <2>2. ExecuteCommand
    BY <2>1, ReadCases
    DEF Next, Publish, RefuseCommand, Authorise, Observe, Attach, Disconnect, Shutdown, vars
  <2>3. PICK c : c = Head(commands)
    OBVIOUS
  <2>4. commands \in Seq(CommandType) /\ commands # <<>>
    BY <2>2 DEF TypeInv, ExecuteCommand
  <2>5. c \in CommandType /\ 1 \in DOMAIN commands /\ c = commands[1]
    BY <2>3, <2>4, Removed
  <2>6. c.op # "subscribe" /\ c.run = r
    BY <2>1, <2>2, <2>3 DEF ExecuteCommand
  <2>7. QED
    BY <2>5, <2>6 DEF CommandType, Unsubscribing
<1>3. QED
  BY <1>1, <1>2 DEF Covered

\* What becomes of the messages of the run in a step: what is published is on its way
\* or unheard, and nothing else comes on its way.
Flows(r) ==
  /\ \A n \in Nat : InTransit(r, n)' =>
       \/ InTransit(r, n)
       \/ n \in (Len(published[r]) + 1)..Len(published'[r]) /\ n \notin unheard'[r]
  /\ \A k \in (Len(published[r]) + 1)..Len(published'[r]) :
       InTransit(r, k)' \/ k \in unheard'[r]
  /\ unheard'[r] \subseteq 1..Len(published'[r])
  /\ Ordered(r)'
  /\ ~ Read => \A n \in Nat : InTransit(r, n) => InTransit(r, n)'

\* An answer is appended: what is on its way stays on its way.
LEMMA AnswerAppended ==
  ASSUME TypeInv, NEW kind \in {"subscribed", "refused"}, NEW o \in Observers,
         replies' = Append(replies, Reply(kind, o)), NEW r \in Runs
  PROVE  /\ \A n \in Nat : InTransit(r, n)' <=> InTransit(r, n)
         /\ Ordered(r) => Ordered(r)'
<1>1. Reply(kind, o) \in ReplyType
  BY DEF Reply, ReplyType, AnswerType
<1>2. \A n \in Nat : Reply(kind, o) # Message(r, n)
  BY MessagesDiffer
<1>3. QED
  BY <1>1, <1>2, OtherAdded

\* Unless a message of the run is published or read, what is on its way stays so.
LEMMA TransitStays ==
  ASSUME TypeInv, [Next]_vars, NEW r \in Runs,
         ~ \E x \in Runs, kind \in Kinds : Publish(x, kind), ~ Read
  PROVE  /\ \A n \in Nat : InTransit(r, n)' <=> InTransit(r, n)
         /\ Ordered(r) => Ordered(r)'
         /\ UNCHANGED <<published, unheard>>
<1>1. CASE UNCHANGED <<replies, published, unheard>>
  BY <1>1 DEF InTransit, Ordered
<1>2. CASE ExecuteCommand
  <2>1. PICK c : c = Head(commands)
    OBVIOUS
  <2>2. c.op = "subscribe" => c.by \in Observers
    BY <1>2, <2>1, CommandTaken DEF ExecuteCommand
  <2>3. CASE c.op = "subscribe" /\ replies' = Append(replies, Reply("subscribed", c.by))
    BY <1>2, <2>2, <2>3, AnswerAppended DEF ExecuteCommand
  <2>4. QED
    BY <1>1, <1>2, <2>1, <2>3 DEF ExecuteCommand
<1>3. CASE RefuseCommand
  <2>1. PICK c : c = Head(commands)
    OBVIOUS
  <2>2. c.op = "subscribe" => c.by \in Observers
    BY <1>3, <2>1, CommandTaken DEF RefuseCommand
  <2>3. CASE c.op = "subscribe" /\ replies' = Append(replies, Reply("refused", c.by))
    BY <1>3, <2>2, <2>3, AnswerAppended DEF RefuseCommand
  <2>4. QED
    BY <1>1, <1>3, <2>1, <2>3 DEF RefuseCommand
<1>4. QED
  BY <1>1, <1>2, <1>3 DEF Next, Authorise, Observe, Attach, Disconnect, Shutdown, vars

LEMMA PublishFlows ==
  ASSUME TypeInv, NEW r \in Runs, HeardOn(r), InFlight(r), NEW x \in Runs, NEW kind \in Kinds,
         Publish(x, kind)
  PROVE  Flows(r)
<1> PICK k : k = Len(published[x]) + 1
  OBVIOUS
<1>1. /\ \A y \in Runs : published[y] \in Seq(Kinds) /\ Len(published[y]) \in Nat
      /\ k \in Nat \ {0} /\ Message(x, k) \in ReplyType
  BY PublishMoves DEF TypeInv, ReplyType
<1>2. CASE r # x
  <2>1. published'[r] = published[r] /\ unheard'[r] = unheard[r]
    BY <1>2, PublishMoves
  <2>2. (\A n \in Nat : InTransit(r, n)' <=> InTransit(r, n)) /\ Ordered(r)'
    <3>1. CASE replies' = replies
      BY <3>1 DEF InTransit, Ordered, InFlight
    <3>2. CASE replies' = Append(replies, Message(x, k))
      BY <1>1, <1>2, <3>2, OtherAdded, MessagesDiffer DEF InFlight
    <3>3. QED
      BY <3>1, <3>2, PublishMoves
  <2>3. \A n : n \notin (Len(published[r]) + 1)..Len(published[r])
    BY <1>1
  <2>4. QED
    BY <2>1, <2>2, <2>3 DEF Flows, HeardOn
<1>3. CASE r = x
  <2>1. Len(published'[r]) = k
    BY <1>1, <1>3, PublishMoves
  <2>2. \A n \in Nat : InTransit(r, n) => n < k
    BY <1>1, <1>3 DEF InFlight
  <2>3. \A n \in (Len(published[r]) + 1)..Len(published'[r]) : n = k
    BY <1>1, <1>3, <2>1
  <2>4. k \in (Len(published[r]) + 1)..Len(published'[r]) /\ k \in 1..k
    BY <1>1, <1>3, <2>1
  <2>5. \A n \in 1..Len(published[r]) : n \in 1..k /\ n # k
    BY <1>1, <1>3
  <2>6. CASE r \in subscribed
    <3>1. replies' = Append(replies, Message(r, k)) /\ unheard'[r] = unheard[r]
      BY <1>3, <2>6, PublishMoves
    <3>2. (\A n \in Nat : InTransit(r, n)' <=> (InTransit(r, n) \/ n = k)) /\ Ordered(r)'
      BY <1>1, <2>2, <3>1, MessageAdded DEF InFlight
    <3>3. k \notin unheard'[r] /\ unheard'[r] \subseteq 1..k
      BY <2>5, <3>1 DEF HeardOn
    <3>4. QED
      BY <1>1, <2>1, <2>3, <2>4, <3>2, <3>3 DEF Flows
  <2>7. CASE r \notin subscribed
    <3>1. replies' = replies /\ unheard'[r] = unheard[r] \cup {k}
      BY <1>3, <2>7, PublishMoves
    <3>2. (\A n \in Nat : InTransit(r, n)' <=> InTransit(r, n)) /\ Ordered(r)'
      BY <3>1 DEF InTransit, Ordered, InFlight
    <3>3. unheard'[r] \subseteq 1..k
      BY <2>4, <2>5, <3>1 DEF HeardOn
    <3>4. QED
      BY <2>1, <2>3, <2>7, <3>1, <3>2, <3>3 DEF Flows
  <2>8. QED
    BY <2>6, <2>7
<1>4. QED
  BY <1>2, <1>3

LEMMA FlowsStep ==
  ASSUME TypeInv, [Next]_vars, NEW r \in Runs, HeardOn(r), InFlight(r)
  PROVE  Flows(r)
<1>1. Len(published[r]) \in Nat
  BY DEF TypeInv
<1>2. ASSUME published' = published, unheard' = unheard, Ordered(r)',
             \A n \in Nat : InTransit(r, n)' => InTransit(r, n),
             ~ Read => \A n \in Nat : InTransit(r, n) => InTransit(r, n)'
      PROVE  Flows(r)
  <2>1. \A n : n \notin (Len(published[r]) + 1)..Len(published'[r])
    BY <1>1, <1>2
  <2>2. QED
    BY <1>2, <2>1 DEF Flows, HeardOn
<1>3. CASE \E x \in Runs, kind \in Kinds : Publish(x, kind)
  BY <1>3, PublishFlows
<1>4. CASE Read
  <2>1. replies # <<>> /\ replies' = Tail(replies) /\ UNCHANGED <<published, unheard>>
    BY <1>4, ReadCases
  <2>2. QED
    BY <1>2, <1>4, <2>1, HeadTaken DEF InFlight
<1>5. CASE /\ ~ \E x \in Runs, kind \in Kinds : Publish(x, kind)
           /\ ~ Read
  BY <1>2, <1>5, TransitStays DEF InFlight
<1>6. QED
  BY <1>3, <1>4, <1>5

LEMMA InFlightStep ==
  ASSUME TypeInv, [Next]_vars, NEW r \in Runs, HeardOn(r), InFlight(r)
  PROVE  InFlight(r)'
<1>1. Grows(r) /\ Flows(r)
  BY PublishedStays, FlowsStep
<1>2. ASSUME NEW n \in Nat, InTransit(r, n)'
      PROVE  n \in 1..Len(published'[r]) /\ n \notin unheard'[r]
  <2>1. CASE InTransit(r, n)
    BY <1>1, <2>1 DEF InFlight, Grows
  <2>2. CASE n \in (Len(published[r]) + 1)..Len(published'[r]) /\ n \notin unheard'[r]
    BY <1>1, <2>2 DEF Grows
  <2>3. QED
    BY <1>1, <1>2, <2>1, <2>2 DEF Flows
<1>3. ASSUME NEW n \in Nat, InTransit(r, n)', NEW k \in (n + 1)..Len(published'[r])
      PROVE  InTransit(r, k)' \/ k \in unheard'[r]
  <2>1. CASE k \in (Len(published[r]) + 1)..Len(published'[r])
    BY <1>1, <2>1 DEF Flows
  <2>2. CASE k \in (n + 1)..Len(published[r])
    <3>1. k \in Nat /\ n < k /\ k \in 1..Len(published[r])
      BY <1>1, <2>2 DEF Grows
    <3>2. InTransit(r, n)
      BY <1>1, <1>3, <2>2 DEF Flows, Grows
    <3>3. InTransit(r, k) \/ k \in unheard'[r]
      BY <1>1, <2>2, <3>1, <3>2 DEF InFlight, Grows
    <3>4. CASE Read /\ InTransit(r, k)
      <4>1. replies # <<>> /\ replies' = Tail(replies)
        BY <3>4, ReadCases
      <4>2. Head(replies) = Message(r, k) => k < n
        BY <1>3, <3>1, <4>1, HeadTaken DEF InFlight
      <4>3. Head(replies) # Message(r, k)
        BY <3>1, <4>2
      <4>4. QED
        BY <3>1, <3>4, <4>1, <4>3, HeadTaken
    <3>5. CASE ~ Read /\ InTransit(r, k)
      BY <1>1, <3>1, <3>5 DEF Flows
    <3>6. QED
      BY <3>3, <3>4, <3>5
  <2>3. QED
    BY <1>1, <1>3, <2>1, <2>2 DEF Grows
<1>4. Ordered(r)'
  BY <1>1 DEF Flows
<1>5. QED
  BY <1>2, <1>3, <1>4 DEF InFlight

LEMMA HeardOnStep ==
  ASSUME TypeInv, Unsubscribing, [Next]_vars, NEW r \in Runs, HeardOn(r), InFlight(r)
  PROVE  HeardOn(r)'
<1> PICK len \in Nat : len = Len(published[r])
  BY DEF TypeInv
<1>1. Covered(r) => Covered(r)'
  BY CoveredStep
<1>2. \A e \in Ends(r) : e \in 1..len /\ e \in Ends(r)'
  BY EndedStays DEF Ends
<1>3. unheard'[r] \subseteq 1..Len(published'[r])
  BY FlowsStep DEF Flows
<1>4. CASE published'[r] = published[r] /\ unheard'[r] = unheard[r]
  BY <1>1, <1>2, <1>4 DEF HeardOn
<1>5. ASSUME NEW kind \in Kinds, Publish(r, kind)
      PROVE  HeardOn(r)'
  <2> PICK n \in Nat : n = len + 1
    OBVIOUS
  <2>1. Len(published'[r]) = n
    BY <1>5, PublishMoves DEF TypeInv
  <2>2. ASSUME NEW m \in 1..n
        PROVE  m = n \/ m \in 1..len
    OBVIOUS
  <2>3. CASE r \in subscribed
    <3>1. unheard'[r] = unheard[r] /\ Covered(r)'
      BY <1>5, <2>3, PublishMoves DEF Covered
    <3>2. ASSUME NEW m \in 1..n, m \notin unheard[r], NEW k \in 1..n, m < k, k \in unheard[r]
          PROVE  \E e \in Ends(r)' : e < k
      <4>1. k \in 1..len
        BY <3>2 DEF HeardOn
      <4>2. m \in 1..len
        BY <3>2, <4>1
      <4>3. \E e \in Ends(r) : e < k
        BY <3>2, <4>1, <4>2 DEF HeardOn
      <4>4. QED
        BY <1>2, <4>3
    <3>3. QED
      BY <1>3, <2>1, <3>1, <3>2 DEF HeardOn
  <2>4. CASE r \notin subscribed
    <3>1. unheard'[r] = unheard[r] \cup {n}
      BY <1>5, <2>4, PublishMoves
    <3>2. ASSUME NEW m \in 1..n, m \notin unheard'[r]
          PROVE  m \in 1..len /\ m \notin unheard[r] /\ Ended(r) /\ Covered(r)'
      <4>1. m \in 1..len /\ m \notin unheard[r]
        BY <2>2, <3>1, <3>2
      <4>2. Covered(r)
        BY <4>1 DEF HeardOn
      <4>3. QED
        BY <1>1, <2>4, <4>1, <4>2 DEF Covered
    <3>3. ASSUME NEW m \in 1..n, m \notin unheard'[r], NEW k \in 1..n, m < k, k \in unheard'[r]
          PROVE  \E e \in Ends(r)' : e < k
      <4>1. CASE k = n
        <5>1. PICK e \in Ends(r) : TRUE
          BY <3>2, <3>3 DEF Ended, Ends
        <5>2. e < n
          BY <1>2, <5>1
        <5>3. QED
          BY <1>2, <4>1, <5>2
      <4>2. CASE k \in 1..len
        <5>1. k \in unheard[r]
          BY <3>1, <3>3, <4>2
        <5>2. \E e \in Ends(r) : e < k
          BY <3>2, <3>3, <4>2, <5>1 DEF HeardOn
        <5>3. QED
          BY <1>2, <5>2
      <4>3. QED
        BY <2>2, <4>1, <4>2
    <3>4. QED
      BY <1>3, <2>1, <3>2, <3>3 DEF HeardOn
  <2>5. QED
    BY <2>3, <2>4
<1>6. QED
  BY <1>4, <1>5, PublishedOrNot

LEMMA StreamsStep == TypeInv /\ SubjectsMatch /\ StreamsInv /\ [Next]_vars => StreamsInv'
<1> SUFFICES ASSUME TypeInv, SubjectsMatch, StreamsInv, [Next]_vars PROVE StreamsInv'
  OBVIOUS
<1>1. Unsubscribing' /\ EndedOver'
  BY UnsubscribingStep, EndedOverStep DEF StreamsInv
<1>2. \A r \in Runs : HeardOn(r)' /\ InFlight(r)'
  BY HeardOnStep, InFlightStep DEF StreamsInv
<1>3. QED
  BY <1>1, <1>2 DEF StreamsInv

-----------------------------------------------------------------------------
(* What a client received.                                                 *)

Seen(o) == observers[o].received
LastSeen(o) == Seen(o)[Len(Seen(o))]

\* Events of its run that were heard, each followed by the next.
SeenInOrder(o) ==
  LET run == observers[o].run IN
  /\ \A i \in DOMAIN Seen(o) : Seen(o)[i] \in Positions(run, "event") \ unheard[run]
  /\ \A i \in 1..(Len(Seen(o)) - 1) : Follows(run, Seen(o)[i], Seen(o)[i + 1])

\* Whoever received a message is attached, or has been; what is on its way is newer,
\* and for those that are attached it is all that was heard since.
RestOnItsWay(o) ==
  LET run == observers[o].run IN
  Seen(o) # <<>> =>
    /\ observers[o].state \in {"attached", "completed", "gone"}
    /\ \A n \in Nat : InTransit(run, n) => LastSeen(o) < n
    /\ observers[o].state = "attached" =>
         \A k \in (LastSeen(o) + 1)..Len(published[run]) :
           InTransit(run, k) \/ k \in unheard[run]

\* An end of the stream follows what was received when it completed.
SeenToEnd(o) ==
  LET run == observers[o].run IN
  observers[o].state = "completed" /\ running =>
    \E n \in Ends(run) : Seen(o) # <<>> => Follows(run, LastSeen(o), n)

Received(o) == SeenInOrder(o) /\ RestOnItsWay(o) /\ SeenToEnd(o)

LEMMA ReceivedParts ==
  ASSUME TypeInv, NEW o \in Observers, Received(o), NEW r \in Runs, r = observers[o].run
  PROVE  /\ Seen(o) \in Seq(Nat) /\ Len(Seen(o)) \in Nat
         /\ DOMAIN Seen(o) = 1..Len(Seen(o))
         /\ \A i \in 1..Len(Seen(o)) :
              Seen(o)[i] \in 1..Len(published[r]) /\ Seen(o)[i] \notin unheard[r]
         /\ Seen(o) # <<>> =>
              /\ Len(Seen(o)) \in DOMAIN Seen(o) /\ LastSeen(o) \in Nat
              /\ LastSeen(o) \in 1..Len(published[r]) /\ LastSeen(o) \notin unheard[r]
         /\ Len(published[r]) \in Nat
<1>1. Seen(o) \in Seq(Nat) /\ published[r] \in Seq(Kinds)
  BY RecordParts DEF Seen, TypeInv
<1>2. Len(Seen(o)) \in Nat /\ DOMAIN Seen(o) = 1..Len(Seen(o))
  BY <1>1
<1>3. Seen(o) # <<>> => Len(Seen(o)) \in 1..Len(Seen(o))
  BY <1>1
<1>4. \A i \in 1..Len(Seen(o)) :
        Seen(o)[i] \in 1..Len(published[r]) /\ Seen(o)[i] \notin unheard[r]
  BY <1>1, <1>2 DEF Received, SeenInOrder, Positions
<1>5. QED
  BY <1>1, <1>2, <1>3, <1>4 DEF LastSeen

\* What followed once still does.
LEMMA FollowsStays ==
  ASSUME TypeInv, [Next]_vars, NEW r \in Runs, NEW m \in Nat, NEW n \in 1..Len(published[r]),
         Follows(r, m, n)
  PROVE  Follows(r, m, n)'
<1>1. Grows(r) /\ Len(published[r]) \in Nat
  BY PublishedStays DEF Grows
<1>2. ASSUME NEW k \in (m + 1)..(n - 1)
      PROVE  k \in unheard'[r] /\ \E e \in Positions(r, "stream_end")' : e < k
  <2>1. k \in 1..Len(published[r])
    BY <1>1
  <2>2. k \in unheard[r] /\ \E e \in Positions(r, "stream_end") : e < k
    BY DEF Follows
  <2>3. QED
    BY <1>1, <2>1, <2>2, EndedStays DEF Grows
<1>3. QED
  BY <1>2 DEF Follows

\* Nothing is received: what was received before keeps its order.
LEMMA SeenStays ==
  ASSUME TypeInv, [Next]_vars, NEW o \in Observers, Received(o),
         NEW r \in Runs, r = observers[o].run, observers'[o].run = r,
         observers'[o].received = observers[o].received
  PROVE  SeenInOrder(o)' /\ Seen(o)' = Seen(o) /\ LastSeen(o)' = LastSeen(o)
<1> PICK seen : seen = Seen(o)
  OBVIOUS
<1>1. observers'[o].run = r /\ Seen(o)' = seen /\ LastSeen(o)' = LastSeen(o)
  BY DEF Seen, LastSeen
<1>2. seen \in Seq(Nat) /\ Len(seen) \in Nat /\ DOMAIN seen = 1..Len(seen)
  BY ReceivedParts
<1>3. ASSUME NEW i \in 1..Len(seen)
      PROVE  seen[i] \in Positions(r, "event")' /\ seen[i] \notin unheard'[r]
  <2>1. /\ seen[i] \in Positions(r, "event") /\ seen[i] \notin unheard[r]
        /\ seen[i] \in 1..Len(published[r])
    BY <1>2, ReceivedParts DEF Received, SeenInOrder
  <2>2. QED
    BY <2>1, PublishedStays, EndedStays DEF Grows
<1>4. ASSUME NEW i \in 1..(Len(seen) - 1)
      PROVE  Follows(r, seen[i], seen[i + 1])'
  <2>1. i \in 1..Len(seen) /\ i + 1 \in 1..Len(seen)
    BY <1>2
  <2>2. seen[i] \in Nat /\ seen[i + 1] \in 1..Len(published[r])
    BY <1>2, <2>1, ReceivedParts
  <2>3. Follows(r, seen[i], seen[i + 1])
    BY DEF Received, SeenInOrder
  <2>4. QED
    BY <2>2, <2>3, FollowsStays
<1>5. SeenInOrder(o)'
  BY <1>1, <1>2, <1>3, <1>4 DEF SeenInOrder, Positions, Follows
<1>6. QED
  BY <1>1, <1>5

\* Nothing is received, whatever else the step does.
LEMMA ReceivedStill ==
  ASSUME TypeInv, [Next]_vars, NEW o \in Observers, Received(o),
         NEW r \in Runs, r = observers[o].run, HeardOn(r), InFlight(r),
         observers'[o].run = r,
         observers'[o].received = observers[o].received,
         observers'[o].state = "attached" =>
           /\ observers[o].state = "attached" \/ Seen(o) = <<>>
           /\ \A n \in Nat : InTransit(r, n) => InTransit(r, n)',
         Seen(o) # <<>> => observers'[o].state \in {"attached", "completed", "gone"},
         running' => running,
         observers'[o].state = "completed" /\ running' =>
           \/ observers[o].state = "completed"
           \/ \E n \in Ends(r) : Seen(o) # <<>> => Follows(r, LastSeen(o), n)
  PROVE  Received(o)'
<1> PICK seen : seen = Seen(o)
  OBVIOUS
<1> PICK last : last = LastSeen(o)
  OBVIOUS
<1>1. /\ SeenInOrder(o)' /\ Seen(o)' = seen /\ LastSeen(o)' = last
      /\ observers'[o].run = r
  BY SeenStays
<1>2. seen # <<>> => last \in Nat /\ last \in 1..Len(published[r])
  BY ReceivedParts
<1>3. Grows(r) /\ Flows(r)
  BY PublishedStays, FlowsStep
<1>4. RestOnItsWay(o)'
  <2>1. SUFFICES ASSUME seen # <<>>
                 PROVE  /\ observers'[o].state \in {"attached", "completed", "gone"}
                        /\ \A n \in Nat : InTransit(r, n)' => last < n
                        /\ observers'[o].state = "attached" =>
                             \A k \in (last + 1)..Len(published'[r]) :
                               InTransit(r, k)' \/ k \in unheard'[r]
    BY <1>1 DEF RestOnItsWay, InTransit
  <2>2. ASSUME NEW n \in Nat, InTransit(r, n)'
        PROVE  last < n
    <3>1. CASE InTransit(r, n)
      BY <2>1, <3>1 DEF Received, RestOnItsWay
    <3>2. CASE n \in (Len(published[r]) + 1)..Len(published'[r])
      BY <1>2, <1>3, <2>1, <3>2 DEF Grows
    <3>3. QED
      BY <1>3, <2>2, <3>1, <3>2 DEF Flows
  <2>3. ASSUME observers'[o].state = "attached", NEW k \in (last + 1)..Len(published'[r])
        PROVE  InTransit(r, k)' \/ k \in unheard'[r]
    <3>1. CASE k \in (Len(published[r]) + 1)..Len(published'[r])
      BY <1>3, <3>1 DEF Flows
    <3>2. CASE k \in (last + 1)..Len(published[r])
      <4>1. InTransit(r, k) \/ k \in unheard[r]
        BY <2>1, <2>3, <3>2 DEF Received, RestOnItsWay
      <4>2. k \in Nat /\ k \in 1..Len(published[r])
        BY <1>2, <1>3, <2>1, <3>2 DEF Grows
      <4>3. QED
        BY <1>3, <2>3, <4>1, <4>2 DEF Grows
    <3>3. QED
      BY <1>2, <1>3, <2>1, <2>3, <3>1, <3>2 DEF Grows
  <2>4. QED
    BY <2>1, <2>2, <2>3
<1>5. SeenToEnd(o)'
  <2>1. SUFFICES ASSUME observers'[o].state = "completed", running'
                 PROVE  \E n \in Ends(r)' : seen # <<>> => Follows(r, last, n)'
    BY <1>1 DEF SeenToEnd, Follows, Ends, Positions
  <2>2. PICK n \in Ends(r) : seen # <<>> => Follows(r, last, n)
    BY <2>1 DEF Received, SeenToEnd
  <2>3. n \in 1..Len(published[r]) /\ n \in Ends(r)'
    BY EndedStays DEF Ends
  <2>4. seen # <<>> => Follows(r, last, n)'
    BY <1>2, <2>2, <2>3, FollowsStays
  <2>5. QED
    BY <2>3, <2>4
<1>6. QED
  BY <1>1, <1>4, <1>5 DEF Received

\* What is read next follows the last event that an attached client got.
LEMMA NextRead ==
  ASSUME TypeInv, NEW o \in Observers, Received(o), NEW r \in Runs, r = observers[o].run,
         HeardOn(r), InFlight(r), observers[o].state = "attached", Seen(o) # <<>>,
         NEW n \in Nat \ {0}, replies # <<>>, replies' = Tail(replies),
         Head(replies) = Message(r, n)
  PROVE  Follows(r, LastSeen(o), n)
<1> PICK last : last = LastSeen(o)
  OBVIOUS
<1>1. /\ last \in Nat /\ last \in 1..Len(published[r]) /\ last \notin unheard[r]
      /\ Len(published[r]) \in Nat
  BY ReceivedParts
<1>2. InTransit(r, n)
  BY HeadTaken
<1>3. last < n /\ n \in 1..Len(published[r])
  BY <1>2 DEF Received, RestOnItsWay, InFlight
<1>4. ASSUME NEW k \in (last + 1)..(n - 1)
      PROVE  k \in unheard[r] /\ \E e \in Ends(r) : e < k
  <2>1. /\ k \in Nat /\ k < n /\ last < k
        /\ k \in (last + 1)..Len(published[r]) /\ k \in 1..Len(published[r])
    BY <1>1, <1>3
  <2>2. ~ InTransit(r, k)
    <3>1. InTransit(r, k) => n <= k
      BY <2>1, HeadTaken DEF InFlight
    <3>2. QED
      BY <2>1, <3>1
  <2>3. k \in unheard[r]
    BY <2>1, <2>2 DEF Received, RestOnItsWay
  <2>4. QED
    BY <1>1, <2>1, <2>3 DEF HeardOn
<1>5. QED
  BY <1>3, <1>4 DEF Follows, Ends

\* An event is read: it follows the last one.
LEMMA ReceivedEvent ==
  ASSUME TypeInv, NEW o \in Observers, Received(o), NEW r \in Runs, r = observers[o].run,
         HeardOn(r), InFlight(r), observers[o].state = "attached",
         NEW n \in Nat \ {0}, replies # <<>>, replies' = Tail(replies),
         Head(replies) = Message(r, n), published[r][n] # "stream_end",
         UNCHANGED <<published, unheard>>,
         SameFor(o), observers'[o].state = "attached",
         observers'[o].received = Append(observers[o].received, n)
  PROVE  Received(o)'
<1> PICK seen : seen = Seen(o)
  OBVIOUS
<1>1. /\ seen \in Seq(Nat) /\ Len(seen) \in Nat /\ DOMAIN seen = 1..Len(seen)
      /\ published[r] \in Seq(Kinds) /\ Len(published[r]) \in Nat
  BY ReceivedParts DEF TypeInv
<1>2. InTransit(r, n)
  BY HeadTaken
<1>3. n \in 1..Len(published[r]) /\ n \in Positions(r, "event") /\ n \notin unheard[r]
  BY <1>1, <1>2 DEF InFlight, Kinds, Positions
<1>4. seen # <<>> => Follows(r, LastSeen(o), n)
  BY NextRead
<1>5. /\ observers'[o].run = r /\ Seen(o)' = Append(seen, n)
      /\ Len(Append(seen, n)) = Len(seen) + 1
      /\ DOMAIN Append(seen, n) = 1..(Len(seen) + 1)
      /\ \A i \in 1..Len(seen) : Append(seen, n)[i] = seen[i]
      /\ Append(seen, n)[Len(seen) + 1] = n
  BY <1>1, Appended DEF SameFor, Seen
<1>6. LastSeen(o)' = n
  BY <1>5 DEF LastSeen
<1>7. SeenInOrder(o)'
  <2>1. ASSUME NEW i \in 1..(Len(seen) + 1)
        PROVE  Append(seen, n)[i] \in Positions(r, "event") \ unheard[r]
    <3>1. CASE i \in 1..Len(seen)
      <4>1. seen[i] \in Positions(r, "event") \ unheard[r]
        BY <1>1, <3>1 DEF Received, SeenInOrder
      <4>2. QED
        BY <1>5, <3>1, <4>1
    <3>2. CASE i = Len(seen) + 1
      BY <1>3, <1>5, <3>2
    <3>3. QED
      BY <1>1, <3>1, <3>2
  <2>2. ASSUME NEW i \in 1..Len(seen)
        PROVE  Follows(r, Append(seen, n)[i], Append(seen, n)[i + 1])
    <3>1. CASE i \in 1..(Len(seen) - 1)
      <4>1. i \in 1..Len(seen) /\ i + 1 \in 1..Len(seen)
        BY <1>1, <3>1
      <4>2. Follows(r, seen[i], seen[i + 1])
        BY <3>1 DEF Received, SeenInOrder
      <4>3. QED
        BY <1>5, <4>1, <4>2
    <3>2. CASE i = Len(seen)
      <4>1. seen # <<>> /\ LastSeen(o) = seen[i]
        BY <1>1, <3>2 DEF LastSeen
      <4>2. QED
        BY <1>4, <1>5, <3>2, <4>1
    <3>3. i \in 1..(Len(seen) - 1) \/ i = Len(seen)
      <4>1. \A m \in Nat : \A k \in 1..m : k \in 1..(m - 1) \/ k = m
        OBVIOUS
      <4>2. Len(seen) \in Nat /\ i \in 1..Len(seen)
        BY <1>1, <2>2
      <4>3. QED
        BY <4>1, <4>2, Zenon
    <3>4. QED
      BY <3>1, <3>2, <3>3
  <2>3. Len(Seen(o)') - 1 = Len(seen)
    BY <1>1, <1>5
  <2>4. \A i \in 1..(Len(seen) + 1) :
          Append(seen, n)[i] \in Positions(r, "event")' \ unheard'[r]
    BY <2>1 DEF Positions
  <2>5. \A i \in 1..Len(seen) : Follows(r, Append(seen, n)[i], Append(seen, n)[i + 1])'
    BY <2>2 DEF Follows, Positions
  <2>6. QED
    BY <1>5, <2>3, <2>4, <2>5 DEF SeenInOrder, Positions, Follows
<1>8. RestOnItsWay(o)'
  <2>1. \A k \in Nat : InTransit(r, k)' => n < k
    BY HeadTaken DEF InFlight
  <2>2. ASSUME NEW k \in (n + 1)..Len(published[r])
        PROVE  InTransit(r, k)' \/ k \in unheard[r]
    <3>1. k \in Nat /\ n < k
      BY <1>1, <1>3
    <3>2. InTransit(r, k) \/ k \in unheard[r]
      BY <1>2 DEF InFlight
    <3>3. Head(replies) # Message(r, k)
      BY <3>1, MessagesDiffer
    <3>4. QED
      BY <3>1, <3>2, <3>3, HeadTaken
  <2>3. QED
    BY <1>5, <1>6, <2>1, <2>2 DEF RestOnItsWay, InTransit
<1>9. SeenToEnd(o)'
  BY DEF SeenToEnd
<1>10. QED
  BY <1>7, <1>8, <1>9 DEF Received

\* Whoever received nothing and is not completed has missed nothing.
LEMMA NothingSeen ==
  ASSUME TypeInv, NEW o \in Observers, Seen(o) = <<>>, observers'[o].received = Seen(o),
         observers'[o].state # "completed"
  PROVE  Received(o)'
<1>1. Seen(o)' = <<>>
  BY DEF Seen
<1>2. QED
  BY <1>1 DEF Received, SeenInOrder, RestOnItsWay, SeenToEnd

\* A message is read, by whom it may be.
LEMMA ReceivedOnRead ==
  ASSUME TypeInv, SubjectsMatch, StreamsInv, NEW o \in Observers, Received(o), Read,
         [Next]_vars
  PROVE  Received(o)'
<1> PICK r \in Runs : r = observers[o].run
  BY RecordParts
<1>1. /\ replies # <<>> /\ replies' = Tail(replies)
      /\ UNCHANGED <<published, unheard, running>>
  BY ReadCases
<1>2. HeardOn(r) /\ InFlight(r)
  BY DEF StreamsInv
<1>3. Seen(o) # <<>> => observers[o].state \in {"attached", "completed", "gone"}
  BY DEF Received, RestOnItsWay
<1>4. ASSUME \A n \in Nat : Head(replies) # Message(r, n), observers'[o] = observers[o]
      PROVE  Received(o)'
  <2>1. \A n \in Nat : InTransit(r, n) => InTransit(r, n)'
    BY <1>1, <1>4, HeadTaken
  <2>2. QED
    BY <1>1, <1>2, <1>3, <1>4, <2>1, ReceivedStill
<1>5. ASSUME observers[o].state # "attached", observers'[o] = observers[o]
      PROVE  Received(o)'
  BY <1>1, <1>2, <1>3, <1>5, ReceivedStill
<1>6. ASSUME NEW x \in Runs, NEW n \in Nat \ {0}, Head(replies) = Message(x, n),
             ReadIgnored(x, n) \/ ReadEnd(x, n) \/ ReadEvent(x, n)
      PROVE  Received(o)'
  <2>1. x # r => \A k \in Nat : Head(replies) # Message(r, k)
    BY <1>6, MessagesDiffer
  <2>2. CASE subjects[x] # NoObserver /\ o \in Listening(subjects[x])
    <3>1. x = r /\ observers[o].state = "attached"
      BY <2>2, ListenersOfRun DEF Listening
    <3>2. CASE ReadEvent(x, n)
      <4>1. /\ SameFor(o) /\ observers'[o].state = "attached"
            /\ observers'[o].received = Append(observers[o].received, n)
        BY <2>2, <3>1, <3>2, Delivered DEF ReadEvent
      <4>2. published[r][n] # "stream_end"
        BY <3>1, <3>2 DEF ReadEvent
      <4>3. QED
        BY <1>1, <1>2, <1>6, <3>1, <4>1, <4>2, ReceivedEvent
    <3>3. CASE ReadEnd(x, n)
      <4>1. observers'[o].state = "completed" /\ Quiet(o)
        BY <2>2, <3>3, SubjectEnds
      <4>2. InTransit(r, n)
        BY <1>1, <1>6, <3>1, HeadTaken
      <4>3. Len(published[r]) \in Nat /\ DOMAIN published[r] = 1..Len(published[r])
        BY DEF TypeInv
      <4>4. n \in Ends(r)
        BY <1>2, <3>1, <3>3, <4>2, <4>3 DEF InFlight, ReadEnd, Ends, Positions
      <4>5. Seen(o) # <<>> => Follows(r, LastSeen(o), n)
        BY <1>1, <1>2, <1>6, <3>1, NextRead
      <4>6. QED
        BY <1>1, <1>2, <4>1, <4>4, <4>5, ReceivedStill DEF Quiet, SameFor
    <3>4. QED
      BY <1>6, <2>2, <3>2, <3>3 DEF ReadIgnored
  <2>3. CASE subjects[x] = NoObserver \/ o \notin Listening(subjects[x])
    <3>1. observers'[o] = observers[o]
      <4>1. CASE ReadIgnored(x, n)
        BY <4>1 DEF ReadIgnored
      <4>2. CASE ReadEnd(x, n)
        BY <2>3, <4>2, SubjectEnds DEF ReadEnd
      <4>3. CASE ReadEvent(x, n)
        BY <2>3, <4>3, Delivered DEF ReadEvent
      <4>4. QED
        BY <1>6, <4>1, <4>2, <4>3
    <3>2. x = r => observers[o].state # "attached"
      BY <2>3, ListenersOfRun DEF SubjectsMatch, Settled, InMap, Attached
    <3>3. QED
      BY <1>4, <1>5, <2>1, <3>1, <3>2
  <2>4. QED
    BY <2>2, <2>3
<1>7. ASSUME NEW p \in Observers, Head(replies).kind # "message", ReadAnswer(p)
      PROVE  Received(o)'
  <2>1. \A n \in Nat : Head(replies) # Message(r, n)
    BY <1>7 DEF Message
  <2>2. \A n \in Nat : InTransit(r, n) => InTransit(r, n)'
    BY <1>1, <2>1, HeadTaken
  <2>3. CASE observers'[o] = observers[o]
    BY <1>4, <2>1, <2>3
  <2>4. CASE p = o
    <3>1. Quiet(o)
      BY <1>7, <2>4, AnswerMoves
    <3>2. \/ observers'[o].state = observers[o].state
          \/ /\ observers[o].state = "subscribing"
             /\ observers'[o].state \in {"returned", "failed"}
      BY <1>7, <2>4, AnswerMoves
    <3>3. QED
      BY <1>1, <1>2, <1>3, <2>2, <3>1, <3>2, ReceivedStill DEF Quiet, SameFor
  <2>5. QED
    BY <1>7, <2>3, <2>4, AnswerMoves
<1>8. QED
  BY <1>6, <1>7, ReadCases

LEMMA ReceivedStep ==
  ASSUME TypeInv, SubjectsMatch, StreamsInv, NEW o \in Observers, Received(o), [Next]_vars
  PROVE  Received(o)'
<1> PICK r \in Runs : r = observers[o].run
  BY RecordParts
<1>1. HeardOn(r) /\ InFlight(r)
  BY DEF StreamsInv
<1>2. Seen(o) # <<>> => observers[o].state \in {"attached", "completed", "gone"}
  BY DEF Received, RestOnItsWay
<1>3. CASE Read
  BY <1>3, ReceivedOnRead
<1>4. CASE ~ Read
  <2>1. \A n \in Nat : InTransit(r, n) => InTransit(r, n)'
    BY <1>1, <1>4, FlowsStep DEF Flows
  <2>2. CASE observers'[o] = observers[o] /\ (running' => running)
    BY <1>1, <1>2, <2>1, <2>2, ReceivedStill
  <2>3. ASSUME NEW x \in Runs, Authorise(o, x)
        PROVE  Received(o)'
    <3>1. Seen(o) = <<>>
      BY <1>2, <2>3 DEF Authorise
    <3>2. QED
      BY <2>3, <3>1, AuthoriseMoves, NothingSeen DEF Seen
  <2>4. CASE Observe(o)
    <3>1. Seen(o) = <<>>
      BY <1>2, <2>4 DEF Observe
    <3>2. QED
      BY <2>4, <3>1, ObserveMoves, NothingSeen DEF Seen
  <2>5. CASE Attach(o)
    <3>1. Seen(o) = <<>> /\ Attached(o) /\ Quiet(o) /\ running' = running
      BY <1>2, <2>5, AttachMoves DEF Attach, SubjectsMatch, Settled
    <3>2. CASE observers'[o].state = "attached"
      BY <3>1, <3>2, NothingSeen DEF Seen, Quiet
    <3>3. CASE observers[o].subject \in ended /\ observers'[o].state = "completed"
      <4>1. running => \E n \in Ends(r) : TRUE
        BY <3>1, <3>3 DEF StreamsInv, EndedOver, Ended, Ends
      <4>2. QED
        BY <1>1, <3>1, <3>3, <4>1, ReceivedStill DEF Quiet, SameFor
    <3>4. QED
      BY <2>5, <3>2, <3>3, AttachMoves
  <2>6. CASE Disconnect(o)
    <3>1. Quiet(o) /\ observers'[o].state = "gone" /\ running' = running
      BY <2>6, DisconnectMoves DEF Disconnect
    <3>2. QED
      BY <1>1, <3>1, ReceivedStill DEF Quiet, SameFor
  <2>7. CASE Shutdown
    <3>1. Quiet(o) /\ ~ running'
      BY <2>7, ShutdownMoves DEF Shutdown
    <3>2. Seen(o) # <<>> => observers'[o].state \in {"attached", "completed", "gone"}
      BY <1>2, <2>7, ShutdownMoves
    <3>3. observers'[o].state = "attached" => observers[o].state = "attached"
      BY <2>7, ShutdownMoves
    <3>4. QED
      BY <1>1, <2>1, <3>1, <3>2, <3>3, ReceivedStill DEF Quiet, SameFor
  <2>8. ASSUME NEW p \in Observers \ {o},
               Observe(p) \/ Attach(p) \/ Disconnect(p) \/ \E x \in Runs : Authorise(p, x)
        PROVE  Received(o)'
    <3>1. observers'[o] = observers[o]
      BY <2>8, ObserveMoves, AttachMoves, DisconnectMoves, AuthoriseMoves
    <3>2. running' = running
      BY <2>8 DEF Observe, Attach, Disconnect, Authorise
    <3>3. QED
      BY <2>2, <3>1, <3>2
  <2>9. CASE UNCHANGED <<observers, running>>
    BY <2>2, <2>9
  <2>10. QED
    BY <1>4, <2>3, <2>4, <2>5, <2>6, <2>7, <2>8, <2>9
    DEF Next, Publish, ExecuteCommand, RefuseCommand, vars
<1>5. QED
  BY <1>3, <1>4

EventsInv ==
  TypeInv /\ SubjectsMatch /\ StreamsInv /\ \A o \in Observers : Received(o)

LEMMA EventsInit == Init => EventsInv
<1> SUFFICES ASSUME Init PROVE EventsInv
  OBVIOUS
<1>1. TypeInv
  BY TypeInit
<1>2. /\ running /\ ended = {} /\ replies = <<>> /\ commands = <<>>
      /\ \A r \in Runs : published[r] = <<>> /\ unheard[r] = {} /\ subjects[r] = NoObserver
      /\ \A o \in Observers : /\ observers[o].state = "idle"
                              /\ observers[o].subject = NoObserver
                              /\ observers[o].received = <<>>
  BY DEF Init
<1>3. SubjectsMatch
  BY <1>2 DEF SubjectsMatch, Settled, OfItsRun, InMap, MapMatches, EndedMade, Attached
<1>4. StreamsInv
  <2>1. Unsubscribing /\ EndedOver
    BY <1>2 DEF Unsubscribing, EndedOver
  <2>2. \A r \in Runs : HeardOn(r) /\ InFlight(r)
    BY <1>2 DEF HeardOn, InFlight, InTransit, Ordered
  <2>3. QED
    BY <2>1, <2>2 DEF StreamsInv
<1>5. ASSUME NEW o \in Observers PROVE Received(o)
  <2>1. Seen(o) = <<>> /\ observers[o].state = "idle"
    BY <1>2 DEF Seen
  <2>2. QED
    BY <2>1 DEF Received, SeenInOrder, RestOnItsWay, SeenToEnd
<1>6. QED
  BY <1>1, <1>3, <1>4, <1>5 DEF EventsInv

LEMMA EventsStep == EventsInv /\ [Next]_vars => EventsInv'
<1> SUFFICES ASSUME EventsInv, [Next]_vars PROVE EventsInv'
  OBVIOUS
<1>1. TypeInv' /\ SubjectsMatch' /\ StreamsInv'
  BY TypeStep, MatchStep, StreamsStep DEF EventsInv
<1>2. \A o \in Observers : Received(o)'
  BY ReceivedStep DEF EventsInv
<1>3. QED
  BY <1>1, <1>2 DEF EventsInv

LEMMA ReceivedMeans == EventsInv => ReceivedUninterrupted
<1> SUFFICES ASSUME EventsInv, NEW o \in Observers, NEW r \in Runs, r = observers[o].run
             PROVE
               /\ \A i \in 1..(Len(Seen(o)) - 1) : Follows(r, Seen(o)[i], Seen(o)[i + 1])
               /\ \A i \in DOMAIN Seen(o) : Seen(o)[i] \in Positions(r, "event")
               /\ observers[o].state = "completed" /\ running =>
                    \E n \in Ends(r) : Seen(o) # <<>> => Follows(r, LastSeen(o), n)
  BY RecordParts DEF EventsInv, ReceivedUninterrupted, Seen, LastSeen, Ends
<1>1. QED
  BY DEF EventsInv, Received, SeenInOrder, SeenToEnd

\* What a client receives are events of its run in the order of their publication,
\* each once.  Whatever is missing between two of them, or before the end that
\* completes the stream, was published while the channel was not subscribed to, and
\* after an execution of the run had already ended the stream: an execution that is
\* the only one is received without a gap.  The invariant: what a client has not
\* received yet is on its way on the connection, in order, or was published unheard;
\* and once something was heard, a channel is given up only after an end.
THEOREM ReceivedInOrder == Spec => []ReceivedUninterrupted
BY EventsInit, EventsStep, ReceivedMeans, PTL DEF Spec

==============================================================================

------------------------------- MODULE BotProofs -------------------------------
(***************************************************************************)
(* Proofs about Bot.                                                       *)
(***************************************************************************)
EXTENDS Bot, FiniteSetTheorems, SequenceTheorems, TLAPS

LEMMA Constants ==
  /\ Myself \notin Users /\ NoUser \notin Users
  /\ Sizes \subseteq Nat \ {0} /\ ReplySizes \subseteq Nat \ {0}
  /\ MaxToolRounds \in Nat /\ MaxToolRounds # 0 /\ MaxCalls \in Nat
  /\ MaxMessages \in Nat /\ MaxEvents \in Nat /\ MaxCrashes \in Nat
  BY BotAssumption DEF BotAssumption

LEMMA BudgetType == Budget \in Nat
  BY BotAssumption DEF BotAssumption

LEMMA AskingType ==
  ASSUME NEW es \in Seq(Event), NEW m
  PROVE  /\ IsFiniteSet(Asking(es, m))
         /\ Cardinality(Asking(es, m)) \in Nat
  <1>1. Asking(es, m) \in SUBSET (1 .. Len(es)) /\ Len(es) \in Nat
    BY DEF Asking
  <1>2. IsFiniteSet(1 .. Len(es))
    BY <1>1, FS_Interval
  <1>3. QED
    BY <1>1, <1>2, FS_Subset, FS_CardinalityType

Shift(S, k) == {i + k : i \in S}

\* As many places, further on.
LEMMA Shifted ==
  ASSUME NEW S \in SUBSET Int, IsFiniteSet(S), NEW k \in Int
  PROVE  /\ IsFiniteSet(Shift(S, k))
         /\ Cardinality(Shift(S, k)) = Cardinality(S)
  <1> DEFINE T == Shift(S, k)
             f == [i \in S |-> i + k]
  <1>1. f \in Bijection(S, T)
    <2>1. f \in [S -> T] /\ \A a, b \in S : f[a] = f[b] => a = b
      BY DEF Shift
    <2>2. \A t \in T : \E a \in S : f[a] = t
      BY DEF Shift
    <2>3. QED
      BY <2>1, <2>2 DEF Bijection, Injection, Surjection, IsInjective
  <1>2. ExistsBijection(S, T)
    BY <1>1 DEF ExistsBijection
  <1>3. QED
    BY <1>2, FS_Bijection

LEMMA AskingConcat ==
  ASSUME NEW es \in Seq(Event), NEW fs \in Seq(Event), NEW m
  PROVE  Cardinality(Asking(es \o fs, m))
           = Cardinality(Asking(es, m)) + Cardinality(Asking(fs, m))
  <1> DEFINE shifted == Shift(Asking(fs, m), Len(es))
  <1>1. Len(es) \in Nat /\ Len(fs) \in Nat /\ Asking(fs, m) \in SUBSET Int
    BY DEF Asking
  <1>2. Asking(es \o fs, m) = Asking(es, m) \cup shifted
    <2>1. Len(es \o fs) = Len(es) + Len(fs)
      OBVIOUS
    <2>2. ASSUME NEW i \in 1 .. Len(es) PROVE (es \o fs)[i] = es[i]
      BY <1>1, <2>2
    <2>3. ASSUME NEW i \in 1 .. Len(fs) PROVE (es \o fs)[i + Len(es)] = fs[i]
      BY <1>1, <2>3
    <2>4. ASSUME NEW i \in Asking(es \o fs, m) PROVE i \in Asking(es, m) \cup shifted
      <3>1. CASE i <= Len(es)
        BY <1>1, <2>1, <2>2, <2>4, <3>1 DEF Asking
      <3>2. CASE i > Len(es)
        <4>1. i - Len(es) \in 1 .. Len(fs) /\ i = (i - Len(es)) + Len(es)
          BY <1>1, <2>1, <2>4, <3>2 DEF Asking
        <4>2. fs[i - Len(es)] = (es \o fs)[i]
          BY <2>3, <4>1
        <4>3. i - Len(es) \in Asking(fs, m)
          BY <2>4, <4>1, <4>2 DEF Asking
        <4>4. QED
          BY <4>1, <4>3 DEF Shift
      <3>3. QED
        BY <1>1, <2>1, <2>4, <3>1, <3>2 DEF Asking
    <2>5. ASSUME NEW i \in Asking(es, m) PROVE i \in Asking(es \o fs, m)
      BY <1>1, <2>1, <2>2, <2>5 DEF Asking
    <2>6. ASSUME NEW i \in Asking(fs, m) PROVE i + Len(es) \in Asking(es \o fs, m)
      BY <1>1, <2>1, <2>3, <2>6 DEF Asking
    <2>7. QED
      BY <2>4, <2>5, <2>6 DEF Shift
  <1>3. /\ IsFiniteSet(shifted) /\ Cardinality(shifted) = Cardinality(Asking(fs, m))
    BY <1>1, AskingType, Shifted
  <1>4. Asking(es, m) \cap shifted = {}
    BY <1>1 DEF Asking, Shift
  <1>5. IsFiniteSet(Asking(es, m)) /\ Cardinality(Asking(es, m)) \in Nat
        /\ Cardinality(Asking(fs, m)) \in Nat
    BY AskingType
  <1>6. Cardinality(Asking(es, m) \cup shifted)
          = Cardinality(Asking(es, m)) + Cardinality(shifted)
    <2>1. Cardinality(Asking(es, m) \cap shifted) = 0
      BY <1>4, FS_EmptySet
    <2>2. Cardinality(Asking(es, m) \cup shifted)
            = Cardinality(Asking(es, m)) + Cardinality(shifted)
                - Cardinality(Asking(es, m) \cap shifted)
      BY <1>3, <1>5, FS_Union
    <2>3. QED
      BY <1>3, <1>5, <2>1, <2>2
  <1>7. QED
    BY <1>2, <1>3, <1>6

\* One event counts once, if it asks.
LEMMA AskingOne ==
  ASSUME NEW e \in Event, NEW m
  PROVE  Cardinality(Asking(<<e>>, m)) = IF e.of = m /\ Asks(e) THEN 1 ELSE 0
  <1>1. Len(<<e>>) = 1 /\ <<e>>[1] = e
    OBVIOUS
  <1>2. CASE e.of = m /\ Asks(e)
    <2>1. Asking(<<e>>, m) = {1}
      BY <1>1, <1>2 DEF Asking
    <2>2. QED
      BY <1>2, <2>1, FS_Singleton
  <1>3. CASE ~ (e.of = m /\ Asks(e))
    <2>1. Asking(<<e>>, m) = {}
      BY <1>1, <1>3 DEF Asking
    <2>2. QED
      BY <1>3, <2>1, FS_EmptySet
  <1>4. QED
    BY <1>2, <1>3

LEMMA AskingAppend ==
  ASSUME NEW es \in Seq(Event), NEW e \in Event, NEW m
  PROVE  Cardinality(Asking(Append(es, e), m))
           = Cardinality(Asking(es, m)) + IF e.of = m /\ Asks(e) THEN 1 ELSE 0
  <1>1. Append(es, e) = es \o <<e>> /\ <<e>> \in Seq(Event)
    OBVIOUS
  <1>2. Cardinality(Asking(es \o <<e>>, m))
          = Cardinality(Asking(es, m)) + Cardinality(Asking(<<e>>, m))
    BY <1>1, AskingConcat
  <1>3. QED
    BY <1>1, <1>2, AskingOne

LEMMA AskingTail ==
  ASSUME NEW es \in Seq(Event), es # <<>>, NEW m
  PROVE  Cardinality(Asking(es, m))
           = Cardinality(Asking(Tail(es), m))
               + IF Head(es).of = m /\ Asks(Head(es)) THEN 1 ELSE 0
  <1>1. /\ es = <<Head(es)>> \o Tail(es)
        /\ Head(es) \in Event /\ Tail(es) \in Seq(Event) /\ <<Head(es)>> \in Seq(Event)
    OBVIOUS
  <1>2. /\ Cardinality(Asking(<<Head(es)>>, m)) \in Nat
        /\ Cardinality(Asking(Tail(es), m)) \in Nat
    BY <1>1, AskingType
  <1>3. Cardinality(Asking(<<Head(es)>> \o Tail(es), m))
          = Cardinality(Asking(<<Head(es)>>, m)) + Cardinality(Asking(Tail(es), m))
    BY <1>1, AskingConcat
  <1>4. Cardinality(Asking(<<Head(es)>>, m))
          = IF Head(es).of = m /\ Asks(Head(es)) THEN 1 ELSE 0
    BY <1>1, AskingOne
  <1>5. Cardinality(Asking(es, m))
          = Cardinality(Asking(<<Head(es)>>, m)) + Cardinality(Asking(Tail(es), m))
    BY <1>1, <1>3
  <1>6. QED
    BY <1>2, <1>4, <1>5

------------------------------------------------------------------------------
(***************************************************************************)
(* Who an event is by.  One that asks for an answer, or that says it       *)
(* mentions the bot, is a user's: so the event loop, which looks at other  *)
(* fields than Asks does, handles exactly the events that ask.             *)
(***************************************************************************)
Genuine(e) == Asks(e) \/ e.kind = "mention" => e.by \in Users

EventsGenuine == \A i \in 1 .. Len(events) : Genuine(events[i])

Inv == TypeOK /\ EventsGenuine /\ EventsAccountedFor

LEMMA HandledIfAsks ==
  ASSUME NEW e \in Event, Genuine(e)
  PROVE  Asks(e) <=> ~ (IsIgnored(e) \/ e.size = 0)
  <1>1. e.size \in Nat
    BY DEF Event
  <1>2. QED
    BY <1>1, Constants DEF Genuine, Asks, IsIgnored

LEMMA HeadType ==
  ASSUME TypeOK, EventsGenuine, events # <<>>
  PROVE  /\ Head(events) \in Event /\ Genuine(Head(events))
         /\ Tail(events) \in Seq(Event)
         /\ \A i \in 1 .. Len(Tail(events)) : Genuine(Tail(events)[i])
  <1>1. events \in Seq(Event)
    BY DEF TypeOK
  <1>2. Head(events) = events[1] /\ 1 \in 1 .. Len(events)
    BY <1>1
  <1>3. Head(events) \in Event /\ Tail(events) \in Seq(Event)
    BY <1>1
  <1>4. ASSUME NEW i \in 1 .. Len(Tail(events))
        PROVE  Tail(events)[i] = events[i + 1] /\ i + 1 \in 1 .. Len(events)
    BY <1>1, <1>4
  <1>5. Genuine(Head(events))
    BY <1>2 DEF EventsGenuine
  <1>6. \A i \in 1 .. Len(Tail(events)) : Genuine(Tail(events)[i])
    BY <1>4 DEF EventsGenuine
  <1>7. QED
    BY <1>3, <1>5, <1>6

\* What Slack delivers is queued, and counted.
LEMMA Delivered ==
  ASSUME TypeOK, EventsGenuine, NEW es \in Seq(Event), Deliver(es),
         \A i \in 1 .. Len(es) : Genuine(es[i])
  PROVE  /\ events' \in Seq(Event) /\ EventsGenuine'
         /\ sent' \in 0 .. MaxEvents
         /\ delivered' \in [Messages -> Nat]
         /\ \A m \in Messages :
              /\ delivered'[m] = delivered[m] + Cardinality(Asking(es, m))
              /\ Cardinality(Asking(events', m))
                   = Cardinality(Asking(events, m)) + Cardinality(Asking(es, m))
  <1>1. /\ events \in Seq(Event) /\ events' = events \o es
        /\ sent \in 0 .. MaxEvents /\ sent' = sent + Len(es) /\ sent + Len(es) <= MaxEvents
        /\ delivered \in [Messages -> Nat]
        /\ delivered' = [m \in Messages |-> delivered[m] + Cardinality(Asking(es, m))]
    BY DEF Deliver, TypeOK
  <1>2. events' \in Seq(Event) /\ Len(events) \in Nat /\ Len(es) \in Nat
    BY <1>1
  <1>3. EventsGenuine'
    <2> SUFFICES ASSUME NEW i \in 1 .. Len(events') PROVE Genuine(events'[i])
      BY DEF EventsGenuine, Genuine, Asks
    <2>1. Len(events') = Len(events) + Len(es)
      BY <1>1
    <2>2. CASE i <= Len(events)
      <3>1. events'[i] = events[i] /\ i \in 1 .. Len(events)
        BY <1>1, <1>2, <2>1, <2>2
      <3>2. QED
        BY <3>1 DEF EventsGenuine
    <2>3. CASE i > Len(events)
      <3>1. events'[i] = es[i - Len(events)] /\ i - Len(events) \in 1 .. Len(es)
        BY <1>1, <1>2, <2>1, <2>3
      <3>2. QED
        BY <3>1
    <2>4. QED
      BY <1>2, <2>1, <2>2, <2>3
  <1>4. \A m \in Messages : Cardinality(Asking(es, m)) \in Nat
    BY AskingType
  <1>5. sent' \in 0 .. MaxEvents /\ delivered' \in [Messages -> Nat]
    BY <1>1, <1>2, <1>4, Constants
  <1>6. ASSUME NEW m \in Messages
        PROVE  Cardinality(Asking(events', m))
                 = Cardinality(Asking(events, m)) + Cardinality(Asking(es, m))
    BY <1>1, AskingConcat
  <1>7. QED
    BY <1>1, <1>2, <1>3, <1>5, <1>6

\* The two events of a mention, and the one of any other message, are a user's.
LEMMA SaysDelivers ==
  ASSUME TypeOK, NEW u \in Users, NEW size \in Texts,
         NEW kinds \in {<<"message">>, <<"message", "mention">>}, Says(kinds, u, size)
  PROVE  \E es \in Seq(Event) :
           Deliver(es) /\ \A i \in 1 .. Len(es) : Genuine(es[i])
  <1> DEFINE es == [i \in 1 .. Len(kinds) |->
                     [kind |-> kinds[i], of |-> said + 1, by |-> u, size |-> size]]
  <1>1. said + 1 \in Messages /\ size \in Nat
    BY Constants DEF Says, TypeOK, Messages, Texts
  <1>2. Len(kinds) \in Nat /\ \A i \in 1 .. Len(kinds) : kinds[i] \in {"message", "mention"}
    OBVIOUS
  <1>3. \A i \in 1 .. Len(kinds) : es[i] \in Event /\ es[i].by = u
    BY <1>1, <1>2 DEF Event
  <1>4. es \in Seq(Event) /\ Len(es) = Len(kinds)
    BY <1>2, <1>3
  <1>5. Deliver(es)
    BY DEF Says
  <1>6. \A i \in 1 .. Len(es) : Genuine(es[i])
    BY <1>3, <1>4 DEF Genuine
  <1>7. QED
    BY <1>4, <1>5, <1>6

\* Every step of Slack delivers events that exist and leaves the loop alone.
LEMMA SlackDelivers ==
  ASSUME TypeOK, EventsGenuine, Slack
  PROVE  /\ \E es \in Seq(Event) :
              Deliver(es) /\ \A i \in 1 .. Len(es) : Genuine(es[i])
         /\ UNCHANGED <<sessions, loop, crashes, answers, excuses>>
         /\ said' \in 0 .. MaxMessages
  <1>1. ASSUME NEW u \in Users, NEW size \in Texts, Write(u, size) \/ Mention(u, size)
        PROVE  /\ \E es \in Seq(Event) :
                    Deliver(es) /\ \A i \in 1 .. Len(es) : Genuine(es[i])
               /\ UNCHANGED <<sessions, loop, crashes, answers, excuses>>
               /\ said' \in 0 .. MaxMessages
    <2>1. PICK kinds \in {<<"message">>, <<"message", "mention">>} : Says(kinds, u, size)
      BY <1>1 DEF Write, Mention
    <2>2. /\ UNCHANGED <<sessions, loop, crashes, answers, excuses>>
          /\ said' \in 0 .. MaxMessages
      BY <2>1, Constants DEF Says, TypeOK
    <2>3. QED
      BY <2>1, <2>2, SaysDelivers
  <1>2. ASSUME NEW e \in Event, Genuine(e), Again(<<e>>)
        PROVE  /\ \E es \in Seq(Event) :
                    Deliver(es) /\ \A i \in 1 .. Len(es) : Genuine(es[i])
               /\ UNCHANGED <<sessions, loop, crashes, answers, excuses>>
               /\ said' \in 0 .. MaxMessages
    <2>1. <<e>> \in Seq(Event) /\ Len(<<e>>) = 1 /\ <<e>>[1] = e
      OBVIOUS
    <2>2. Deliver(<<e>>) /\ \A i \in 1 .. Len(<<e>>) : Genuine(<<e>>[i])
      BY <1>2, <2>1 DEF Again
    <2>3. QED
      BY <1>2, <2>1, <2>2 DEF Again, TypeOK
  <1>3. ASSUME NEW m \in Messages, Edit(m)
        PROVE  \E e \in Event : Genuine(e) /\ Again(<<e>>)
    <2> DEFINE e == [kind |-> "edit", of |-> m, by |-> NoUser, size |-> 1]
    <2>1. e \in Event /\ Genuine(e)
      BY DEF Event, Genuine, Asks
    <2>2. QED
      BY <1>3, <2>1 DEF Edit
  <1>4. ASSUME NEW i \in 1 .. Len(events), Resend(i)
        PROVE  \E e \in Event : Genuine(e) /\ Again(<<e>>)
    <2>1. events[i] \in Event /\ Genuine(events[i])
      BY DEF TypeOK, EventsGenuine
    <2>2. QED
      BY <1>4, <2>1 DEF Resend
  <1>5. QED
    BY <1>1, <1>2, <1>3, <1>4 DEF Slack

------------------------------------------------------------------------------
(***************************************************************************)
(* The event loop.                                                         *)
(***************************************************************************)
LEMMA SessionsAdded ==
  ASSUME TypeOK, NEW es \in Seq(Entry), AddMessages(es), NEW u,
         event.by = u
  PROVE  sessions' \in [Users \cup {Myself} -> Seq(Entry)]
  <1>1. sessions \in [Users \cup {Myself} -> Seq(Entry)]
    BY DEF TypeOK
  <1>2. ASSUME NEW v \in Users \cup {Myself} PROVE sessions[v] \o es \in Seq(Entry)
    BY <1>1
  <1>3. QED
    BY <1>1, <1>2 DEF AddMessages

LEMMA OneEntry ==
  ASSUME NEW role \in {"user", "assistant", "tool"}, NEW size \in Nat
  PROVE  <<Said(role, size)>> \in Seq(Entry)
  <1>1. Said(role, size) \in Entry
    BY DEF Said, Entry
  <1>2. QED
    BY <1>1

LEMMA ToolEntries ==
  ASSUME NEW results \in Results
  PROVE  [i \in 1 .. Len(results) |-> Said("tool", results[i])] \in Seq(Entry)
  <1>1. PICK n \in 1 .. MaxCalls : results \in [1 .. n -> ReplySizes]
    BY DEF Results
  <1>2. n \in Nat /\ results \in Seq(ReplySizes) /\ Len(results) = n
    BY <1>1, Constants
  <1>3. \A i \in 1 .. n : results[i] \in Nat
    BY <1>1, Constants
  <1>4. \A i \in 1 .. n : Said("tool", results[i]) \in Entry
    BY <1>3 DEF Said, Entry
  <1>5. QED
    BY <1>2, <1>4

\* The steps between taking an event and being done with it.
Continues ==
  /\ at # "idle" /\ at' \in {"chat", "post"} /\ event' = event
  /\ round' \in 0 .. MaxToolRounds - 1 /\ reply' \in Nat
  /\ UNCHANGED <<events, crashes, slack, answers, excuses>>

\* The steps that are done with it.
Finishes ==
  /\ at # "idle" /\ Done
  /\ UNCHANGED <<crashes, slack>>
  /\ \/ Excuse /\ UNCHANGED <<events, answers>>
     \/ /\ answers' = [answers EXCEPT ![event.of] = @ + 1]
        /\ UNCHANGED excuses
        /\ \E e \in Event : e.by = Myself /\ e.kind = "message" /\ events' = Append(events, e)

LEMMA LoopSteps ==
  ASSUME TypeOK, EventsGenuine, EventLoop
  PROVE  /\ sessions' \in [Users \cup {Myself} -> Seq(Entry)]
         /\ Ignore \/ Handle \/ Continues \/ Finishes
  <1> DEFINE Sessions == [Users \cup {Myself} -> Seq(Entry)]
  <1>0. /\ sessions \in Sessions /\ round \in 0 .. MaxToolRounds - 1 /\ reply \in Nat
        /\ (event = NoEvent) <=> (at = "idle")
        /\ event \in Event \cup {NoEvent}
    BY DEF TypeOK
  <1>1. CASE Ignore
    BY <1>0, <1>1 DEF Ignore
  <1>2. CASE Handle
    <2> DEFINE e == Head(events)
    <2>1. e \in Event
      BY <1>2, HeadType DEF Handle, Ack
    <2>2. [role |-> "user", size |-> e.size] \in Entry
      BY <2>1 DEF Event, Entry
    <2>3. sessions' = [sessions EXCEPT ![e.by] =
                         Append(sessions[e.by], [role |-> "user", size |-> e.size])]
      BY <1>2 DEF Handle
    <2>4. ASSUME NEW u \in Users \cup {Myself}
          PROVE  Append(sessions[u], [role |-> "user", size |-> e.size]) \in Seq(Entry)
      BY <1>0, <2>2
    <2>5. sessions' \in Sessions
      BY <1>0, <2>3, <2>4
    <2>6. QED
      BY <1>2, <2>5
  <1>3. ASSUME NEW size \in ReplySizes, Answer(size) PROVE sessions' \in Sessions /\ Continues
    <2>1. size \in Nat
      BY Constants
    <2>2. sessions' \in Sessions
      BY <1>3, <2>1, OneEntry, SessionsAdded DEF Answer
    <2>3. QED
      BY <1>3, <2>1, <2>2, Constants DEF Answer, Reply, Continues
  <1>4. CASE AnswerNothing
    <2>1. sessions' \in Sessions
      BY <1>4, OneEntry, SessionsAdded DEF AnswerNothing
    <2>2. QED
      BY <1>4, <2>1 DEF AnswerNothing, Finishes
  <1>5. ASSUME NEW results \in Results, CallTools(results)
        PROVE  sessions' \in Sessions /\ Continues
    <2>1. sessions' \in Sessions
      BY <1>5, ToolEntries, SessionsAdded DEF CallTools
    <2>2. CASE round + 1 < MaxToolRounds
      BY <1>0, <1>5, <2>1, <2>2, Constants DEF CallTools, Continues
    <2>3. CASE ~ (round + 1 < MaxToolRounds)
      BY <1>5, <2>1, <2>3, Constants DEF CallTools, Reply, Fallback, Continues
    <2>4. QED
      BY <2>2, <2>3
  <1>6. CASE ChatFails
    BY <1>0, <1>6, Constants DEF ChatFails, Reply, Fallback, Continues
  <1>7. CASE Post
    <2> DEFINE e == [kind |-> "message", of |-> event.of, by |-> Myself, size |-> reply]
    <2>1. event \in Event
      BY <1>0, <1>7 DEF Post
    <2>2. e \in Event /\ e.by = Myself /\ e.kind = "message"
      BY <1>0, <2>1 DEF Event
    <2>3. QED
      BY <1>0, <1>7, <2>2 DEF Post, Finishes
  <1>8. CASE PostFails
    BY <1>0, <1>8 DEF PostFails, Finishes
  <1>9. QED
    BY <1>1, <1>2, <1>3, <1>4, <1>5, <1>6, <1>7, <1>8 DEF EventLoop

\* The event at hand is an event, of a message.
LEMMA EventAtHand ==
  ASSUME TypeOK, at # "idle"
  PROVE  event \in Event /\ event.of \in Messages
  BY DEF TypeOK, Event

LEMMA NoEventApart ==
  /\ NoEvent \notin Event
  /\ at = "idle" /\ TypeOK => event = NoEvent
  <1>1. NoEvent.kind = "none"
    BY DEF NoEvent
  <1>2. \A e \in Event : e.kind # "none"
    BY DEF Event
  <1>3. QED
    BY <1>1, <1>2 DEF TypeOK

\* A count of one message's goes up.
LEMMA OneMore ==
  ASSUME NEW f \in [Messages -> Nat], NEW g, NEW k \in Messages,
         g = [f EXCEPT ![k] = @ + 1]
  PROVE  /\ g \in [Messages -> Nat]
         /\ \A m \in Messages : g[m] = f[m] + IF k = m THEN 1 ELSE 0
  <1>1. g[k] = f[k] + 1 /\ \A m \in Messages \ {k} : g[m] = f[m] + 0
    OBVIOUS
  <1>2. QED
    BY <1>1

LEMMA BotTypeStep == TypeOK /\ EventsGenuine /\ [Next]_vars => TypeOK'
  <1> SUFFICES ASSUME TypeOK, EventsGenuine, [Next]_vars PROVE TypeOK'
    OBVIOUS
  <1>1. CASE Slack
    <2>1. /\ events' \in Seq(Event) /\ sent' \in 0 .. MaxEvents
          /\ delivered' \in [Messages -> Nat]
      BY <1>1, SlackDelivers, Delivered
    <2>2. /\ UNCHANGED <<sessions, loop, crashes, answers, excuses>>
          /\ said' \in 0 .. MaxMessages
      BY <1>1, SlackDelivers
    <2>3. QED
      BY <2>1, <2>2 DEF TypeOK, loop
  <1>2. CASE Ignore
    <2>1. Tail(events) \in Seq(Event)
      BY <1>2, HeadType DEF Ignore, Ack
    <2>2. QED
      BY <1>2, <2>1 DEF Ignore, Ack, TypeOK, slack
  <1>3. CASE Handle /\ sessions' \in [Users \cup {Myself} -> Seq(Entry)]
    <2>1. Head(events) \in Event /\ Tail(events) \in Seq(Event)
      BY <1>3, HeadType DEF Handle, Ack
    <2>2. event' \in Event /\ event' # NoEvent /\ at' = "chat"
      BY <1>3, <2>1, NoEventApart DEF Handle
    <2>3. QED
      BY <1>3, <2>1, <2>2 DEF Handle, Ack, TypeOK, slack
  <1>4. CASE Continues /\ sessions' \in [Users \cup {Myself} -> Seq(Entry)]
    BY <1>4 DEF Continues, TypeOK, slack
  <1>5. CASE Finishes /\ sessions' \in [Users \cup {Myself} -> Seq(Entry)]
    <2>1. event \in Event /\ event.of \in Messages
      BY <1>5, EventAtHand DEF Finishes
    <2>2. events' \in Seq(Event)
      <3>1. events \in Seq(Event)
        BY DEF TypeOK
      <3>2. events' = events \/ \E e \in Event : events' = Append(events, e)
        BY <1>5 DEF Finishes
      <3>3. QED
        BY <3>1, <3>2
    <2>3. answers' \in [Messages -> Nat] /\ excuses' \in [Messages -> Nat]
      <3>1. answers \in [Messages -> Nat] /\ excuses \in [Messages -> Nat]
        BY DEF TypeOK
      <3>2. CASE Excuse /\ UNCHANGED answers
        BY <2>1, <3>1, <3>2, OneMore DEF Excuse
      <3>3. CASE answers' = [answers EXCEPT ![event.of] = @ + 1] /\ UNCHANGED excuses
        BY <2>1, <3>1, <3>3, OneMore
      <3>4. QED
        BY <1>5, <3>2, <3>3 DEF Finishes
    <2>4. 0 \in 0 .. MaxToolRounds - 1
      BY Constants
    <2>5. QED
      BY <1>5, <2>2, <2>3, <2>4 DEF Finishes, Done, TypeOK, slack
  <1>6. CASE Crash
    <2>1. excuses' \in [Messages -> Nat]
      <3>1. excuses \in [Messages -> Nat]
        BY DEF TypeOK
      <3>2. QED
        BY <1>6, <3>1, EventAtHand, OneMore DEF Crash, Excuse
    <2>2. sessions' \in [Users \cup {Myself} -> Seq(Entry)]
      BY <1>6 DEF Crash
    <2>3. crashes' \in 0 .. MaxCrashes /\ 0 \in 0 .. MaxToolRounds - 1
      BY <1>6, Constants DEF Crash, TypeOK
    <2>4. QED
      BY <1>6, <2>1, <2>2, <2>3 DEF Crash, Done, TypeOK, slack
  <1>7. CASE UNCHANGED vars
    BY <1>7 DEF vars, loop, slack, TypeOK
  <1>8. QED
    BY <1>1, <1>2, <1>3, <1>4, <1>5, <1>6, <1>7, LoopSteps DEF Next

LEMMA GenuineStep == TypeOK /\ EventsGenuine /\ [Next]_vars => EventsGenuine'
  <1> SUFFICES ASSUME TypeOK, EventsGenuine, [Next]_vars PROVE EventsGenuine'
    OBVIOUS
  <1>1. CASE Slack
    BY <1>1, SlackDelivers, Delivered
  <1>2. CASE Ignore \/ Handle
    BY <1>2, HeadType DEF Ignore, Handle, Ack, EventsGenuine, Genuine, Asks
  <1>3. CASE events' = events
    BY <1>3 DEF EventsGenuine, Genuine, Asks
  <1>4. ASSUME NEW e \in Event, e.by = Myself, e.kind = "message", events' = Append(events, e)
        PROVE  EventsGenuine'
    <2>1. Genuine(e)
      BY <1>4 DEF Genuine, Asks
    <2>2. events \in Seq(Event)
      BY DEF TypeOK
    <2>3. ASSUME NEW i \in 1 .. Len(events') PROVE Genuine(events'[i])
      <3>1. CASE i <= Len(events)
        <4>1. i \in 1 .. Len(events) /\ events'[i] = events[i]
          BY <1>4, <2>2, <2>3, <3>1
        <4>2. QED
          BY <4>1 DEF EventsGenuine
      <3>2. CASE i > Len(events)
        <4>1. events'[i] = e
          BY <1>4, <2>2, <2>3, <3>2
        <4>2. QED
          BY <2>1, <4>1
      <3>3. QED
        BY <2>2, <2>3, <3>1, <3>2
    <2>4. QED
      BY <2>3 DEF EventsGenuine, Genuine, Asks
  <1>5. QED
    BY <1>1, <1>2, <1>3, <1>4, LoopSteps DEF Next, Continues, Finishes, Crash, vars

LEMMA AccountedStep == Inv /\ [Next]_vars => EventsAccountedFor'
  <1> SUFFICES ASSUME TypeOK, EventsGenuine, EventsAccountedFor, [Next]_vars,
                      NEW m \in Messages
               PROVE  delivered'[m] = answers'[m] + excuses'[m] + Pending(m)'
    BY DEF Inv, EventsAccountedFor
  <1> DEFINE waits == Cardinality(Asking(events, m))
             waitsThen == Cardinality(Asking(events', m))
             inHand == IF at # "idle" /\ event.of = m THEN 1 ELSE 0
             inHandThen == IF at' # "idle" /\ event'.of = m THEN 1 ELSE 0
  <1>1. delivered[m] = answers[m] + excuses[m] + (waits + inHand)
    BY DEF EventsAccountedFor, Pending
  <1>2. Pending(m)' = waitsThen + inHandThen
    BY DEF Pending, Asking, Asks
  <1>3. /\ delivered[m] \in Nat /\ answers[m] \in Nat /\ excuses[m] \in Nat
        /\ waits \in Nat /\ inHand \in {0, 1}
    BY AskingType DEF TypeOK
  <1> SUFFICES delivered'[m] = answers'[m] + excuses'[m] + (waitsThen + inHandThen)
    BY <1>2
  <1> HIDE DEF waits, waitsThen, inHand, inHandThen
  <1>4. CASE Slack
    <2>1. PICK es \in Seq(Event) : Deliver(es) /\ \A i \in 1 .. Len(es) : Genuine(es[i])
      BY <1>4, SlackDelivers
    <2>2. /\ delivered'[m] = delivered[m] + Cardinality(Asking(es, m))
          /\ waitsThen = waits + Cardinality(Asking(es, m))
          /\ Cardinality(Asking(es, m)) \in Nat
      BY <2>1, Delivered, AskingType DEF waits, waitsThen
    <2>3. UNCHANGED <<at, event, answers, excuses>>
      BY <1>4, SlackDelivers DEF loop
    <2>4. inHandThen = inHand
      BY <2>3 DEF inHand, inHandThen
    <2> DEFINE new == Cardinality(Asking(es, m))
    <2>5. /\ delivered'[m] = delivered[m] + new /\ waitsThen = waits + new /\ new \in Nat
          /\ answers'[m] = answers[m] /\ excuses'[m] = excuses[m]
      BY <2>2, <2>3
    <2> HIDE DEF new
    <2>6. QED
      BY <1>1, <1>3, <2>4, <2>5
  <1>5. CASE Ignore \/ Handle
    <2> DEFINE e == Head(events)
    <2>1. /\ events # <<>> /\ events' = Tail(events)
          /\ UNCHANGED <<delivered, answers, excuses>>
          /\ e \in Event /\ Genuine(e) /\ events \in Seq(Event)
      BY <1>5, HeadType DEF Ignore, Handle, Ack, slack, TypeOK
    <2>2. waits = waitsThen + IF e.of = m /\ Asks(e) THEN 1 ELSE 0
      BY <2>1, AskingTail DEF waits, waitsThen
    <2>3. waitsThen \in Nat
      <3>1. events' \in Seq(Event)
        BY <2>1
      <3>2. QED
        BY <3>1, AskingType DEF waitsThen
    <2>4. CASE Ignore
      <3>1. ~ Asks(e)
        BY <2>1, <2>4, HandledIfAsks DEF Ignore
      <3>2. inHandThen = inHand
        BY <2>4 DEF Ignore, inHand, inHandThen
      <3>3. QED
        BY <1>1, <1>3, <2>1, <2>2, <2>3, <3>1, <3>2
    <2>5. CASE Handle
      <3>1. Asks(e) /\ at = "idle" /\ at' = "chat" /\ event' = e
        BY <2>1, <2>5, HandledIfAsks DEF Handle, Ack
      <3>2. inHand = 0 /\ inHandThen = IF e.of = m THEN 1 ELSE 0
        BY <3>1 DEF inHand, inHandThen
      <3>3. QED
        BY <1>1, <1>3, <2>1, <2>2, <2>3, <3>1, <3>2
    <2>6. QED
      BY <1>5, <2>4, <2>5
  <1>6. CASE Continues
    <2>1. UNCHANGED <<events, event, delivered, answers, excuses>> /\ at # "idle" /\ at' # "idle"
      BY <1>6 DEF Continues, slack
    <2>2. waitsThen = waits /\ inHandThen = inHand
      BY <2>1 DEF waits, waitsThen, inHand, inHandThen
    <2>3. QED
      BY <1>1, <1>3, <2>1, <2>2
  <1>7. ASSUME at # "idle", at' = "idle", Excuse, UNCHANGED <<events, delivered, answers>>
        PROVE  delivered'[m] = answers'[m] + excuses'[m] + (waitsThen + inHandThen)
    <2>1. event.of \in Messages
      BY <1>7, EventAtHand
    <2>2. excuses'[m] = excuses[m] + IF event.of = m THEN 1 ELSE 0
      BY <1>7, <2>1, OneMore DEF Excuse, TypeOK
    <2>3. waitsThen = waits /\ inHandThen = 0 /\ inHand = IF event.of = m THEN 1 ELSE 0
      BY <1>7 DEF waits, waitsThen, inHand, inHandThen
    <2>4. QED
      BY <1>1, <1>3, <1>7, <2>2, <2>3
  <1>8. CASE Finishes
    <2>1. at # "idle" /\ at' = "idle" /\ UNCHANGED delivered
      BY <1>8 DEF Finishes, Done, slack
    <2>2. CASE Excuse /\ UNCHANGED <<events, answers>>
      BY <1>7, <2>1, <2>2
    <2>3. ASSUME answers' = [answers EXCEPT ![event.of] = @ + 1], excuses' = excuses,
                 NEW e \in Event, e.by = Myself, events' = Append(events, e)
          PROVE  delivered'[m] = answers'[m] + excuses'[m] + (waitsThen + inHandThen)
      <3>1. event.of \in Messages
        BY <2>1, EventAtHand
      <3>2. answers'[m] = answers[m] + IF event.of = m THEN 1 ELSE 0
        BY <2>3, <3>1, OneMore DEF TypeOK
      <3>3. ~ Asks(e) /\ events \in Seq(Event)
        BY <2>3 DEF Asks, TypeOK
      <3>4. Cardinality(Asking(Append(events, e), m))
              = Cardinality(Asking(events, m)) + IF e.of = m /\ Asks(e) THEN 1 ELSE 0
        BY <3>3, AskingAppend
      <3>5. waitsThen = waits
        BY <1>3, <2>3, <3>3, <3>4 DEF waits, waitsThen
      <3>6. inHandThen = 0 /\ inHand = IF event.of = m THEN 1 ELSE 0
        BY <2>1 DEF inHand, inHandThen
      <3>7. answers'[m] = answers[m] + inHand /\ delivered'[m] = delivered[m]
              /\ excuses'[m] = excuses[m]
        BY <2>1, <2>3, <3>2, <3>6
      <3>8. QED
        BY <1>1, <1>3, <3>5, <3>6, <3>7
    <2>4. QED
      BY <1>8, <2>2, <2>3 DEF Finishes
  <1>9. CASE Crash
    <2>1. at' = "idle" /\ UNCHANGED <<events, delivered, answers>>
      BY <1>9 DEF Crash, Done, slack
    <2>2. CASE at = "idle"
      <3>1. excuses' = excuses /\ waitsThen = waits /\ inHandThen = 0 /\ inHand = 0
        BY <1>9, <2>1, <2>2 DEF Crash, waits, waitsThen, inHand, inHandThen
      <3>2. QED
        BY <1>1, <1>3, <2>1, <3>1
    <2>3. CASE at # "idle"
      BY <1>7, <1>9, <2>1, <2>3 DEF Crash
    <2>4. QED
      BY <2>2, <2>3
  <1>10. CASE UNCHANGED vars
    <2>1. UNCHANGED <<events, at, event, delivered, answers, excuses>>
      BY <1>10 DEF vars, loop, slack
    <2>2. waitsThen = waits /\ inHandThen = inHand
      BY <2>1 DEF waits, waitsThen, inHand, inHandThen
    <2>3. QED
      BY <1>1, <1>3, <2>1, <2>2
  <1>11. QED
    BY <1>4, <1>5, <1>6, <1>8, <1>9, <1>10, LoopSteps DEF Next

\* The inductive invariant of Bot: the types, who events are by, and what has become
\* of each event.
THEOREM BotInvariance == Spec => []Inv
  <1>1. Init => Inv
    <2> SUFFICES ASSUME Init PROVE Inv
      OBVIOUS
    <2>1. TypeOK
      BY Constants, NoEventApart DEF Init, TypeOK
    <2>2. events = <<>> /\ Len(events) = 0 /\ at = "idle"
      BY DEF Init
    <2>3. EventsGenuine
      BY <2>2 DEF EventsGenuine
    <2>4. ASSUME NEW m \in Messages PROVE Pending(m) = 0
      <3>1. Asking(events, m) = {}
        BY <2>2 DEF Asking
      <3>2. QED
        BY <2>2, <3>1, FS_EmptySet DEF Pending
    <2>5. EventsAccountedFor
      BY <2>4 DEF Init, EventsAccountedFor
    <2>6. QED
      BY <2>1, <2>3, <2>5 DEF Inv
  <1>2. Inv /\ [Next]_vars => Inv'
    BY BotTypeStep, GenuineStep, AccountedStep DEF Inv
  <1>3. QED
    BY <1>1, <1>2, PTL DEF Spec

\* Every variable of Bot has its type in every reachable state.
THEOREM BotTypeCorrect == Spec => []TypeOK
  BY BotInvariance, PTL DEF Inv

\* However Slack repeats events, tools and posts fail and the process crashes, an
\* event that asks for an answer is answered once, or waits, or its silence has one
\* of the three reasons; what does not ask is never answered.
THEOREM NothingElseIsSilent == Spec => []EventsAccountedFor
  BY BotInvariance, PTL DEF Inv
------------------------------------------------------------------------------
(***************************************************************************)
(* Why nobody waits behind one question for ever.  At an event the loop    *)
(* has a round of tools fewer left after each step, whatever the model     *)
(* asks for; between events each step takes one of them off the queue.     *)
(***************************************************************************)
StepsLeft ==
  CASE at = "chat" -> 1 + MaxToolRounds - round
    [] at = "post" -> 1
    [] OTHER       -> 0

Serves ==
  /\ at # "idle" => StepsLeft' <= StepsLeft
  /\ EventLoop => IF at = "idle" THEN events' = Tail(events)
                                 ELSE StepsLeft' < StepsLeft

LEMMA StepsLeftType ==
  ASSUME TypeOK
  PROVE  StepsLeft \in 0 .. 1 + MaxToolRounds
  BY Constants DEF TypeOK, StepsLeft

\* The loop is idle only between events, and a question it takes begins with round 0.
LEMMA LoopServes ==
  ASSUME TypeOK, EventLoop
  PROVE  IF at = "idle" THEN events' = Tail(events) ELSE StepsLeft' < StepsLeft
  <1> USE Constants
  <1>1. round \in 0 .. MaxToolRounds - 1 /\ at \in {"idle", "chat", "post"}
    BY DEF TypeOK
  <1>2. CASE Ignore \/ Handle
    BY <1>2 DEF Ignore, Handle, Ack
  <1>3. ASSUME NEW size, at = "chat", Reply(size) PROVE StepsLeft' < StepsLeft
    BY <1>1, <1>3 DEF Reply, StepsLeft
  <1>4. ASSUME at # "idle", Done PROVE StepsLeft' < StepsLeft
    BY <1>1, <1>4 DEF Done, StepsLeft
  <1>5. CASE AnswerNothing \/ Post \/ PostFails
    BY <1>4, <1>5 DEF AnswerNothing, Post, PostFails
  <1>6. CASE ChatFails \/ \E size \in ReplySizes : Answer(size)
    BY <1>3, <1>6 DEF ChatFails, Answer
  <1>7. ASSUME NEW results \in Results, CallTools(results) PROVE at = "chat" /\ StepsLeft' < StepsLeft
    <2>1. CASE round + 1 < MaxToolRounds
      BY <1>1, <1>7, <2>1 DEF CallTools, StepsLeft
    <2>2. CASE ~ (round + 1 < MaxToolRounds)
      BY <1>3, <1>7, <2>2 DEF CallTools
    <2>3. QED
      BY <1>7, <2>1, <2>2 DEF CallTools
  <1>8. QED
    BY <1>2, <1>5, <1>6, <1>7 DEF EventLoop

\* The event loop is done with a question after at most one Chat per round and a
\* post; Slack cannot keep it longer, and a crash only ends it.
THEOREM QuestionsWindDown ==
  Spec => [](StepsLeft \in 0 .. 1 + MaxToolRounds) /\ [][Serves]_vars
  <1> DEFINE Few == StepsLeft \in 0 .. 1 + MaxToolRounds
  <1>1. TypeOK => Few
    BY StepsLeftType
  <1>2. TypeOK /\ Few /\ Few' /\ [Next]_vars => [Serves]_vars
    <2> SUFFICES ASSUME TypeOK, Few, Few', Next PROVE Serves
      OBVIOUS
    <2>1. StepsLeft \in Int /\ StepsLeft' \in Int /\ StepsLeft >= 0
      BY Constants
    <2>2. EventLoop => IF at = "idle" THEN events' = Tail(events) ELSE StepsLeft' < StepsLeft
      BY LoopServes
    <2>3. ASSUME at # "idle" PROVE StepsLeft' <= StepsLeft
      <3>1. CASE EventLoop
        BY <2>1, <2>2, <2>3, <3>1
      <3>2. CASE Slack
        <4>1. at' = at /\ round' = round
          BY <3>2 DEF Slack, Write, Mention, Edit, Resend, Says, Again, loop
        <4>2. QED
          BY <2>1, <4>1 DEF StepsLeft
      <3>3. CASE Crash
        <4>1. StepsLeft' = 0
          BY <3>3 DEF Crash, Done, StepsLeft
        <4>2. QED
          BY <2>1, <4>1
      <3>4. QED
        BY <3>1, <3>2, <3>3 DEF Next
    <2>4. QED
      BY <2>2, <2>3 DEF Serves
  <1>3. QED
    BY <1>1, <1>2, BotTypeCorrect, PTL DEF Spec
------------------------------------------------------------------------------
(***************************************************************************)
(* What Window is given.  Sessions keep what failed requests left: their   *)
(* questions and results of tools, without an answer.  The question asked  *)
(* comes after all of it, followed by the results of its own tools alone.  *)
(***************************************************************************)
AskedLast(s, e) ==
  \E i \in 1 .. Len(s) :
    /\ s[i] = Said("user", e.size)
    /\ \A j \in i + 1 .. Len(s) : s[j].role = "tool"
    /\ round = 0 => i = Len(s)

QuestionInSession ==
  at = "chat" => event.by \in Users /\ AskedLast(sessions[event.by], event)

\* Each event begins with the first round.
RoundsBegin == at # "chat" => round = 0

LEMMA HandleAsks ==
  ASSUME TypeOK, EventsGenuine, RoundsBegin, Handle
  PROVE  QuestionInSession'
  <1> DEFINE e == Head(events)
             s == sessions[e.by]
  <1>1. e \in Event /\ Genuine(e) /\ round = 0
    BY HeadType DEF Handle, Ack, RoundsBegin
  <1>2. event' = e /\ at' = "chat" /\ round' = round /\ e.by \in Users
    BY <1>1, HandledIfAsks DEF Handle, Ack, Genuine
  <1>3. s \in Seq(Entry) /\ sessions'[e.by] = Append(s, Said("user", e.size))
    BY <1>2 DEF Handle, Said, TypeOK
  <1>4. /\ Len(sessions'[e.by]) = Len(s) + 1
        /\ Len(s) + 1 \in 1 .. Len(s) + 1
        /\ sessions'[e.by][Len(s) + 1] = Said("user", e.size)
    BY <1>3
  <1>5. AskedLast(sessions[event.by], event)'
    BY <1>2, <1>4 DEF AskedLast, Said
  <1>6. QED
    BY <1>2, <1>5 DEF QuestionInSession

LEMMA ToolsFollow ==
  ASSUME TypeOK, QuestionInSession, NEW results \in Results, CallTools(results)
  PROVE  QuestionInSession'
  <1> DEFINE s == sessions[event.by]
             es == [i \in 1 .. Len(results) |-> Said("tool", results[i])]
  <1>1. CASE at' = "chat"
    <2>1. event' = event /\ round' # 0 /\ event.by \in Users
      BY <1>1, Constants DEF CallTools, Reply, QuestionInSession, TypeOK
    <2>2. /\ s \in Seq(Entry) /\ es \in Seq(Entry)
          /\ sessions'[event.by] = s \o es
      BY <2>1, ToolEntries DEF CallTools, AddMessages, TypeOK
    <2>3. PICK i \in 1 .. Len(s) :
            /\ s[i] = Said("user", event.size)
            /\ \A j \in i + 1 .. Len(s) : s[j].role = "tool"
      BY <1>1, <2>1 DEF CallTools, QuestionInSession, AskedLast
    <2>4. i \in 1 .. Len(s \o es) /\ (s \o es)[i] = Said("user", event.size)
      BY <2>2, <2>3
    <2>5. ASSUME NEW j \in i + 1 .. Len(s \o es) PROVE (s \o es)[j].role = "tool"
      <3>1. CASE j <= Len(s)
        BY <2>2, <2>3, <2>5, <3>1
      <3>2. CASE j > Len(s)
        <4>1. j - Len(s) \in 1 .. Len(es) /\ (s \o es)[j] = es[j - Len(s)]
          BY <2>2, <2>5, <3>2
        <4>2. DOMAIN es = 1 .. Len(es)
          BY <2>2
        <4>3. es[j - Len(s)] = Said("tool", results[j - Len(s)])
          BY <4>1, <4>2
        <4>4. QED
          BY <4>1, <4>3 DEF Said
      <3>3. QED
        BY <2>2, <2>3, <2>5, <3>1, <3>2
    <2>6. AskedLast(sessions[event.by], event)'
      BY <2>1, <2>2, <2>4, <2>5 DEF AskedLast, Said
    <2>7. QED
      BY <2>1, <2>6 DEF QuestionInSession
  <1>2. QED
    BY <1>1 DEF QuestionInSession

\* Before each Chat the user's session ends with the question and what its own tools
\* returned, however many requests of that user or others failed before.
THEOREM QuestionIsKept == Spec => []QuestionInSession
  <1>1. Init => QuestionInSession /\ RoundsBegin
    BY DEF Init, QuestionInSession, RoundsBegin
  <1>2. TypeOK /\ EventsGenuine /\ RoundsBegin /\ QuestionInSession /\ [Next]_vars => QuestionInSession'
    <2> SUFFICES ASSUME TypeOK, EventsGenuine, RoundsBegin, QuestionInSession, [Next]_vars
                 PROVE  QuestionInSession'
      OBVIOUS
    <2>1. CASE UNCHANGED <<at, event, round, sessions>>
      BY <2>1 DEF QuestionInSession, AskedLast, Said
    <2>2. CASE Slack \/ Ignore \/ UNCHANGED vars
      BY <2>1, <2>2 DEF Slack, Write, Mention, Edit, Resend, Says, Again, Ignore, Ack, loop, vars
    <2>3. CASE at' # "chat"
      BY <2>3 DEF QuestionInSession
    <2>4. CASE Crash \/ AnswerNothing \/ ChatFails \/ Post \/ PostFails
               \/ \E size \in ReplySizes : Answer(size)
      BY <2>3, <2>4 DEF Crash, AnswerNothing, ChatFails, Post, PostFails, Answer, Reply, Done
    <2>5. QED
      BY <2>2, <2>4, HandleAsks, ToolsFollow DEF Next, EventLoop
  <1>3. RoundsBegin /\ [Next]_vars => RoundsBegin'
    BY DEF RoundsBegin, Next, EventLoop, Slack, Write, Mention, Edit, Resend, Says, Again, Ignore,
       Handle, Ack, Crash, AnswerNothing, CallTools, ChatFails, Post, PostFails, Answer, Reply,
       Done, loop, vars
  <1>4. QED
    BY <1>1, <1>2, <1>3, BotInvariance, PTL DEF Spec, Inv
------------------------------------------------------------------------------
(***************************************************************************)
(* Window.  It is computed by a recursion over the session, so what it     *)
(* computes is shown by induction; the library's induction theorems cannot *)
(* be used, and the pigeonhole principle takes their place.                *)
(***************************************************************************)
\* A set of numbers up to N that holds 0 and, with a number, the next one is all of
\* them: if it left N out, taking each of its numbers to the next would be a map
\* into one number fewer, and no two of them to the same.
LEMMA SetInduction ==
  ASSUME NEW N \in Nat, NEW A \in SUBSET (0 .. N), 0 \in A,
         \A k \in A : k < N => k + 1 \in A
  PROVE  A = 0 .. N
  <1>1. ASSUME NEW n \in 0 .. N, n \notin A PROVE FALSE
    <2> DEFINE B == A \cap 0 .. n
               f == [k \in B |-> k + 1]
    <2>1. IsFiniteSet(0 .. n) /\ B \in SUBSET (0 .. n) /\ 0 \in B
      BY FS_Interval
    <2>2. IsFiniteSet(B) /\ Cardinality(B) \in Nat
      BY <2>1, FS_Subset, FS_CardinalityType
    <2>3. IsFiniteSet(B \ {0}) /\ Cardinality(B \ {0}) = Cardinality(B) - 1
      BY <2>1, <2>2, FS_RemoveElement
    <2>4. f \in [B -> B \ {0}]
      <3>1. ASSUME NEW k \in B PROVE k + 1 \in B \ {0}
        <4>1. k \in 0 .. n /\ k # n /\ k < N /\ k \in A
          BY <1>1
        <4>2. k + 1 \in A
          BY <4>1
        <4>3. QED
          BY <4>1, <4>2
      <3> HIDE DEF B
      <3>2. QED
        BY <3>1
    <2>5. Cardinality(B \ {0}) < Cardinality(B)
      BY <2>2, <2>3
    <2>6. \E x, y \in B : x # y /\ f[x] = f[y]
      <3> HIDE DEF B, f
      <3>1. QED
        BY <2>2, <2>3, <2>4, <2>5, FS_PigeonHole
    <2>7. QED
      BY <2>1, <2>6
  <1>2. QED
    BY <1>1

\* What a recursion over 0 .. N takes from step to step.
Unrolls(f, N, start, step) ==
  f = [n \in 0 .. N |-> IF n = 0 THEN start ELSE step[n][f[n - 1]]]

LEMMA RecursionExists ==
  ASSUME NEW N \in Nat, NEW T, NEW start \in T, NEW step \in [1 .. N -> [T -> T]]
  PROVE  \E f \in [0 .. N -> T] : Unrolls(f, N, start, step)
  <1> DEFINE A == {k \in 0 .. N : \E f \in [0 .. k -> T] :
                                    Unrolls(f, k, start, step)}
  <1>1. 0 \in A
    <2> DEFINE f == [n \in 0 .. 0 |-> start]
    <2>1. f \in [0 .. 0 -> T] /\ Unrolls(f, 0, start, step)
      BY DEF Unrolls
    <2> HIDE DEF f
    <2>2. QED
      BY <2>1
  <1>2. ASSUME NEW k \in A, k < N PROVE k + 1 \in A
    <2>1. k \in 0 .. N
      OBVIOUS
    <2>2. PICK f \in [0 .. k -> T] : Unrolls(f, k, start, step)
      OBVIOUS
    <2> DEFINE g == [n \in 0 .. k + 1 |-> IF n <= k THEN f[n] ELSE step[k + 1][f[k]]]
    <2>3. step[k + 1][f[k]] \in T
      <3>1. k + 1 \in 1 .. N /\ f[k] \in T
        BY <2>1, <2>2, <1>2
      <3>2. step[k + 1] \in [T -> T]
        BY <3>1
      <3>3. QED
        BY <3>1, <3>2
    <2>4. g \in [0 .. k + 1 -> T]
      BY <2>1, <2>2, <2>3
    <2>5. ASSUME NEW n \in 0 .. k + 1
          PROVE  g[n] = IF n = 0 THEN start ELSE step[n][g[n - 1]]
      <3>1. CASE n = 0
        <4>1. g[n] = f[0] /\ f[0] = start
          BY <2>1, <2>2, <3>1 DEF Unrolls
        <4>2. QED
          BY <3>1, <4>1
      <3>2. CASE n # 0 /\ n <= k
        <4>1. n \in 0 .. k /\ n - 1 \in 0 .. k /\ n - 1 \in 0 .. k + 1 /\ n - 1 <= k
          BY <2>1, <3>2
        <4>2. g[n] = f[n] /\ g[n - 1] = f[n - 1]
          BY <4>1, <3>2
        <4>3. f[n] = step[n][f[n - 1]]
          BY <2>2, <4>1, <3>2 DEF Unrolls
        <4>4. QED
          BY <3>2, <4>2, <4>3
      <3>3. CASE n = k + 1
        <4>1. k \in 0 .. k + 1 /\ n - 1 = k /\ ~ (n <= k) /\ n # 0
          BY <2>1, <3>3
        <4>2. g[k] = f[k] /\ g[n] = step[k + 1][f[k]]
          BY <4>1, <2>1
        <4>3. QED
          BY <3>3, <4>1, <4>2
      <3>4. QED
        BY <2>1, <3>1, <3>2, <3>3
    <2>6. Unrolls(g, k + 1, start, step)
      <3> DEFINE h == [n \in 0 .. k + 1 |-> IF n = 0 THEN start ELSE step[n][g[n - 1]]]
      <3>1. \A n \in 0 .. k + 1 : g[n] = h[n]
        BY <2>5
      <3>2. g = h
        BY <3>1
      <3>3. QED
        BY <3>2 DEF Unrolls
    <2>7. k + 1 \in 0 .. N
      BY <2>1, <1>2
    <2> HIDE DEF g
    <2>8. QED
      BY <2>4, <2>6, <2>7
  <1>3. A = 0 .. N
    <2>1. A \in SUBSET (0 .. N) /\ \A k \in A : k < N => k + 1 \in A
      BY <1>2
    <2> HIDE DEF A
    <2>2. QED
      BY <1>1, <2>1, SetInduction
  <1>4. N \in A
    BY <1>3
  <1>5. QED
    BY <1>4

------------------------------------------------------------------------------
\* The tokens of the last messages of a session are what they are meant to be.
LEMMA TotalsUnroll ==
  ASSUME NEW s \in Seq(Entry)
  PROVE  /\ Totals(s) \in [0 .. Len(s) -> Nat]
         /\ Totals(s)[0] = 0
         /\ \A n \in 1 .. Len(s) :
              Totals(s)[n] = Totals(s)[n - 1] + Tokens(s[Len(s) - n + 1])
  <1> DEFINE N == Len(s)
             tokens == [n \in 1 .. N |-> Tokens(s[N - n + 1])]
             step == [n \in 1 .. N |-> [t \in Nat |-> t + tokens[n]]]
             Sums(f) == f = [n \in 0 .. N |-> IF n = 0 THEN 0 ELSE f[n - 1] + Tokens(s[N - n + 1])]
  <1>1. N \in Nat
    OBVIOUS
  <1>2. tokens \in [1 .. N -> Nat]
    <2>1. ASSUME NEW n \in 1 .. N PROVE Tokens(s[N - n + 1]) \in Nat
      <3>1. N - n + 1 \in 1 .. N
        BY <1>1
      <3>2. s[N - n + 1] \in Entry
        BY <3>1
      <3>3. QED
        BY <3>2 DEF Entry, Tokens
    <2>2. QED
      BY <2>1
  <1>3. step \in [1 .. N -> [Nat -> Nat]]
    BY <1>2
  <1>4. PICK f \in [0 .. N -> Nat] : Unrolls(f, N, 0, step)
    <2> HIDE DEF N, step
    <2>1. QED
      BY <1>1, <1>3, RecursionExists
  <1>5. ASSUME NEW n \in 1 .. N
        PROVE  /\ n - 1 \in 0 .. N /\ n \in 0 .. N /\ n # 0
               /\ \A t \in Nat : step[n][t] = t + Tokens(s[N - n + 1])
    BY <1>1
  <1>6. Sums(f)
    <2> DEFINE g == [n \in 0 .. N |-> IF n = 0 THEN 0 ELSE f[n - 1] + Tokens(s[N - n + 1])]
    <2>1. ASSUME NEW n \in 0 .. N PROVE f[n] = g[n]
      <3>1. f[n] = IF n = 0 THEN 0 ELSE step[n][f[n - 1]]
        BY <1>4 DEF Unrolls
      <3>2. CASE n = 0
        BY <3>1, <3>2
      <3>3. CASE n \in 1 .. N
        <4>1. f[n - 1] \in Nat
          BY <1>4, <1>5, <3>3
        <4>2. step[n][f[n - 1]] = f[n - 1] + Tokens(s[N - n + 1])
          BY <1>5, <3>3, <4>1
        <4>3. QED
          BY <1>5, <3>1, <3>3, <4>2
      <3>4. QED
        BY <1>1, <3>2, <3>3
    <2>2. QED
      BY <2>1
  <1> DEFINE total == Totals(s)
  <1>7. Sums(total)
    <2>1. total = CHOOSE t : Sums(t)
      BY DEF Totals
    <2> HIDE DEF Sums, total
    <2>2. QED
      BY <1>6, <2>1
  <1>8. /\ total[0] = 0
        /\ \A n \in 1 .. N : total[n] = total[n - 1] + tokens[n]
        /\ DOMAIN total = 0 .. N
    <2> HIDE DEF total
    <2>1. QED
      BY <1>1, <1>5, <1>7
  <1>9. \A n \in 0 .. N : total[n] \in Nat
    <2> DEFINE A == {n \in 0 .. N : total[n] \in Nat}
    <2> HIDE DEF total, tokens, N
    <2>1. 0 \in A
      BY <1>1, <1>8
    <2>2. ASSUME NEW k \in A, k < N PROVE k + 1 \in A
      <3>1. k + 1 \in 1 .. N /\ (k + 1) - 1 = k /\ total[k] \in Nat
        BY <1>1, <2>2
      <3>2. total[k + 1] = total[k] + tokens[k + 1] /\ tokens[k + 1] \in Nat
        BY <1>2, <1>8, <3>1
      <3>3. QED
        BY <1>1, <3>1, <3>2
    <2>3. A \in SUBSET (0 .. N) /\ \A k \in A : k < N => k + 1 \in A
      BY <2>2
    <2>4. A = 0 .. N
      <3> HIDE DEF A
      <3>1. QED
        BY <1>1, <2>1, <2>3, SetInduction
    <2>5. QED
      BY <2>4
  <1>10. total \in [0 .. N -> Nat]
    <2>1. total = [n \in 0 .. N |-> total[n]]
      <3> HIDE DEF total
      <3>1. QED
        BY <1>7
    <2>2. QED
      BY <1>9, <2>1
  <1>11. QED
    BY <1>8, <1>10

\* The tokens of more messages are no fewer.
LEMMA TotalsGrow ==
  ASSUME NEW s \in Seq(Entry), NEW m \in 0 .. Len(s), NEW k \in 0 .. m
  PROVE  Totals(s)[k] <= Totals(s)[m]
  <1> DEFINE total == Totals(s)
             N == Len(s)
             A == {n \in 0 .. N : \A l \in 0 .. n : total[l] <= total[n]}
  <1>1. N \in Nat /\ total \in [0 .. N -> Nat]
    BY TotalsUnroll
  <1>2. ASSUME NEW n \in 0 .. N, n < N PROVE total[n] <= total[n + 1]
    <2>1. n + 1 \in 1 .. N /\ (n + 1) - 1 = n /\ N - (n + 1) + 1 \in 1 .. N
      BY <1>1, <1>2
    <2>2. total[n + 1] = total[n] + Tokens(s[N - (n + 1) + 1])
      BY <2>1, TotalsUnroll
    <2>3. s[N - (n + 1) + 1] \in Entry
      BY <2>1
    <2>4. Tokens(s[N - (n + 1) + 1]) \in Nat
      BY <2>3 DEF Entry, Tokens
    <2>5. total[n] \in Nat
      BY <1>1
    <2> HIDE DEF total, N
    <2>6. QED
      BY <2>2, <2>4, <2>5
  <1> HIDE DEF total, N
  <1>3. 0 \in A
    BY <1>1
  <1>4. ASSUME NEW n \in A, n < N PROVE n + 1 \in A
    <2>1. ASSUME NEW l \in 0 .. n + 1 PROVE total[l] <= total[n + 1]
      <3>1. n \in 0 .. N /\ n + 1 \in 0 .. N /\ total[n] <= total[n + 1]
        BY <1>1, <1>2, <1>4
      <3>2. total[n] \in Nat /\ total[n + 1] \in Nat
        BY <1>1, <3>1
      <3>3. CASE l = n + 1
        BY <3>2, <3>3
      <3>4. CASE l \in 0 .. n
        <4>1. total[l] <= total[n] /\ total[l] \in Nat
          BY <1>1, <3>1, <3>4
        <4>2. QED
          BY <3>1, <3>2, <4>1
      <3>5. QED
        BY <1>1, <3>1, <3>3, <3>4
    <2>2. QED
      BY <1>1, <1>4, <2>1
  <1>5. A = 0 .. N
    <2>1. A \in SUBSET (0 .. N) /\ \A n \in A : n < N => n + 1 \in A
      BY <1>4
    <2> HIDE DEF A
    <2>2. QED
      BY <1>1, <1>3, <2>1, SetInduction
  <1>6. QED
    BY <1>5 DEF total, N

LEMMA LastOfType ==
  ASSUME NEW s \in Seq(Entry), NEW n \in 0 .. Len(s)
  PROVE  /\ LastOf(s, n) \in Seq(Entry)
         /\ Len(LastOf(s, n)) = n
         /\ \A i \in 1 .. n : LastOf(s, n)[i] = s[Len(s) - n + i]
  BY DEF LastOf

\* The last messages of the end of a session are the last of the session.
LEMMA TotalsOfLast ==
  ASSUME NEW s \in Seq(Entry), NEW m \in 0 .. Len(s)
  PROVE  Total(LastOf(s, m)) = Totals(s)[m]
  <1> DEFINE w == LastOf(s, m)
             A == {n \in 0 .. m : Totals(w)[n] = Totals(s)[n]}
  <1>1. /\ m \in Nat /\ Len(s) \in Nat /\ w \in Seq(Entry) /\ Len(w) = m
        /\ \A i \in 1 .. m : w[i] = s[Len(s) - m + i]
    BY LastOfType
  <1> HIDE DEF w
  <1>2. 0 \in A
    BY <1>1, TotalsUnroll
  <1>3. ASSUME NEW n \in A, n < m PROVE n + 1 \in A
    <2>1. /\ n + 1 \in 0 .. m /\ n + 1 \in 1 .. m /\ n + 1 \in 1 .. Len(s)
          /\ (n + 1) - 1 = n /\ Totals(w)[n] = Totals(s)[n]
          /\ m - (n + 1) + 1 \in 1 .. m
          /\ Len(s) - m + (m - (n + 1) + 1) = Len(s) - (n + 1) + 1
      BY <1>1, <1>3
    <2>2. Totals(w)[n + 1] = Totals(w)[n] + Tokens(w[m - (n + 1) + 1])
      BY <1>1, <2>1, TotalsUnroll
    <2>3. Totals(s)[n + 1] = Totals(s)[n] + Tokens(s[Len(s) - (n + 1) + 1])
      BY <1>1, <2>1, TotalsUnroll
    <2>4. w[m - (n + 1) + 1] = s[Len(s) - (n + 1) + 1]
      BY <1>1, <2>1
    <2>5. QED
      BY <2>1, <2>2, <2>3, <2>4
  <1>4. A = 0 .. m
    <2>1. A \in SUBSET (0 .. m) /\ \A n \in A : n < m => n + 1 \in A
      BY <1>3
    <2> HIDE DEF A
    <2>2. QED
      BY <1>1, <1>2, <2>1, SetInduction
  <1>5. m \in A
    BY <1>1, <1>4
  <1>6. QED
    BY <1>1, <1>5 DEF Total, w

\* Window takes the longest end of a session whose tokens are within the budget.
LEMMA WindowIsLongest ==
  ASSUME NEW s \in Seq(Entry)
  PROVE  \E n \in 0 .. Len(s) :
           /\ Window(s) = LastOf(s, n)
           /\ Totals(s)[n] <= Budget
           /\ \A m \in 0 .. Len(s) : Totals(s)[m] <= Budget => m <= n
  <1> DEFINE F == Fitting(s)
             N == Len(s)
  <1>1. N \in Nat /\ F \in SUBSET (0 .. N)
    BY DEF Fitting
  <1>2. ASSUME NEW m \in 0 .. N PROVE m \in F <=> Totals(s)[m] <= Budget
    <2>1. m \in F => Totals(s)[m] <= Budget
      BY <1>1, <1>2 DEF Fitting
    <2>2. ASSUME Totals(s)[m] <= Budget PROVE m \in F
      <3>1. ASSUME NEW k \in 0 .. m PROVE Totals(s)[k] <= Budget
        <4>1. Totals(s)[k] <= Totals(s)[m]
          BY TotalsGrow
        <4>2. Totals(s)[k] \in Nat /\ Totals(s)[m] \in Nat
          <5>1. k \in 0 .. N
            BY <1>1
          <5>2. QED
            BY <5>1, TotalsUnroll
        <4>3. QED
          BY <2>2, <4>1, <4>2, BudgetType
      <3>2. QED
        BY <3>1 DEF Fitting
    <2>3. QED
      BY <2>1, <2>2
  <1> HIDE DEF F
  <1>3. 0 \in F
    BY <1>1, <1>2, TotalsUnroll, BudgetType
  <1>4. ASSUME NEW k \in F, NEW y \in F, ~ (y <= k) PROVE k + 1 \in F
    <2>1. k \in 0 .. N /\ y \in 0 .. N /\ k + 1 \in 0 .. y /\ k + 1 \in 0 .. N
      BY <1>1, <1>4
    <2>2. Totals(s)[k + 1] <= Totals(s)[y] /\ Totals(s)[y] <= Budget
      BY <1>2, <2>1, TotalsGrow
    <2>3. Totals(s)[k + 1] \in Nat /\ Totals(s)[y] \in Nat
      BY <2>1, TotalsUnroll
    <2>4. QED
      BY <1>2, <2>1, <2>2, <2>3, BudgetType
  <1>5. \E n \in F : \A y \in F : y <= n
    <2> SUFFICES ASSUME \A n \in F : \E y \in F : ~ (y <= n) PROVE FALSE
      OBVIOUS
    <2>1. \A k \in F : k + 1 \in F
      BY <1>4
    <2>2. F = 0 .. N
      BY <1>1, <1>3, <2>1, SetInduction
    <2> HIDE DEF N
    <2>3. N \in F /\ \A y \in F : y <= N
      BY <1>1, <2>2
    <2>4. QED
      BY <2>3
  <1>6. Max(F) \in F /\ \A y \in F : y <= Max(F)
    BY <1>5 DEF Max
  <1>7. Window(s) = LastOf(s, Max(F))
    BY DEF Window, F
  <1> HIDE DEF N
  <1>8. QED
    <2> DEFINE n == Max(F)
    <2>1. n \in 0 .. N /\ Totals(s)[n] <= Budget
      BY <1>1, <1>2, <1>6
    <2>2. \A m \in 0 .. N : Totals(s)[m] <= Budget => m <= n
      BY <1>2, <1>6
    <2> HIDE DEF n
    <2>3. QED
      BY <1>7, <2>1, <2>2 DEF n, N

------------------------------------------------------------------------------
\* Before each Chat of every round, for any budget and any sizes of what users write
\* and tools return: the model is given the longest end of the user's session within
\* the budget, and so the question with the results of its own tools, the end that
\* follows whatever failed before, just when all of these are within it.
THEOREM ModelAlwaysSeesQuestion == Spec => []ModelSeesQuestion
  <1>1. TypeOK /\ QuestionInSession => ModelSeesQuestion
    <2> SUFFICES ASSUME TypeOK, QuestionInSession, at = "chat" PROVE ModelSeesQuestion
      BY DEF ModelSeesQuestion
    <2> DEFINE s == sessions[event.by]
               w == Window(s)
    <2>1. event.by \in Users /\ AskedLast(s, event)
      BY DEF QuestionInSession
    <2>2. s \in Seq(Entry) /\ Len(s) \in Nat
      BY <2>1 DEF TypeOK
    <2> HIDE DEF s
    <2>4. PICK n \in 0 .. Len(s) :
            /\ w = LastOf(s, n)
            /\ Totals(s)[n] <= Budget
            /\ \A m \in 0 .. Len(s) : Totals(s)[m] <= Budget => m <= n
      BY <2>2, WindowIsLongest
    <2>5. Len(w) = n
      BY <2>2, <2>4, LastOfType
    <2> HIDE DEF w
    <2>6. Total(w) <= Budget
      BY <2>2, <2>4, TotalsOfLast
    <2>7. \A m \in 0 .. Len(s) : Total(LastOf(s, m)) <= Budget => m <= Len(w)
      BY <2>2, <2>4, <2>5, TotalsOfLast
    <2>8. ASSUME NEW m \in 0 .. Len(s)
          PROVE  m <= Len(w) <=> Total(LastOf(s, m)) <= Budget
      <3>1. ASSUME m <= Len(w) PROVE Total(LastOf(s, m)) <= Budget
        <4>1. m \in 0 .. n
          BY <2>2, <2>5, <3>1
        <4>2. Totals(s)[m] <= Totals(s)[n]
          BY <2>2, <4>1, TotalsGrow
        <4>3. Totals(s)[m] \in Nat /\ Totals(s)[n] \in Nat
          BY <2>2, TotalsUnroll
        <4>4. Totals(s)[m] <= Budget
          BY <2>4, <4>2, <4>3, BudgetType
        <4>5. QED
          BY <2>2, <4>4, TotalsOfLast
      <3>2. QED
        BY <2>7, <3>1
    <2>9. PICK i \in 1 .. Len(s) :
            /\ s[i] = Said("user", event.size)
            /\ \A j \in i + 1 .. Len(s) : s[j].role = "tool"
            /\ round = 0 => i = Len(s)
      BY <2>1 DEF AskedLast
    <2> DEFINE m == Len(s) - i + 1
    <2>10. /\ m \in 1 .. Len(s) /\ m \in 0 .. Len(s)
           /\ 1 \in 1 .. m /\ Len(s) - m + 1 = i
           /\ round = 0 => m = 1
      BY <2>2, <2>9
    <2>11. \A k \in 1 .. m : LastOf(s, m)[k] = s[Len(s) - m + k]
      BY <2>2, <2>10, LastOfType
    <2>12. LastOf(s, m)[1] = Said("user", event.size)
      BY <2>9, <2>10, <2>11
    <2>13. ASSUME NEW k \in 2 .. m PROVE LastOf(s, m)[k].role = "tool"
      <3>1. k \in 1 .. m /\ Len(s) - m + k \in i + 1 .. Len(s)
        BY <2>2, <2>10
      <3>2. QED
        BY <2>9, <2>11, <3>1
    <2> HIDE DEF m
    <2>14. \E l \in 1 .. Len(s) :
             /\ LastOf(s, l)[1] = Said("user", event.size)
             /\ \A k \in 2 .. l : LastOf(s, l)[k].role = "tool"
             /\ round = 0 => l = 1
             /\ l <= Len(w) <=> Total(LastOf(s, l)) <= Budget
      BY <2>8, <2>10, <2>12, <2>13
    <2>15. QED
      BY <2>6, <2>7, <2>14 DEF ModelSeesQuestion, w, s
  <1>2. QED
    BY <1>1, BotTypeCorrect, QuestionIsKept, PTL
------------------------------------------------------------------------------
(***************************************************************************)
(* Bot implements Inbox.                                                   *)
(***************************************************************************)
Line == Seq(Messages)

LEMMA QuestionType ==
  ASSUME NEW e \in Event
  PROVE  Question(e) \in Line
  <1>1. e.of \in Messages
    BY DEF Event
  <1>2. QED
    BY <1>1 DEF Question, Line

LEMMA LineConcat ==
  ASSUME NEW p \in Line, NEW q \in Line
  PROVE  /\ p \o q \in Line
         /\ p \o <<>> = p /\ <<>> \o p = p
  BY ConcatProperties, ConcatEmptySeq DEF Line

LEMMA LineAssociative ==
  \A p, q, r \in Line : (p \o q) \o r = p \o (q \o r)
  BY ConcatAssociative DEF Line

\* How Questions walks through the events.
Walks(asked, es) ==
  /\ asked \in [0 .. Len(es) -> Line]
  /\ asked[0] = <<>>
  /\ \A n \in 1 .. Len(es) : asked[n] = asked[n - 1] \o Question(es[n])

LEMMA QuestionsWalk ==
  ASSUME NEW es \in Seq(Event)
  PROVE  \E asked : Walks(asked, es) /\ Questions(es) = asked[Len(es)]
  <1> DEFINE N == Len(es)
             step == [n \in 1 .. N |-> [q \in Line |-> q \o Question(es[n])]]
             Lists(f) == f = [n \in 0 .. N |-> IF n = 0 THEN <<>> ELSE f[n - 1] \o Question(es[n])]
  <1>1. N \in Nat /\ <<>> \in Line
    BY DEF Line
  <1>2. \A n \in 1 .. N : Question(es[n]) \in Line
    BY QuestionType
  <1>3. step \in [1 .. N -> [Line -> Line]]
    BY <1>2, LineConcat
  <1>4. PICK f \in [0 .. N -> Line] : Unrolls(f, N, <<>>, step)
    <2> HIDE DEF N, step
    <2>1. QED
      BY <1>1, <1>3, RecursionExists
  <1>5. ASSUME NEW n \in 1 .. N
        PROVE  /\ n - 1 \in 0 .. N /\ n \in 0 .. N /\ n # 0
               /\ \A q \in Line : step[n][q] = q \o Question(es[n])
    BY <1>1
  <1>6. Lists(f)
    <2> DEFINE g == [n \in 0 .. N |-> IF n = 0 THEN <<>> ELSE f[n - 1] \o Question(es[n])]
    <2>1. ASSUME NEW n \in 0 .. N PROVE f[n] = g[n]
      <3>1. f[n] = IF n = 0 THEN <<>> ELSE step[n][f[n - 1]]
        BY <1>4 DEF Unrolls
      <3>2. CASE n = 0
        BY <3>1, <3>2
      <3>3. CASE n \in 1 .. N
        <4>1. f[n - 1] \in Line
          BY <1>4, <1>5, <3>3
        <4>2. step[n][f[n - 1]] = f[n - 1] \o Question(es[n])
          BY <1>5, <3>3, <4>1
        <4>3. QED
          BY <1>5, <3>1, <3>3, <4>2
      <3>4. QED
        BY <1>1, <3>2, <3>3
    <2>2. QED
      BY <2>1
  <1> DEFINE asked == CHOOSE f_1 : Lists(f_1)
  <1>7. Lists(asked)
    <2> HIDE DEF Lists
    <2>1. QED
      BY <1>6
  <1>8. Questions(es) = asked[N]
    BY DEF Questions
  <1> HIDE DEF asked
  <1>9. /\ asked[0] = <<>>
        /\ \A n \in 1 .. N : asked[n] = asked[n - 1] \o Question(es[n])
        /\ asked = [n \in 0 .. N |-> asked[n]]
    <2> DEFINE h(n) == IF n = 0 THEN <<>> ELSE asked[n - 1] \o Question(es[n])
    <2>1. asked = [n \in 0 .. N |-> h(n)]
      BY <1>7
    <2> HIDE DEF h, N
    <2>2. asked = [n \in 0 .. N |-> asked[n]] /\ \A n \in 0 .. N : asked[n] = h(n)
      BY <2>1
    <2>3. 0 \in 0 .. N /\ h(0) = <<>>
      BY <1>1 DEF h
    <2>4. ASSUME NEW n \in 1 .. N PROVE h(n) = asked[n - 1] \o Question(es[n])
      BY <1>5 DEF h
    <2>5. QED
      BY <1>5, <2>2, <2>3, <2>4
  <1>10. \A n \in 0 .. N : asked[n] \in Line
    <2> DEFINE A == {n \in 0 .. N : asked[n] \in Line}
    <2> HIDE DEF N
    <2>1. 0 \in A
      BY <1>1, <1>9
    <2>2. ASSUME NEW k \in A, k < N PROVE k + 1 \in A
      <3>1. k + 1 \in 1 .. N /\ (k + 1) - 1 = k /\ asked[k] \in Line
        BY <1>1, <2>2
      <3>2. asked[k + 1] = asked[k] \o Question(es[k + 1]) /\ Question(es[k + 1]) \in Line
        BY <1>2, <1>9, <3>1
      <3>3. asked[k] \o Question(es[k + 1]) \in Line
        BY <3>1, <3>2, LineConcat
      <3>4. asked[k + 1] \in Line /\ k + 1 \in 0 .. N
        BY <1>1, <3>1, <3>2, <3>3
      <3>5. QED
        BY <3>4
    <2>3. A \in SUBSET (0 .. N) /\ \A k \in A : k < N => k + 1 \in A
      BY <2>2
    <2>4. A = 0 .. N
      <3> HIDE DEF A
      <3>1. QED
        BY <1>1, <2>1, <2>3, SetInduction
    <2>5. QED
      BY <2>4
  <1>11. QED
    BY <1>8, <1>9, <1>10 DEF Walks

LEMMA QuestionsAppend ==
  ASSUME NEW es \in Seq(Event), NEW e \in Event
  PROVE  /\ Questions(es) \in Line /\ Questions(Append(es, e)) \in Line
         /\ Questions(Append(es, e)) = Questions(es) \o Question(e)
  <1> DEFINE fs == Append(es, e)
             N == Len(es)
  <1>1. /\ N \in Nat /\ fs \in Seq(Event) /\ Len(fs) = N + 1 /\ fs[N + 1] = e
        /\ \A n \in 1 .. N : fs[n] = es[n]
    OBVIOUS
  <1>2. PICK f : Walks(f, es) /\ Questions(es) = f[Len(es)]
    BY QuestionsWalk
  <1> HIDE DEF fs
  <1>3. PICK g : Walks(g, fs) /\ Questions(fs) = g[Len(fs)]
    BY <1>1, QuestionsWalk
  <1> DEFINE A == {n \in 0 .. N : g[n] = f[n]}
  <1>4. 0 \in A
    BY <1>1, <1>2, <1>3 DEF Walks
  <1>5. ASSUME NEW n \in A, n < N PROVE n + 1 \in A
    <2>1. n + 1 \in 1 .. N /\ n + 1 \in 1 .. Len(fs) /\ (n + 1) - 1 = n /\ g[n] = f[n]
      BY <1>1, <1>5
    <2>2. g[n + 1] = g[n] \o Question(fs[n + 1]) /\ f[n + 1] = f[n] \o Question(es[n + 1])
      BY <1>2, <1>3, <2>1 DEF Walks
    <2>3. fs[n + 1] = es[n + 1] /\ n + 1 \in 0 .. N
      BY <1>1, <2>1
    <2>4. g[n + 1] = f[n + 1]
      BY <2>1, <2>2, <2>3, Zenon
    <2>5. QED
      BY <2>3, <2>4
  <1>6. A = 0 .. N
    <2>1. A \in SUBSET (0 .. N) /\ \A n \in A : n < N => n + 1 \in A
      BY <1>5
    <2> HIDE DEF A, N
    <2>2. QED
      BY <1>1, <1>4, <2>1, SetInduction
  <1>7. g[N] = f[N] /\ f[N] \in Line /\ g[N + 1] \in Line
    <2>1. N \in A
      BY <1>1, <1>6
    <2>2. QED
      BY <1>1, <1>2, <1>3, <2>1 DEF Walks
  <1>8. g[N + 1] = g[N] \o Question(e)
    <2>1. N + 1 \in 1 .. Len(fs) /\ (N + 1) - 1 = N
      BY <1>1
    <2>2. QED
      BY <1>1, <1>3, <2>1 DEF Walks
  <1>9. QED
    BY <1>1, <1>2, <1>3, <1>7, <1>8 DEF fs

LEMMA QuestionsTail ==
  ASSUME NEW es \in Seq(Event), es # <<>>
  PROVE  /\ Questions(Tail(es)) \in Line
         /\ Questions(es) = Question(Head(es)) \o Questions(Tail(es))
  <1> DEFINE fs == Tail(es)
             N == Len(fs)
             q == Question(Head(es))
  <1>1. /\ N \in Nat /\ fs \in Seq(Event) /\ Len(es) = N + 1 /\ Head(es) = es[1]
        /\ Head(es) \in Event
        /\ \A n \in 1 .. N : fs[n] = es[n + 1]
    OBVIOUS
  <1>2. q \in Line
    BY <1>1, QuestionType
  <1>3. PICK f : Walks(f, es) /\ Questions(es) = f[Len(es)]
    BY QuestionsWalk
  <1> HIDE DEF fs
  <1>4. PICK g : Walks(g, fs) /\ Questions(fs) = g[Len(fs)]
    BY <1>1, QuestionsWalk
  <1> DEFINE A == {n \in 0 .. N : f[n + 1] = q \o g[n]}
  <1> HIDE DEF q
  <1>5. 0 \in A
    <2>1. 1 \in 1 .. Len(es) /\ 1 - 1 = 0
      BY <1>1
    <2>2. f[1] = <<>> \o q /\ g[0] = <<>>
      BY <1>1, <1>3, <1>4, <2>1 DEF Walks, q
    <2>3. f[0 + 1] = q \o g[0]
      BY <1>2, <2>2, LineConcat
    <2>4. QED
      BY <1>1, <2>3
  <1>6. ASSUME NEW n \in A, n < N PROVE n + 1 \in A
    <2>1. /\ n \in 0 .. N /\ n + 1 \in 1 .. N /\ (n + 1) - 1 = n
          /\ (n + 1) + 1 \in 1 .. Len(es) /\ ((n + 1) + 1) - 1 = n + 1
          /\ f[n + 1] = q \o g[n]
      BY <1>1, <1>6
    <2>2. g[n + 1] = g[n] \o Question(fs[n + 1])
      BY <1>4, <2>1 DEF Walks
    <2>3. f[(n + 1) + 1] = f[n + 1] \o Question(es[(n + 1) + 1])
      BY <1>3, <2>1 DEF Walks
    <2>4. fs[n + 1] = es[(n + 1) + 1] /\ fs[n + 1] \in Event
      BY <1>1, <2>1
    <2>5. g[n] \in Line /\ Question(fs[n + 1]) \in Line
      BY <1>4, <2>1, <2>4, QuestionType DEF Walks
    <2>6. (q \o g[n]) \o Question(fs[n + 1]) = q \o (g[n] \o Question(fs[n + 1]))
      BY <1>2, <2>5, LineAssociative, Zenon
    <2>7. f[(n + 1) + 1] = q \o g[n + 1]
      BY <2>1, <2>2, <2>3, <2>4, <2>6, Zenon
    <2>8. QED
      BY <1>1, <2>1, <2>7
  <1>7. A = 0 .. N
    <2>1. A \in SUBSET (0 .. N) /\ \A n \in A : n < N => n + 1 \in A
      BY <1>6
    <2> HIDE DEF A, N
    <2>2. QED
      BY <1>1, <1>5, <2>1, SetInduction
  <1>8. f[N + 1] = q \o g[N]
    BY <1>1, <1>7
  <1>9. g[N] \in Line
    BY <1>1, <1>4 DEF Walks
  <1>10. QED
    BY <1>1, <1>3, <1>4, <1>8, <1>9 DEF fs, q

------------------------------------------------------------------------------
\* One more event after those in a line: it is in the line if it asks.
LEMMA LineGrows ==
  ASSUME NEW p \in Line, NEW es \in Seq(Event), NEW e \in Event
  PROVE  /\ p \o Questions(es) \in Line
         /\ p \o Questions(Append(es, e)) =
              IF Asks(e) THEN Append(p \o Questions(es), e.of) ELSE p \o Questions(es)
  <1> DEFINE q == Questions(es)
             r == p \o q
             then == p \o Questions(Append(es, e))
  <1>1. e.of \in Messages /\ Question(e) \in Line
    BY QuestionType DEF Event
  <1>2. q \in Line /\ Questions(Append(es, e)) = q \o Question(e)
    BY QuestionsAppend
  <1>3. r \in Line
    BY <1>2, LineConcat
  <1>4. then = p \o (q \o Question(e))
    BY <1>2
  <1>5. (p \o q) \o Question(e) = p \o (q \o Question(e))
    BY <1>1, <1>2, LineAssociative, Zenon
  <1> HIDE DEF then, q
  <1>6. then = r \o Question(e)
    BY <1>4, <1>5, Zenon
  <1> HIDE DEF r
  <1>7. CASE Asks(e)
    <2>1. Question(e) = <<e.of>>
      BY <1>7 DEF Question
    <2>2. r \o <<e.of>> = Append(r, e.of)
      BY <1>1, <1>3 DEF Line
    <2>3. then = Append(r, e.of)
      BY <1>6, <2>1, <2>2, Zenon
    <2>4. QED
      BY <1>3, <1>7, <2>3 DEF r, q, then
  <1>8. CASE ~ Asks(e)
    <2>1. Question(e) = <<>>
      BY <1>8 DEF Question
    <2>2. r \o <<>> = r
      BY <1>3, LineConcat
    <2>3. then = r
      BY <1>6, <2>1, <2>2, Zenon
    <2>4. QED
      BY <1>3, <1>8, <2>3 DEF r, q, then
  <1>9. QED
    BY <1>7, <1>8

\* The question at hand comes before those in the queue.
AtHand == IF at = "idle" THEN <<>> ELSE <<event.of>>

LEMMA UnansweredIs ==
  /\ Unanswered = AtHand \o Questions(events)
  /\ Unanswered' = AtHand' \o Questions(events')
  BY DEF Unanswered, AtHand, Questions, Question, Asks

LEMMA UnansweredType ==
  ASSUME TypeOK
  PROVE  /\ AtHand \in Line /\ Questions(events) \in Line /\ Unanswered \in Line
         /\ events \in Seq(Event)
  <1>1. events \in Seq(Event)
    BY DEF TypeOK
  <1>2. AtHand \in Line
    BY EventAtHand DEF AtHand, Line
  <1>3. Questions(events) \in Line
    <2>1. PICK asked : Walks(asked, events) /\ Questions(events) = asked[Len(events)]
      BY <1>1, QuestionsWalk
    <2>2. Len(events) \in 0 .. Len(events)
      BY <1>1
    <2>3. QED
      BY <2>1, <2>2 DEF Walks
  <1>4. QED
    BY <1>1, <1>2, <1>3, UnansweredIs, LineConcat

boxVars == <<Unanswered, answers, excuses>>

\* Slack delivers one event more, or the two of a mention.
LEMMA OneArrives ==
  ASSUME TypeOK, NEW e \in Event, events' = Append(events, e),
         UNCHANGED <<at, event, answers, excuses>>
  PROVE  [Box!Next]_boxVars
  <1>1. /\ Unanswered = AtHand \o Questions(events)
        /\ Unanswered' = AtHand \o Questions(Append(events, e))
    BY UnansweredIs DEF AtHand
  <1>2. Unanswered' = IF Asks(e) THEN Append(Unanswered, e.of) ELSE Unanswered
    BY <1>1, UnansweredType, LineGrows
  <1>3. e.of \in Messages
    BY DEF Event
  <1>4. QED
    BY <1>2, <1>3 DEF Box!Next, Box!Arrive, boxVars

LEMMA MentionArrives ==
  ASSUME TypeOK, NEW e \in Event, NEW f \in Event, f.of = e.of, Asks(e) <=> Asks(f),
         events' = Append(Append(events, e), f),
         UNCHANGED <<at, event, answers, excuses>>
  PROVE  [Box!Next]_boxVars
  <1> DEFINE es == Append(events, e)
             once == AtHand \o Questions(es)
  <1>1. events \in Seq(Event) /\ es \in Seq(Event) /\ AtHand \in Line
    BY UnansweredType
  <1>2. /\ Unanswered = AtHand \o Questions(events)
        /\ Unanswered' = AtHand \o Questions(Append(es, f))
    BY UnansweredIs DEF AtHand
  <1>3. once = IF Asks(e) THEN Append(Unanswered, e.of) ELSE Unanswered
    BY <1>1, <1>2, LineGrows
  <1> HIDE DEF es
  <1>4. Unanswered' = IF Asks(f) THEN Append(once, f.of) ELSE once
    BY <1>1, <1>2, LineGrows
  <1> HIDE DEF once
  <1>5. e.of \in Messages
    BY DEF Event
  <1>6. QED
    BY <1>3, <1>4, <1>5 DEF Box!Next, Box!Arrive, boxVars

LEMMA SlackArrives ==
  ASSUME TypeOK, Slack
  PROVE  [Box!Next]_boxVars
  <1>1. ASSUME NEW u \in Users, NEW size \in Texts, Write(u, size)
        PROVE  [Box!Next]_boxVars
    <2> DEFINE e == [kind |-> "message", of |-> said + 1, by |-> u, size |-> size]
    <2>1. said + 1 \in Messages /\ size \in Nat /\ events \in Seq(Event)
      BY <1>1, Constants DEF Write, Says, TypeOK, Messages, Texts
    <2>2. e \in Event
      BY <2>1 DEF Event
    <2>3. events' = events \o <<e>> /\ UNCHANGED <<at, event, answers, excuses>>
      <3>1. [i \in 1 .. Len(<<"message">>) |->
               [kind |-> <<"message">>[i], of |-> said + 1, by |-> u, size |-> size]] = <<e>>
        OBVIOUS
      <3>2. QED
        BY <1>1, <3>1 DEF Write, Says, Deliver, loop
    <2> HIDE DEF e
    <2>4. events' = Append(events, e)
      BY <2>1, <2>2, <2>3
    <2>5. QED
      BY <2>2, <2>3, <2>4, OneArrives
  <1>2. ASSUME NEW u \in Users, NEW size \in Texts, Mention(u, size)
        PROVE  [Box!Next]_boxVars
    <2> DEFINE e == [kind |-> "message", of |-> said + 1, by |-> u, size |-> size]
               f == [kind |-> "mention", of |-> said + 1, by |-> u, size |-> size]
    <2>1. said + 1 \in Messages /\ size \in Nat /\ events \in Seq(Event)
      BY <1>2, Constants DEF Mention, Says, TypeOK, Messages, Texts
    <2>2. e \in Event /\ f \in Event /\ e.of = f.of /\ (Asks(e) <=> Asks(f))
      BY <2>1 DEF Event, Asks
    <2>3. events' = events \o <<e, f>> /\ UNCHANGED <<at, event, answers, excuses>>
      <3>1. [i \in 1 .. Len(<<"message", "mention">>) |->
               [kind |-> <<"message", "mention">>[i], of |-> said + 1, by |-> u, size |-> size]]
              = <<e, f>>
        OBVIOUS
      <3>2. QED
        BY <1>2, <3>1 DEF Mention, Says, Deliver, loop
    <2> HIDE DEF e, f
    <2>4. events' = Append(Append(events, e), f)
      BY <2>1, <2>2, <2>3
    <2>5. QED
      BY <2>2, <2>3, <2>4, MentionArrives
  <1>3. ASSUME NEW e \in Event, Again(<<e>>)
        PROVE  [Box!Next]_boxVars
    <2>1. events \in Seq(Event) /\ events' = events \o <<e>>
          /\ UNCHANGED <<at, event, answers, excuses>>
      BY <1>3 DEF Again, Deliver, loop, TypeOK
    <2>2. events' = Append(events, e)
      BY <2>1
    <2>3. QED
      BY <2>1, <2>2, OneArrives
  <1>4. ASSUME NEW m \in Messages, Edit(m) PROVE \E e \in Event : Again(<<e>>)
    BY <1>4 DEF Edit, Event
  <1>5. ASSUME NEW i \in 1 .. Len(events), Resend(i) PROVE \E e \in Event : Again(<<e>>)
    BY <1>5 DEF Resend, TypeOK
  <1>6. QED
    BY <1>1, <1>2, <1>3, <1>4, <1>5 DEF Slack

\* Taking an event off the queue leaves the line as it is: a question comes to hand.
LEMMA TakingKeepsLine ==
  ASSUME TypeOK, EventsGenuine, Ignore \/ Handle
  PROVE  UNCHANGED boxVars
  <1> DEFINE e == Head(events)
  <1>1. /\ at = "idle" /\ events # <<>> /\ events' = Tail(events)
        /\ UNCHANGED <<answers, excuses>>
        /\ e \in Event /\ Genuine(e) /\ events \in Seq(Event)
    BY HeadType DEF Ignore, Handle, Ack, TypeOK
  <1>2. /\ Questions(Tail(events)) \in Line
        /\ Questions(events) = Question(e) \o Questions(Tail(events))
    BY <1>1, QuestionsTail
  <1>3. AtHand = <<>> /\ AtHand' = Question(e)
    <2>1. CASE Ignore
      <3>1. ~ Asks(e) /\ at' = "idle"
        BY <1>1, <2>1, HandledIfAsks DEF Ignore
      <3>2. QED
        BY <1>1, <3>1 DEF AtHand, Question
    <2>2. CASE Handle
      <3>1. Asks(e) /\ at' = "chat" /\ event' = e
        BY <1>1, <2>2, HandledIfAsks DEF Handle
      <3>2. QED
        BY <1>1, <3>1 DEF AtHand, Question
    <2>3. QED
      BY <2>1, <2>2
  <1>4. Questions(events) \in Line
    BY UnansweredType
  <1>5. Unanswered = Questions(events)
    BY <1>3, <1>4, UnansweredIs, LineConcat
  <1>6. Unanswered' = Question(e) \o Questions(Tail(events))
    <2>1. Unanswered' = AtHand' \o Questions(events')
      BY UnansweredIs
    <2>2. QED
      BY <1>1, <1>3, <2>1, Zenon
  <1>7. Unanswered' = Unanswered
    BY <1>2, <1>5, <1>6, Zenon
  <1>8. QED
    BY <1>1, <1>7 DEF boxVars

\* The question at hand leaves the line, and the next are those in the queue.
LEMMA HandedOver ==
  ASSUME TypeOK, at # "idle", at' = "idle", Questions(events') = Questions(events)
  PROVE  /\ Unanswered # <<>> /\ Head(Unanswered) = event.of
         /\ Unanswered' = Tail(Unanswered)
         /\ event.of \in Messages
  <1> DEFINE q == Questions(events)
  <1>1. q \in Line /\ event.of \in Messages
    BY UnansweredType, EventAtHand
  <1>2. Unanswered = <<event.of>> \o q
    BY UnansweredIs DEF AtHand
  <1>3. Unanswered' = <<>> \o q
    BY UnansweredIs DEF AtHand
  <1> HIDE DEF q
  <1>4. QED
    BY <1>1, <1>2, <1>3 DEF Line

LEMMA FinishesAnswers ==
  ASSUME TypeOK, Finishes
  PROVE  [Box!Next]_boxVars
  <1>1. at # "idle" /\ at' = "idle"
    BY DEF Finishes, Done
  <1>2. CASE Excuse /\ UNCHANGED <<events, answers>>
    <2>1. Questions(events') = Questions(events)
      BY <1>2
    <2>2. QED
      BY <1>1, <1>2, <2>1, HandedOver DEF Excuse, Box!Next, Box!Excuse, Box!Once, boxVars
  <1>3. ASSUME answers' = [answers EXCEPT ![event.of] = @ + 1], UNCHANGED excuses,
               NEW e \in Event, e.by = Myself, events' = Append(events, e)
        PROVE  [Box!Next]_boxVars
    <2>1. events \in Seq(Event) /\ Questions(events) \in Line
      BY UnansweredType
    <2>2. Questions(events') = Questions(events)
      <3>1. Question(e) = <<>>
        BY <1>3 DEF Question, Asks
      <3>2. Questions(Append(events, e)) = Questions(events) \o Question(e)
        BY <2>1, QuestionsAppend
      <3>3. Questions(events) \o <<>> = Questions(events)
        BY <2>1, LineConcat
      <3>4. QED
        BY <1>3, <3>1, <3>2, <3>3, Zenon
    <2>3. QED
      BY <1>1, <1>3, <2>2, HandedOver DEF Box!Next, Box!Answer, Box!Once, boxVars
  <1>4. QED
    BY <1>2, <1>3 DEF Finishes

\* However Slack repeats events, models, tools and posts fail and the process crashes:
\* the bot deals with each delivery of a question once, in the order of delivery.
THEOREM InboxImplemented == Spec => ImplementsInbox
  <1>1. Init => Box!Init
    <2> SUFFICES ASSUME Init PROVE Box!Init
      OBVIOUS
    <2>1. events = <<>> /\ at = "idle"
      BY DEF Init
    <2>2. events \in Seq(Event) /\ Len(events) = 0
      BY <2>1
    <2>3. PICK asked : Walks(asked, events) /\ Questions(events) = asked[Len(events)]
      BY <2>2, QuestionsWalk
    <2>4. Questions(events) = <<>>
      BY <2>2, <2>3 DEF Walks
    <2>5. Unanswered = <<>>
      BY <2>1, <2>4, UnansweredIs DEF AtHand
    <2>6. QED
      BY <2>5 DEF Init, Box!Init
  <1>2. TypeOK /\ EventsGenuine /\ [Next]_vars => [Box!Next]_boxVars
    <2> SUFFICES ASSUME TypeOK, EventsGenuine, [Next]_vars PROVE [Box!Next]_boxVars
      OBVIOUS
    <2>1. CASE UNCHANGED <<AtHand, events, answers, excuses>>
      BY <2>1, UnansweredIs DEF boxVars
    <2>2. CASE Continues \/ UNCHANGED vars
      <3>1. UNCHANGED <<AtHand, events, answers, excuses>>
        BY <2>2 DEF Continues, vars, loop, AtHand
      <3>2. QED
        BY <2>1, <3>1
    <2>3. CASE Crash
      <3>1. CASE at = "idle"
        <4>1. AtHand' = AtHand /\ UNCHANGED <<events, answers, excuses>>
          BY <2>3, <3>1 DEF Crash, Done, AtHand
        <4>2. QED
          BY <4>1, UnansweredIs DEF boxVars
      <3>2. CASE at # "idle"
        <4>1. Questions(events') = Questions(events) /\ at' = "idle"
          BY <2>3 DEF Crash, Done
        <4>2. QED
          BY <2>3, <3>2, <4>1, HandedOver
             DEF Crash, Excuse, Box!Next, Box!Excuse, Box!Once, boxVars
      <3>3. QED
        BY <3>1, <3>2
    <2>4. CASE EventLoop
      BY <2>2, <2>4, LoopSteps, TakingKeepsLine, FinishesAnswers
    <2>5. QED
      BY <2>2, <2>3, <2>4, SlackArrives DEF Next
  <1>3. QED
    BY <1>1, <1>2, BotInvariance, PTL DEF Spec, Inv, ImplementsInbox, Box!Spec, boxVars
================================================================================

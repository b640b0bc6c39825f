--------------------------------- MODULE Bot ----------------------------------
(***************************************************************************)
(* The Slack bot (internal/slackbot) and the agent behind it               *)
(* (internal/agent): one event loop for all users, which acknowledges an   *)
(* event, asks the model on the user's session, runs the tools it calls    *)
(* for, and posts the reply.  Slack sends two events for a mention in a    *)
(* channel, sends again what is not acknowledged in time, and shows the    *)
(* bot its own posts.  Sessions live in memory.                            *)
(***************************************************************************)
EXTENDS Integers, Sequences, FiniteSets, SequencesExt

CONSTANTS
  Users,
  Myself,        \* Bot.botID
  Sizes,         \* the sizes of what users write, in tokens
  ReplySizes,    \* the sizes of what the model and the tools answer
  Budget,        \* Session.maxTokens
  MaxToolRounds,
  MaxCalls,      \* bound: tool calls of one response
  MaxMessages,   \* bound: messages users write
  MaxEvents,     \* bound: events Slack sends of them
  MaxCrashes     \* bound: crashes of the process

\* The user an event about an edited message is by.
NoUser == ""

ASSUME BotAssumption ==
  /\ Myself \notin Users /\ NoUser \notin Users
  /\ Sizes \subseteq Nat \ {0} /\ ReplySizes \subseteq Nat \ {0}
  /\ Budget \in Nat /\ MaxToolRounds \in Nat \ {0} /\ MaxCalls \in Nat
  /\ MaxMessages \in Nat /\ MaxEvents \in Nat /\ MaxCrashes \in Nat

Messages == 1 .. MaxMessages

VARIABLES
  said,      \* messages written so far; they are numbered
  events,    \* socket.Events: delivered, not acknowledged
  sessions,  \* SessionStore: the messages of each user's session
  at,        \* the call the event loop makes next
  event,     \* the event it handles
  round,     \* the round of Agent.Handle
  reply,     \* the size of the reply; 0 for none
  sent,      \* events Slack sent of users' messages
  crashes,
  \* Observers, per message.
  delivered, \* events that ask for an answer to it
  answers,   \* posts that answer it
  excuses    \* events of it that a failure explains

loop == <<at, event, round, reply>>
slack == <<said, sent, delivered>>
vars == <<events, sessions, loop, crashes, slack, answers, excuses>>

\* Size 0 is a text of blanks only.
Texts == Sizes \cup {0}

Event == [kind : {"message", "mention", "edit"}, of : Messages,
          by : Users \cup {Myself, NoUser}, size : Nat]

Entry == [role : {"user", "assistant", "tool"}, size : Nat]

NoEvent == [kind |-> "none"]

Init ==
  /\ said = 0
  /\ events = <<>>
  /\ sessions = [u \in Users \cup {Myself} |-> <<>>]
  /\ at = "idle" /\ event = NoEvent /\ round = 0 /\ reply = 0
  /\ sent = 0 /\ crashes = 0
  /\ delivered = [m \in Messages |-> 0]
  /\ answers = [m \in Messages |-> 0]
  /\ excuses = [m \in Messages |-> 0]

------------------------------------------------------------------------------
(***************************************************************************)
(* Slack.  An event that asks for an answer counts as delivered.           *)
(***************************************************************************)
Asks(e) == e.kind # "edit" /\ e.by # Myself /\ e.size > 0

\* The places among some events of those that ask for an answer to m.
Asking(es, m) == {i \in 1 .. Len(es) : es[i].of = m /\ Asks(es[i])}

Deliver(es) ==
  /\ sent + Len(es) <= MaxEvents
  /\ sent' = sent + Len(es)
  /\ events' = events \o es
  /\ delivered' = [m \in Messages |-> delivered[m] + Cardinality(Asking(es, m))]

Says(kinds, u, size) ==
  /\ said < MaxMessages
  /\ said' = said + 1
  /\ Deliver([i \in 1 .. Len(kinds) |->
                [kind |-> kinds[i], of |-> said + 1, by |-> u, size |-> size]])
  /\ UNCHANGED <<sessions, loop, crashes, answers, excuses>>

\* A direct message, and a mention in a channel the bot listens to.
Write(u, size) == Says(<<"message">>, u, size)
Mention(u, size) == Says(<<"message", "mention">>, u, size)

Again(es) ==
  /\ Deliver(es)
  /\ UNCHANGED <<sessions, loop, crashes, said, answers, excuses>>

\* The author changes the text: an event with a SubType and no User.
Edit(m) ==
  /\ m <= said
  /\ Again(<<[kind |-> "edit", of |-> m, by |-> NoUser, size |-> 1]>>)

\* An event waits too long for its acknowledgement.
Resend(i) == Again(<<events[i]>>)

------------------------------------------------------------------------------
(***************************************************************************)
(* Sessions.                                                               *)
(***************************************************************************)
\* The role counts, too: 4 or 9 characters.
Tokens(e) == e.size + IF e.role = "assistant" THEN 2 ELSE 1

\* The tokens of the last n messages, for each n.
Totals(s) ==
  LET total[n \in 0 .. Len(s)] ==
        IF n = 0 THEN 0 ELSE total[n - 1] + Tokens(s[Len(s) - n + 1])
  IN  total

LastOf(s, n) == SubSeq(s, Len(s) - n + 1, Len(s))

\* How many messages the walk back through the session passes: it stops at the
\* first that does not fit.
Fitting(s) ==
  LET total == Totals(s)
  IN  {n \in 0 .. Len(s) : \A k \in 0 .. n : total[k] <= Budget}

\* Mutant of Window: the message that breaks the budget is still taken.
WindowOverBudget(s) == LastOf(s, Min({Max(Fitting(s)) + 1, Len(s)}))

Window(s) == LastOf(s, Max(Fitting(s)))

AddMessages(es) == sessions' = [sessions EXCEPT ![event.by] = @ \o es]

Said(role, size) == [role |-> role, size |-> size]

------------------------------------------------------------------------------
(***************************************************************************)
(* The event loop.                                                         *)
(***************************************************************************)
\* handleEvent: the next event is acknowledged, whatever becomes of it.
Ack ==
  /\ at = "idle"
  /\ events # <<>>
  /\ events' = Tail(events)
  /\ UNCHANGED <<round, reply, crashes, slack, answers, excuses>>

\* Mutant of IsIgnored: the bot listens to itself.
IsIgnoredUnlessEdit(e) == e.kind = "edit"

IsIgnored(e) == e.kind # "mention" /\ (e.by \in {Myself, NoUser} \/ e.kind = "edit")

Ignore ==
  /\ Ack
  /\ IsIgnored(Head(events)) \/ Head(events).size = 0
  /\ UNCHANGED <<at, event, sessions>>

\* HandleMessage, up to the first Chat.
Handle ==
  /\ Ack
  /\ LET e == Head(events) IN
       /\ ~ IsIgnored(e)
       /\ e.size > 0
       /\ event' = e
       /\ sessions' = [sessions EXCEPT ![e.by] =
                         Append(@, [role |-> "user", size |-> e.size])]
  /\ at' = "chat"

Fallback == 1

Reply(size) ==
  /\ at' = "post"
  /\ reply' = size
  /\ round' = 0
  /\ UNCHANGED <<events, event, crashes, slack, answers, excuses>>

Done ==
  /\ at' = "idle"
  /\ event' = NoEvent
  /\ round' = 0
  /\ reply' = 0

Excuse == excuses' = [excuses EXCEPT ![event.of] = @ + 1]

Answer(size) ==
  /\ at = "chat"
  /\ AddMessages(<<Said("assistant", size)>>)
  /\ Reply(size)

\* No text and no call: there is nothing to post.
AnswerNothing ==
  /\ at = "chat"
  /\ AddMessages(<<Said("assistant", 0)>>)
  /\ Done
  /\ Excuse
  /\ UNCHANGED <<events, crashes, slack, answers>>

\* Mutant of CallTools: as many rounds as the model likes.
CallToolsForever(results) ==
  /\ at = "chat"
  /\ AddMessages([i \in 1 .. Len(results) |-> Said("tool", results[i])])
  /\ round' = round + 1
  /\ UNCHANGED <<events, at, event, reply, crashes, slack, answers, excuses>>

\* What a tool returns, or an error in its place, goes into the session, the
\* call itself does not.
CallTools(results) ==
  /\ at = "chat"
  /\ AddMessages([i \in 1 .. Len(results) |-> Said("tool", results[i])])
  /\ IF round + 1 < MaxToolRounds
     THEN /\ round' = round + 1
          /\ UNCHANGED <<events, at, event, reply, crashes, slack, answers, excuses>>
     ELSE Reply(Fallback)

\* Mutant of ChatFails: it is tried again, and the rounds start over.
ChatFailsRetried ==
  /\ at = "chat"
  /\ round' = (round + 1) % MaxToolRounds
  /\ UNCHANGED <<events, sessions, at, event, reply, crashes, slack, answers, excuses>>

ChatFails ==
  /\ at = "chat"
  /\ Reply(Fallback)
  /\ UNCHANGED sessions

\* What the bot posts comes back as an event.
Post ==
  /\ at = "post"
  /\ events' = Append(events, [kind |-> "message", of |-> event.of,
                               by |-> Myself, size |-> reply])
  /\ answers' = [answers EXCEPT ![event.of] = @ + 1]
  /\ Done
  /\ UNCHANGED <<sessions, crashes, slack, excuses>>

PostFails ==
  /\ at = "post"
  /\ Excuse
  /\ Done
  /\ UNCHANGED <<events, sessions, crashes, slack, answers>>

\* What is not acknowledged is sent to the next process.
Crash ==
  /\ crashes < MaxCrashes
  /\ crashes' = crashes + 1
  /\ sessions' = [u \in Users \cup {Myself} |-> <<>>]
  /\ Done
  /\ IF at = "idle" THEN UNCHANGED excuses ELSE Excuse
  /\ UNCHANGED <<events, slack, answers>>

------------------------------------------------------------------------------
Results == UNION {[1 .. n -> ReplySizes] : n \in 1 .. MaxCalls}

EventLoop ==
  \/ Ignore
  \/ Handle
  \/ \E size \in ReplySizes : Answer(size)
  \/ AnswerNothing
  \/ \E results \in Results : CallTools(results)
  \/ ChatFails
  \/ Post
  \/ PostFails

Slack ==
  \/ \E u \in Users, size \in Texts : Write(u, size) \/ Mention(u, size)
  \/ \E m \in Messages : Edit(m)
  \/ \E i \in 1 .. Len(events) : Resend(i)

Next == EventLoop \/ Slack \/ Crash

Spec == Init /\ [][Next]_vars

\* Chat, the tools and PostMessage return; the code gives them no timeout.
FairSpec == Spec /\ WF_vars(EventLoop)

------------------------------------------------------------------------------
TypeOK ==
  /\ said \in 0 .. MaxMessages
  /\ events \in Seq(Event)
  /\ sessions \in [Users \cup {Myself} -> Seq(Entry)]
  /\ at \in {"idle", "chat", "post"}
  /\ event \in Event \cup {NoEvent}
  /\ (event = NoEvent) <=> (at = "idle")
  /\ round \in 0 .. MaxToolRounds - 1
  /\ reply \in Nat
  /\ sent \in 0 .. MaxEvents /\ crashes \in 0 .. MaxCrashes
  /\ delivered \in [Messages -> Nat]
  /\ answers \in [Messages -> Nat]
  /\ excuses \in [Messages -> Nat]

\* Events of m that still ask for an answer.
Pending(m) ==
  Cardinality(Asking(events, m))
    + IF at # "idle" /\ event.of = m THEN 1 ELSE 0

\* Every event of a user's message that has a text is answered once, or waits, or
\* a crash, a failed post or an empty answer explains the silence.
EventsAccountedFor ==
  \A m \in Messages : delivered[m] = answers[m] + excuses[m] + Pending(m)

\* The messages some events ask about, in their order.
Question(e) == IF Asks(e) THEN <<e.of>> ELSE <<>>

Questions(es) ==
  LET asked[n \in 0 .. Len(es)] ==
        IF n = 0 THEN <<>> ELSE asked[n - 1] \o Question(es[n])
  IN  asked[Len(es)]

Unanswered ==
  (IF at = "idle" THEN <<>> ELSE <<event.of>>) \o Questions(events)

Box == INSTANCE Inbox WITH inbox <- Unanswered

\* The loop deals with questions in the order in which they were delivered, with
\* each delivery once: it is answered, or a crash, a failed post or an empty answer
\* explains the silence.  Nothing else is silent, not a failing model and not a
\* tool, and the bot answers neither edits nor itself.
ImplementsInbox == Box!Spec

Total(s) == Totals(s)[Len(s)]

\* Before each Chat of every round, whatever failed before and whoever else asks:
\* the user's session ends with the question and the results of its own tools, and
\* the model is given all of these just when they are within the budget.  Results
\* too large push the question out, a last message too large leaves an empty window.
ModelSeesQuestion ==
  at = "chat" =>
    LET s == sessions[event.by]
        w == Window(s)
    IN  /\ Total(w) <= Budget
        /\ \A n \in 0 .. Len(s) : Total(LastOf(s, n)) <= Budget => n <= Len(w)
        /\ \E n \in 1 .. Len(s) :
             /\ LastOf(s, n)[1] = Said("user", event.size)
             /\ \A i \in 2 .. n : LastOf(s, n)[i].role = "tool"
             /\ round = 0 => n = 1
             /\ n <= Len(w) <=> Total(LastOf(s, n)) <= Budget

\* Nobody waits for good behind another user's question.
EveryoneIsServed ==
  \A m \in Messages : Pending(m) > 0 ~> Pending(m) = 0
==============================================================================

-------------------------------- MODULE Inbox --------------------------------
(***************************************************************************)
(* What the bot promises those who write to it.  Their questions, which    *)
(* Slack may deliver more than once, wait in one line.  The first is       *)
(* answered, or there is an excuse for not answering it; no question is    *)
(* answered before those that came before it, without being asked, or      *)
(* more often than it was asked, and none is dropped.                      *)
(***************************************************************************)
EXTENDS Naturals, Sequences

CONSTANTS Messages

VARIABLES
  inbox,    \* the messages that wait, each as often as it was delivered
  answers,  \* per message, how often it was answered
  excuses   \* per message, how often it was not

Init ==
  /\ inbox = <<>>
  /\ answers = [m \in Messages |-> 0]
  /\ excuses = [m \in Messages |-> 0]

Once(counts, m) == [counts EXCEPT ![m] = @ + 1]

\* A message comes as one event or, as a mention in a channel, as two.
Arrive(m) ==
  /\ inbox' \in {Append(inbox, m), Append(Append(inbox, m), m)}
  /\ UNCHANGED <<answers, excuses>>

Answer ==
  /\ inbox # <<>>
  /\ inbox' = Tail(inbox)
  /\ answers' = Once(answers, Head(inbox))
  /\ UNCHANGED excuses

Excuse ==
  /\ inbox # <<>>
  /\ inbox' = Tail(inbox)
  /\ excuses' = Once(excuses, Head(inbox))
  /\ UNCHANGED answers

Next == (\E m \in Messages : Arrive(m)) \/ Answer \/ Excuse

Spec == Init /\ [][Next]_<<inbox, answers, excuses>>
==============================================================================

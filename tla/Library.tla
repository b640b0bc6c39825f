------------------------------- MODULE Library -------------------------------
(***************************************************************************)
(* What the signals table promises its readers: under every key there is   *)
(* nothing, a content, or a content with the brief made from it; a brief   *)
(* never stands beside another content; what is shared stays shared; and   *)
(* nothing is ever removed.                                                *)
(***************************************************************************)
CONSTANTS Keys, Contents, None

VARIABLE library

Absent == [content |-> None, brief |-> None, shared |-> FALSE]

Init == library = [k \in Keys |-> Absent]

\* A content is learned; a brief of the one before goes with it.
Learn(k, c) ==
  library' = [library EXCEPT ![k] = [content |-> c, brief |-> None,
                                     shared |-> @.shared]]

\* A content and its brief are filed together.
File(k, c) ==
  library' = [library EXCEPT ![k] = [content |-> c, brief |-> c,
                                     shared |-> @.shared]]

Share(k) ==
  /\ library[k].content # None
  /\ library' = [library EXCEPT ![k] = [content |-> @.content, brief |-> @.brief,
                                        shared |-> TRUE]]

Next ==
  \E k \in Keys : Share(k) \/ \E c \in Contents : Learn(k, c) \/ File(k, c)

Spec == Init /\ [][Next]_library
==============================================================================

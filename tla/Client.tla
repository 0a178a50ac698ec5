------------------------------- MODULE Client -------------------------------
(***************************************************************************)
(* The dialogue of one client program (client.c) with its server thread    *)
(* (server.c, the role menus, write_string and read_client_input).  There  *)
(* is no protocol: the server writes texts into a stream, the client reads *)
(* whatever has arrived, and decides by words in it: "Enter" means that a  *)
(* line is wanted, "Successful!", "Invalid" and "deactivated" mean the     *)
(* end.  What a disconnect does to the server is module Sessions'.         *)
(***************************************************************************)
EXTENDS Integers, Sequences, SequencesExt

CONSTANTS
  Limit,  \* MAX_BUFFER - 1: how much of the stream one read takes
  Data    \* what names, feedback and other stored texts in a listing look like

VARIABLES
  at,      \* the prompt the server thread has come to, or "end"
  todo,    \* texts it writes before it waits there
  stream,  \* pieces of text written and not yet read
  closed,  \* the server has closed the connection
  answers, \* lines typed and not yet read by the server
  pc,      \* the client: reading the socket, or the keyboard, or gone
  severed  \* history: a read ended inside the word "Enter"

vars == <<at, todo, stream, closed, answers, pc, severed>>

-----------------------------------------------------------------------------
(* Texts.  A piece is a part of a text that matters to the client; "text"    *)
(* stands for any other.  The word of a prompt is two pieces, for a read may *)
(* end inside it.                                                            *)

Pieces == {"text", "En", "ter", "Successful!", "Invalid", "deactivated"}

Plain       == <<"text">>
Prompt      == <<"En", "ter">>
Successful  == <<"Successful!">>
Invalid     == <<"Invalid">>
Deactivated == <<"deactivated">>

\* No stored text contains the word of a prompt: a customer may write it into
\* his feedback, and the manager's client would ask for a line in mid-listing.
ASSUME ClientAssumption ==
  /\ Limit \in Nat \ {0}
  /\ Data \subseteq {<<p>> : p \in Pieces \ {"En", "ter"}}

\* Variant: a menu whose last line lacks the word.
RoleMenuWithoutWord == <<Plain, Plain>>

\* Texts of one step without any of the words are one text.
RoleMenu == <<Plain, Prompt>>

\* employee.c:463, "Choose action: 1 = Approve, 2 = Reject: ".
ActionPrompt == Plain

Prompts == {"role", "id", "password", "menu", "field", "loan", "action"}

Goes(texts, p) == [todo |-> texts, at |-> p]

\* After these texts a role's menu again; its header is a text of its own and
\* shows a stored name.
ToMenu(texts) == {Goes(texts \o <<header, Prompt>>, "menu") : header \in Data \cup {Plain}}

\* What the server thread does with an answer: the texts it writes and the
\* prompt it comes to next.  "field" is a prompt that handle_add_user repeats
\* until its answer is valid, "loan" and "action" are handle_process_loan's;
\* the other prompts of the handlers ask once and go back to the menu.
Outcomes(p) ==
  CASE p = "role" ->
         {Goes(<<Prompt>>, "id"), Goes(<<Invalid>> \o RoleMenu, "role")}
    [] p = "id" -> {Goes(<<Prompt>>, "password")}
    [] p = "password" ->
         {Goes(<<Successful, Plain>>, "end"), Goes(<<Deactivated>>, "end"),
          Goes(<<Invalid>>, "end"), Goes(<<Plain>>, "end")}
         \cup ToMenu(<<Successful>>)
    [] p = "menu" ->
         {Goes(<<Prompt>>, "field"), Goes(<<Prompt>>, "loan"), Goes(<<Plain>>, "end")}
         \cup {Goes(<<Plain, d, Prompt>>, "field") : d \in Data}
         \cup ToMenu(<<Invalid>>)
         \cup UNION {ToMenu(<<Plain, d>>) : d \in Data}
    [] p = "field" ->
         {Goes(<<Invalid, Prompt>>, "field"), Goes(<<Prompt>>, "field")}
         \cup ToMenu(<<Plain>>) \cup ToMenu(<<Invalid>>)
    [] p = "loan" -> {Goes(<<ActionPrompt>>, "action")} \cup ToMenu(<<Plain>>)
    [] p = "action" -> ToMenu(<<Plain>>) \cup ToMenu(<<Invalid>>)

Init ==
  /\ at = "role"
  /\ todo = <<Plain>> \o RoleMenu
  /\ stream = <<>>
  /\ closed = FALSE
  /\ answers = 0
  /\ pc = "socket"
  /\ severed = FALSE

-----------------------------------------------------------------------------
(* The server thread *)

\* write_string: one write call per text.
Write ==
  /\ todo # <<>>
  /\ stream' = stream \o Head(todo)
  /\ todo' = Tail(todo)
  /\ UNCHANGED <<at, closed, answers, pc, severed>>

\* Variant: the handler writes its result before it reads the answer.
ReadAnswerLate ==
  /\ todo = <<>> /\ at \in Prompts
  /\ \E o \in Outcomes(at) : at' = o.at /\ todo' = o.todo
  /\ answers' = IF answers > 0 THEN answers - 1 ELSE answers
  /\ UNCHANGED <<stream, closed, pc, severed>>

\* read_client_input returns a line.
ReadAnswer ==
  /\ todo = <<>> /\ at \in Prompts
  /\ answers > 0 /\ answers' = answers - 1
  /\ \E o \in Outcomes(at) : at' = o.at /\ todo' = o.todo
  /\ UNCHANGED <<stream, closed, pc, severed>>

\* Variant: the thread ends and leaves the connection open.
CloseSocketNot ==
  /\ todo = <<>> /\ at = "end" /\ ~closed
  /\ UNCHANGED vars

\* The thread ends and closes the socket; what was written still arrives.
CloseSocket ==
  /\ todo = <<>> /\ at = "end" /\ ~closed
  /\ closed' = TRUE
  /\ UNCHANGED <<at, todo, stream, answers, pc, severed>>

-----------------------------------------------------------------------------
(* The client *)

\* What one read may return: the connection keeps no boundaries.
Chunks == {SubSeq(stream, 1, n) : n \in 1..(IF Len(stream) < Limit THEN Len(stream) ELSE Limit)}

Asks(chunk) ==
  \E i \in 1..(Len(chunk) - 1) : chunk[i] = "En" /\ chunk[i + 1] = "ter"

Ends(chunk) == \E i \in DOMAIN chunk : chunk[i] \in {"Successful!", "Invalid", "deactivated"}

\* One read of the socket and the two searches of the buffer; "Enter" wins.
ReadSocket ==
  /\ pc = "socket" /\ stream # <<>>
  /\ \E chunk \in Chunks :
        /\ stream' = SubSeq(stream, Len(chunk) + 1, Len(stream))
        /\ pc' = IF Asks(chunk) THEN "keyboard"
                 ELSE IF Ends(chunk) THEN "gone" ELSE "socket"
        /\ severed' = (severed \/ Last(chunk) = "En")
  /\ UNCHANGED <<at, todo, closed, answers>>

\* Variant: the client types ahead.
TypeTwice ==
  /\ pc = "keyboard"
  /\ answers' = answers + 2
  /\ pc' \in {"socket", "gone"}
  /\ UNCHANGED <<at, todo, stream, closed, severed>>

\* A line goes from the keyboard to the server.  It is read into the buffer in
\* which the client then looks for the words of the end: a line with one of
\* them is sent, and the client leaves.
Type ==
  /\ pc = "keyboard"
  /\ answers' = answers + 1
  /\ pc' \in {"socket", "gone"}
  /\ UNCHANGED <<at, todo, stream, closed, severed>>

\* The user ends the input.
EndOfInput ==
  /\ pc = "keyboard"
  /\ pc' = "gone"
  /\ UNCHANGED <<at, todo, stream, closed, answers, severed>>

EndOfStream ==
  /\ pc = "socket" /\ stream = <<>> /\ closed
  /\ pc' = "gone"
  /\ UNCHANGED <<at, todo, stream, closed, answers, severed>>

ServerStep == Write \/ ReadAnswer \/ CloseSocket
ClientStep == ReadSocket \/ EndOfStream
UserStep   == Type \/ EndOfInput

Next == ServerStep \/ ClientStep \/ UserStep

Spec == Init /\ [][Next]_vars

\* The server thread and the client are scheduled; the user need not type.
FairSpec == Spec /\ WF_vars(ServerStep) /\ WF_vars(ClientStep)

-----------------------------------------------------------------------------
(* Properties *)

\* Types; an answer is read before the next one is asked for.
TypeOK ==
  /\ at \in Prompts \cup {"end"}
  /\ todo \in Seq(Seq(Pieces))
  /\ stream \in Seq(Pieces)
  /\ closed \in BOOLEAN /\ severed \in BOOLEAN
  /\ answers \in 0..1
  /\ pc \in {"socket", "keyboard", "gone"}

\* The user is only asked for a line when the server waits for exactly that
\* line: whatever pieces the stream arrives in, no answer can be taken for the
\* answer to another prompt.
AnswersInStep == pc = "keyboard" => todo = <<>> /\ at \in Prompts /\ answers = 0

\* Server and client wait for each other for ever only at the prompt of
\* handle_process_loan without "Enter" (employee.c:463), or once a read has
\* ended inside the word (client.c:35).
BothWait ==
  /\ pc = "socket" /\ stream = <<>> /\ ~closed
  /\ todo = <<>> /\ at # "end" /\ answers = 0
NoMutualWait == BothWait => at = "action" \/ severed

\* Every answer is followed by the next prompt on the screen, the end of the
\* client, or one of those two dead ends.
AnswerLeadsOn ==
  (answers > 0) ~> (pc \in {"keyboard", "gone"} \/ BothWait)

\* src/README.md line 83: "Invalid input (e.g., bad phone number) re-prompts the
\* user for *just that field* instead of aborting the entire operation."
Reprompts == [][pc = "socket" /\ pc' = "gone" => at = "end"]_vars
=============================================================================

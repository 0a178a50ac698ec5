----------------------------- MODULE ClientProofs -----------------------------
(* Theorems about Client, for any length of a read and any stored texts. *)
EXTENDS Client, TLAPS, SequenceTheorems

\* No word of a prompt in a text, or in what a read has left of one.
Wordless(text) == \A i \in DOMAIN text : text[i] \notin {"En", "ter"}

Text == {t \in Seq(Pieces) : Wordless(t)}

\* The texts that lead to a prompt have its word in the last one at most; they
\* have it there, unless the prompt is handle_process_loan's second one.
Script(texts, p) ==
  /\ texts \in Seq(Seq(Pieces))
  /\ \A i \in DOMAIN texts :
       Wordless(texts[i]) \/ (i = Len(texts) /\ texts[i] = Prompt /\ p # "end")
  /\ p \in Prompts \ {"action"} => texts # <<>> /\ texts[Len(texts)] = Prompt

LEMMA Constants ==
  /\ {Plain, Successful, Invalid, Deactivated} \subseteq Text
  /\ Data \subseteq Text
  /\ Prompt \in Seq(Pieces)
<1>1. ASSUME NEW p \in Pieces \ {"En", "ter"}
      PROVE  <<p>> \in Text
  BY <1>1 DEF Text, Wordless
<1>2. Data \subseteq Text
  BY <1>1, ClientAssumption
<1> QED BY <1>1, <1>2 DEF Plain, Successful, Invalid, Deactivated, Prompt, Pieces

\* Texts without the word lead to the end, or to the prompt without it.
LEMMA Telling ==
  ASSUME NEW texts \in Seq(Text), NEW p \in {"end", "action"}
  PROVE  Script(texts, p)
<1>1. texts \in [1..Len(texts) -> Text] /\ Len(texts) \in Nat
  BY LenProperties
<1>2. texts \in [1..Len(texts) -> Seq(Pieces)] /\ \A i \in DOMAIN texts : Wordless(texts[i])
  BY <1>1 DEF Text
<1>3. texts \in Seq(Seq(Pieces))
  BY <1>1, <1>2
<1> QED BY <1>2, <1>3 DEF Script, Prompts

\* Texts without the word, and a prompt after them.
LEMMA Asking ==
  ASSUME NEW texts \in Seq(Text), NEW p \in Prompts, NEW s, Script(s, p), s # <<>>
  PROVE  Script(texts \o s, p) /\ texts \o s # <<>>
<1> DEFINE n == Len(texts)
           m == Len(s)
<1>1. /\ texts \in Seq(Seq(Pieces)) /\ n \in Nat
      /\ \A i \in 1..n : Wordless(texts[i])
  <2>1. texts \in [1..n -> Text] /\ n \in Nat
    BY LenProperties
  <2>2. texts \in [1..n -> Seq(Pieces)] /\ \A i \in 1..n : Wordless(texts[i])
    BY <2>1 DEF Text
  <2> QED BY <2>1, <2>2
<1>2. /\ s \in Seq(Seq(Pieces)) /\ m \in Nat \ {0} /\ DOMAIN s = 1..m
      /\ \A j \in 1..m : Wordless(s[j]) \/ (j = m /\ s[j] = Prompt /\ p # "end")
      /\ p \in Prompts \ {"action"} => s[m] = Prompt
  <2>1. s \in Seq(Seq(Pieces))
    BY DEF Script
  <2>2. m \in Nat \ {0} /\ DOMAIN s = 1..m
    BY <2>1, EmptySeq, LenProperties
  <2> QED BY <2>1, <2>2 DEF Script
<1>3. /\ texts \o s \in Seq(Seq(Pieces)) /\ Len(texts \o s) = n + m
      /\ \A i \in 1..(n + m) : (texts \o s)[i] = IF i <= n THEN texts[i] ELSE s[i - n]
  BY <1>1, <1>2, ConcatProperties, Zenon
<1>4. DOMAIN (texts \o s) = 1..(n + m)
  BY <1>3, LenProperties
<1> DEFINE all == texts \o s
<1> HIDE DEF all, n, m
<1>5. all \in Seq(Seq(Pieces)) /\ Len(all) = n + m /\ DOMAIN all = 1..(n + m)
  BY <1>3, <1>4 DEF all, n, m
<1>6. \A i \in 1..(n + m) : all[i] = IF i <= n THEN texts[i] ELSE s[i - n]
  BY <1>3 DEF all, n, m
<1>7. ASSUME NEW i \in 1..(n + m)
      PROVE  Wordless(all[i]) \/ (i = Len(all) /\ all[i] = Prompt /\ p # "end")
  <2>1. CASE i <= n
    BY <1>1, <1>2, <1>6, <2>1
  <2>2. CASE i > n
    <3>1. PICK j \in 1..m : i = n + j /\ all[i] = s[j]
      BY <1>1, <1>2, <1>6, <2>2
    <3>2. Wordless(s[j]) \/ (j = m /\ s[j] = Prompt /\ p # "end")
      BY <1>2
    <3>3. j = m => i = Len(all)
      BY <1>5, <3>1
    <3> QED BY <3>1, <3>2, <3>3
  <2> QED BY <1>1, <1>2, <2>1, <2>2
<1>8. all # <<>>
  BY <1>1, <1>2, <1>5
<1>9. p \in Prompts \ {"action"} => all[Len(all)] = Prompt
  <2>1. n + m \in 1..(n + m) /\ ~(n + m <= n) /\ n + m - n = m
    BY <1>1, <1>2
  <2>2. all[n + m] = s[n + m - n]
    BY <1>1, <1>2, <1>6, <2>1
  <2> QED BY <1>2, <1>5, <2>1, <2>2
<1>10. Script(all, p)
  BY <1>5, <1>7, <1>8, <1>9 DEF Script
<1> QED BY <1>8, <1>10 DEF all

\* What the server thread does with an answer is a script.
Leads(o) == o.at \in Prompts \cup {"end"} /\ Script(o.todo, o.at)

LEMMA OutcomeLeads ==
  ASSUME NEW p \in Prompts, NEW o \in Outcomes(p)
  PROVE  Leads(o)
<1>1. /\ {Plain, Successful, Invalid, Deactivated, ActionPrompt} \subseteq Text
      /\ Data \subseteq Text
  BY Constants DEF ActionPrompt
<1>2. /\ \A a \in Text : <<a>> \in Seq(Text)
      /\ \A a, b \in Text : <<a, b>> \in Seq(Text)
  OBVIOUS
<1>3. \A q \in Prompts \cup {"end"} : \A t : Script(t, q) => Leads(Goes(t, q))
  BY DEF Leads, Goes
<1>4. \A q \in Prompts : Leads(Goes(<<Prompt>>, q))
  <2>1. \A q \in Prompts : Script(<<Prompt>>, q)
    BY Constants DEF Script, Prompts
  <2> QED BY <1>3, <2>1
<1>5. \A q \in Prompts, a \in Text :
        Script(<<a, Prompt>>, q) /\ <<a, Prompt>> # <<>> /\ Leads(Goes(<<a, Prompt>>, q))
  <2>1. \A q \in Prompts, a \in Text : Script(<<a, Prompt>>, q) /\ <<a, Prompt>> # <<>>
    BY Constants DEF Script, Prompts, Text
  <2> QED BY <1>3, <2>1
<1>6. \A q \in Prompts, a, b \in Text : Leads(Goes(<<a, b, Prompt>>, q))
  <2>1. \A q \in Prompts, a, b \in Text : Script(<<a, b, Prompt>>, q)
    BY Constants DEF Script, Prompts, Text
  <2> QED BY <1>3, <2>1
<1>7. /\ \A a \in Text : \A m \in ToMenu(<<a>>) : Leads(m)
      /\ \A a, b \in Text : \A m \in ToMenu(<<a, b>>) : Leads(m)
  <2>1. ASSUME NEW texts \in Seq(Text), NEW m \in ToMenu(texts)
        PROVE  Leads(m)
    <3>1. PICK h \in Text : m = Goes(texts \o <<h, Prompt>>, "menu")
      BY <1>1 DEF ToMenu
    <3>2. "menu" \in Prompts /\ Script(<<h, Prompt>>, "menu") /\ <<h, Prompt>> # <<>>
      BY <1>5 DEF Prompts
    <3>3. Script(texts \o <<h, Prompt>>, "menu")
      BY <3>2, Asking
    <3> QED BY <1>3, <3>1, <3>2, <3>3
  <2> QED BY <1>2, <2>1
<1>8. \A q \in {"end", "action"}, a, b \in Text :
        Leads(Goes(<<a>>, q)) /\ Leads(Goes(<<a, b>>, q))
  BY <1>2, <1>3, Telling DEF Prompts
<1>9. Leads(Goes(<<Invalid>> \o RoleMenu, "role"))
  <2>1. <<Invalid>> \in Seq(Text) /\ "role" \in Prompts
    BY <1>1, <1>2 DEF Prompts
  <2>2. Script(RoleMenu, "role") /\ RoleMenu # <<>>
    BY <1>1, <1>5, <2>1 DEF RoleMenu
  <2>3. Script(<<Invalid>> \o RoleMenu, "role")
    BY <2>1, <2>2, Asking
  <2> QED BY <1>3, <2>1, <2>3
<1>10. CASE p = "role"
  BY <1>4, <1>9, <1>10 DEF Outcomes, Prompts
<1>11. CASE p = "id"
  BY <1>4, <1>11 DEF Outcomes, Prompts
<1>12. CASE p = "password"
  <2>1. CASE o \in {Goes(<<Successful, Plain>>, "end"), Goes(<<Deactivated>>, "end"),
                    Goes(<<Invalid>>, "end"), Goes(<<Plain>>, "end")}
    BY <1>1, <1>8, <2>1 DEF Prompts
  <2>2. CASE o \in ToMenu(<<Successful>>)
    BY <1>1, <1>7, <2>2
  <2> QED BY <1>12, <2>1, <2>2 DEF Outcomes
<1>13. CASE p = "menu"
  <2>1. CASE o \in {Goes(<<Prompt>>, "field"), Goes(<<Prompt>>, "loan"), Goes(<<Plain>>, "end")}
    BY <1>1, <1>4, <1>8, <2>1 DEF Prompts
  <2>2. CASE o \in ToMenu(<<Invalid>>)
    BY <1>1, <1>7, <2>2
  <2>3. CASE o \in {Goes(<<Plain, d, Prompt>>, "field") : d \in Data}
    BY <1>1, <1>6, <2>3 DEF Prompts
  <2>4. CASE o \in UNION {ToMenu(<<Plain, d>>) : d \in Data}
    <3>1. PICK d \in Data : o \in ToMenu(<<Plain, d>>)
      BY <2>4
    <3> QED BY <1>1, <1>7, <3>1
  <2> QED BY <1>13, <2>1, <2>2, <2>3, <2>4 DEF Outcomes
<1>14. CASE p = "field"
  <2>1. CASE o \in {Goes(<<Invalid, Prompt>>, "field"), Goes(<<Prompt>>, "field")}
    BY <1>1, <1>4, <1>5, <2>1 DEF Prompts
  <2>2. CASE o \in ToMenu(<<Plain>>) \cup ToMenu(<<Invalid>>)
    BY <1>1, <1>7, <2>2
  <2> QED BY <1>14, <2>1, <2>2 DEF Outcomes
<1>15. CASE p = "loan"
  <2>1. CASE o = Goes(<<ActionPrompt>>, "action")
    BY <1>1, <1>8, <2>1
  <2>2. CASE o \in ToMenu(<<Plain>>)
    BY <1>1, <1>7, <2>2
  <2> QED BY <1>15, <2>1, <2>2 DEF Outcomes
<1>16. CASE p = "action"
  BY <1>1, <1>7, <1>16 DEF Outcomes
<1> QED BY <1>10, <1>11, <1>12, <1>13, <1>14, <1>15, <1>16 DEF Prompts

-----------------------------------------------------------------------------
(* The invariant *)

\* The texts still to be written lead to the prompt.
Scripted == todo \in Seq(Seq(Pieces)) /\
  \A i \in DOMAIN todo :
    Wordless(todo[i]) \/ (i = Len(todo) /\ todo[i] = Prompt /\ at # "end")

\* The word of the prompt, or what a read has left of it, is the last thing in
\* the stream, and the server has nothing more to write.
Last2(s) == Len(s) > 1 /\ s[Len(s) - 1] = "En" /\ s[Len(s)] = "ter"
WordIsLast ==
  \A i \in DOMAIN stream :
    /\ stream[i] = "En"  => todo = <<>> /\ i = Len(stream) - 1 /\ at # "end"
    /\ stream[i] = "ter" => todo = <<>> /\ i = Len(stream) /\ at # "end"

\* Between the user's line and the server's answer nothing is under way.
InStep ==
  /\ answers = 1 => pc # "keyboard"
  /\ answers = 1 \/ pc = "keyboard" => todo = <<>> /\ stream = <<>> /\ at \in Prompts

\* A client that waits for a prompt other than handle_process_loan's second one
\* has its word before it, or has lost it.
WordAhead ==
  pc = "socket" /\ answers = 0 /\ at \in Prompts \ {"action"} /\ ~severed =>
    IF todo = <<>> THEN Last2(stream) ELSE todo[Len(todo)] = Prompt

Inv == TypeOK /\ Scripted /\ WordIsLast /\ InStep /\ WordAhead

LEMMA InitInv == Init => Inv
<1> SUFFICES ASSUME Init PROVE Inv
  OBVIOUS
<1>1. <<Plain>> \in Seq(Text) /\ Plain \in Text
  BY Constants
<1>2. Script(RoleMenu, "role") /\ RoleMenu # <<>>
  BY <1>1, Constants DEF RoleMenu, Script, Prompts, Text
<1>3. Script(todo, "role") /\ at = "role" /\ todo # <<>>
  BY <1>1, <1>2, Asking DEF Init, Prompts
<1>4. /\ stream = <<>> /\ closed = FALSE /\ answers = 0 /\ pc = "socket" /\ severed = FALSE
      /\ stream \in Seq(Pieces) /\ DOMAIN stream = {}
  BY DEF Init
<1>5. TypeOK
  <2>1. at \in Prompts \cup {"end"} /\ todo \in Seq(Seq(Pieces)) /\ stream \in Seq(Pieces)
    BY <1>3, <1>4 DEF Script, Prompts
  <2>2. closed \in BOOLEAN /\ severed \in BOOLEAN
    BY <1>4
  <2>3. answers \in 0..1 /\ pc \in {"socket", "keyboard", "gone"}
    BY <1>4
  <2> QED BY <2>1, <2>2, <2>3 DEF TypeOK
<1>6. Scripted
  BY <1>3 DEF Scripted, Script
<1>7. WordIsLast /\ InStep
  BY <1>4 DEF WordIsLast, InStep
<1>8. WordAhead
  BY <1>3 DEF WordAhead, Script
<1> QED BY <1>5, <1>6, <1>7, <1>8 DEF Inv

\* A text moves from the server to the stream: only the last may have the word.
LEMMA WriteKeeps == ASSUME Inv, Write PROVE Inv'
<1> DEFINE head == Head(todo)
           n    == Len(stream)
           m    == Len(head)
           k    == Len(todo)
<1>1. /\ TypeOK /\ todo # <<>> /\ stream' = stream \o head /\ todo' = Tail(todo)
      /\ UNCHANGED <<at, closed, answers, pc, severed>>
      /\ todo \in Seq(Seq(Pieces)) /\ stream \in Seq(Pieces)
  BY DEF Inv, TypeOK, Write
<1>2. /\ head \in Seq(Pieces) /\ head = todo[1] /\ k \in Nat \ {0} /\ DOMAIN todo = 1..k
      /\ todo' \in Seq(Seq(Pieces)) /\ Len(todo') = k - 1
      /\ \A i \in 1..(k - 1) : todo'[i] = todo[i + 1]
  BY <1>1, HeadTailProperties, EmptySeq, LenProperties
<1>3. DOMAIN todo' = 1..(k - 1) /\ (todo' = <<>> <=> k = 1)
  BY <1>2, LenProperties, EmptySeq
<1>4. n \in Nat /\ m \in Nat /\ DOMAIN stream = 1..n /\ DOMAIN head = 1..m
  BY <1>1, <1>2, LenProperties
<1>5. /\ stream' \in Seq(Pieces) /\ Len(stream') = n + m
      /\ \A i \in 1..(n + m) : stream'[i] = IF i <= n THEN stream[i] ELSE head[i - n]
  <2>1. stream \in Seq(Pieces) /\ head \in Seq(Pieces) /\ stream' = stream \o head
    BY <1>1, <1>2
  <2> HIDE DEF head
  <2>2. /\ stream \o head \in Seq(Pieces) /\ Len(stream \o head) = Len(stream) + Len(head)
        /\ \A i \in 1..(Len(stream) + Len(head)) :
             (stream \o head)[i] = IF i <= Len(stream) THEN stream[i]
                                   ELSE head[i - Len(stream)]
    BY <2>1, ConcatProperties, Zenon
  <2> QED BY <2>1, <2>2
<1>6. DOMAIN stream' = 1..(n + m)
  BY <1>5, LenProperties
<1> HIDE DEF head, n, m, k
<1>7. \A i \in 1..n : stream[i] \notin {"En", "ter"}
  BY <1>1, <1>4 DEF Inv, WordIsLast
<1>8. \A i \in 1..k : Wordless(todo[i]) \/ (i = k /\ todo[i] = Prompt /\ at # "end")
  BY <1>2 DEF Inv, Scripted, k
<1>9. \/ Wordless(head)
      \/ k = 1 /\ head = Prompt /\ at # "end"
  BY <1>2, <1>8
<1>10. TypeOK'
  BY <1>1, <1>2, <1>5 DEF TypeOK
<1>11. Scripted'
  <2>1. todo' \in Seq(Seq(Pieces)) /\ at' = at
    BY <1>1, <1>2
  <2>2. ASSUME NEW i \in 1..(k - 1)
        PROVE  Wordless(todo'[i]) \/ (i = k - 1 /\ todo'[i] = Prompt /\ at # "end")
    <3>1. i + 1 \in 1..k /\ (i + 1 = k <=> i = k - 1) /\ todo'[i] = todo[i + 1]
      BY <1>2
    <3> QED BY <1>8, <3>1
  <2> QED BY <1>2, <1>3, <2>1, <2>2 DEF Scripted
<1>12. head = Prompt => m = 2 /\ head[1] = "En" /\ head[2] = "ter"
  BY DEF Prompt, m
<1>13. WordIsLast'
  <2> SUFFICES ASSUME NEW i \in DOMAIN stream', stream'[i] \in {"En", "ter"}
               PROVE  /\ todo' = <<>> /\ at' # "end"
                      /\ stream'[i] = "En" => i = Len(stream') - 1
                      /\ stream'[i] = "ter" => i = Len(stream')
    BY DEF WordIsLast
  <2>1. PICK j \in 1..m : i = n + j /\ stream'[i] = head[j]
    BY <1>4, <1>5, <1>6, <1>7
  <2>2. k = 1 /\ head = Prompt /\ at # "end"
    BY <1>4, <1>9, <2>1 DEF Wordless
  <2>3. todo' = <<>> /\ at' # "end"
    BY <1>1, <1>3, <2>2
  <2> QED BY <1>4, <1>5, <1>12, <2>1, <2>2, <2>3
<1>14. InStep'
  BY <1>1 DEF Inv, InStep, TypeOK
<1>15. WordAhead'
  <2> SUFFICES ASSUME pc = "socket", answers = 0, at \in Prompts \ {"action"}, ~severed
               PROVE  IF todo' = <<>> THEN Last2(stream)' ELSE todo'[Len(todo')] = Prompt
    BY <1>1 DEF WordAhead
  <2>1. todo[k] = Prompt
    BY <1>1 DEF Inv, WordAhead, k
  <2>2. CASE k = 1
    <3>1. m = 2 /\ head[1] = "En" /\ head[2] = "ter"
      BY <1>2, <1>12, <2>1, <2>2
    <3>2. Len(stream') = n + 2 /\ n + 1 \in 1..(n + m) /\ n + 2 \in 1..(n + m)
      BY <1>4, <1>5, <3>1
    <3>3. stream'[n + 1] = "En" /\ stream'[n + 2] = "ter"
      BY <1>4, <1>5, <3>1, <3>2
    <3> QED BY <1>3, <1>4, <2>2, <3>2, <3>3 DEF Last2
  <2>3. CASE k # 1
    BY <1>2, <1>3, <2>1, <2>3
  <2> QED BY <2>2, <2>3
<1> QED BY <1>10, <1>11, <1>13, <1>14, <1>15 DEF Inv

LEMMA ReadAnswerKeeps == ASSUME Inv, ReadAnswer PROVE Inv'
<1>1. /\ TypeOK /\ at \in Prompts /\ answers = 1 /\ answers' = 0 /\ pc # "keyboard"
      /\ stream = <<>> /\ UNCHANGED <<stream, closed, pc, severed>>
  BY DEF Inv, TypeOK, InStep, ReadAnswer
<1>2. PICK o \in Outcomes(at) : at' = o.at /\ todo' = o.todo
  BY DEF ReadAnswer
<1>3. at' \in Prompts \cup {"end"} /\ Script(todo', at')
  BY <1>1, <1>2, OutcomeLeads DEF Leads
<1>4. TypeOK'
  BY <1>1, <1>3 DEF TypeOK, Script
<1>5. Scripted' /\ WordIsLast' /\ InStep'
  BY <1>1, <1>3 DEF Scripted, Script, WordIsLast, InStep
<1>6. WordAhead'
  BY <1>3 DEF WordAhead, Script
<1> QED BY <1>4, <1>5, <1>6 DEF Inv

\* A read takes pieces off the front of the stream; it sees the word only if it
\* takes all of the stream, and then nothing follows.
LEMMA ReadSocketKeeps == ASSUME Inv, ReadSocket PROVE Inv'
<1> DEFINE n == Len(stream)
<1>1. /\ TypeOK /\ pc = "socket" /\ stream # <<>> /\ answers = 0
      /\ UNCHANGED <<at, todo, closed, answers>>
      /\ stream \in Seq(Pieces)
  BY DEF Inv, TypeOK, InStep, ReadSocket
<1>2. n \in Nat \ {0} /\ DOMAIN stream = 1..n /\ \A i \in 1..n : stream[i] \in Pieces
  BY <1>1, EmptySeq, LenProperties
<1>3. PICK chunk \in Chunks :
        /\ stream' = SubSeq(stream, Len(chunk) + 1, n)
        /\ pc' = IF Asks(chunk) THEN "keyboard" ELSE IF Ends(chunk) THEN "gone" ELSE "socket"
        /\ severed' = (severed \/ Last(chunk) = "En")
  BY DEF ReadSocket
<1>4. PICK l \in 1..n : chunk = SubSeq(stream, 1, l)
  BY <1>2, <1>3, ClientAssumption DEF Chunks
<1> HIDE DEF n
<1>5. Len(chunk) = l /\ \A i \in 1..l : chunk[i] = stream[i]
  BY <1>2, <1>4, SubSeqProperties
<1>6. /\ stream' \in Seq(Pieces) /\ Len(stream') = n - l
      /\ \A i \in 1..(n - l) : stream'[i] = stream[i + l]
  <2>1. l + 1 \in Int /\ n \in Int /\ \A i \in (l + 1)..n : stream[i] \in Pieces
    BY <1>2
  <2>2. stream' = SubSeq(stream, l + 1, n)
    BY <1>3, <1>5
  <2>3. /\ stream' \in Seq(Pieces)
        /\ Len(stream') = IF l + 1 <= n THEN n - (l + 1) + 1 ELSE 0
        /\ \A i \in 1..(n - (l + 1) + 1) : stream'[i] = stream[(l + 1) + i - 1]
    BY <2>1, <2>2, SubSeqProperties
  <2> QED BY <1>2, <2>3
<1>7. DOMAIN stream' = 1..(n - l) /\ (l = n => stream' = <<>>)
  BY <1>2, <1>6, LenProperties, EmptySeq
<1>8. \A i \in 1..n :
        /\ stream[i] = "En"  => todo = <<>> /\ i = n - 1 /\ at # "end"
        /\ stream[i] = "ter" => todo = <<>> /\ i = n /\ at # "end"
  BY <1>2 DEF Inv, WordIsLast, n
<1>9. TypeOK' /\ Scripted'
  BY <1>1, <1>3, <1>6 DEF Inv, TypeOK, Scripted
<1>10. WordIsLast'
  <2> SUFFICES ASSUME NEW i \in 1..(n - l)
               PROVE  /\ stream'[i] = "En" => todo = <<>> /\ i = n - l - 1 /\ at # "end"
                      /\ stream'[i] = "ter" => todo = <<>> /\ i = n - l /\ at # "end"
    BY <1>1, <1>6, <1>7 DEF WordIsLast
  <2>1. i + l \in 1..n /\ stream'[i] = stream[i + l]
    BY <1>2, <1>6
  <2> QED BY <1>2, <1>8, <2>1
<1>11. Asks(chunk) => l = n /\ todo = <<>> /\ at # "end"
  <2> SUFFICES ASSUME NEW i \in 1..(l - 1), chunk[i + 1] = "ter"
               PROVE  l = n /\ todo = <<>> /\ at # "end"
    BY <1>5 DEF Asks
  <2>1. i + 1 \in 1..n /\ i + 1 <= l /\ stream[i + 1] = "ter"
    BY <1>2, <1>5
  <2> QED BY <1>2, <1>8, <2>1
<1>12. InStep'
  BY <1>1, <1>3, <1>7, <1>11 DEF InStep, TypeOK
<1>13. WordAhead'
  <2> SUFFICES ASSUME pc' = "socket", at \in Prompts \ {"action"}, ~severed', todo = <<>>
               PROVE  Last2(stream)'
    BY <1>1, <1>3 DEF Inv, WordAhead
  <2>1. ~Asks(chunk) /\ ~severed /\ Last(chunk) # "En"
    BY <1>3
  <2>2. n > 1 /\ stream[n - 1] = "En" /\ stream[n] = "ter"
    BY <1>1, <2>1 DEF Inv, WordAhead, Last2, n
  <2>3. l # n
    BY <1>2, <1>5, <2>1, <2>2 DEF Asks
  <2>4. l # n - 1
    BY <1>2, <1>5, <2>1, <2>2 DEF Last
  <2>5. n - l > 1 /\ n - l - 1 \in 1..(n - l) /\ n - l \in 1..(n - l)
    BY <1>2, <2>2, <2>3, <2>4
  <2>6. stream'[n - l - 1] = stream[n - l - 1 + l] /\ stream'[n - l] = stream[n - l + l]
    BY <1>2, <1>6, <2>5
  <2>7. n - l - 1 + l = n - 1 /\ n - l + l = n
    BY <1>2
  <2> QED BY <1>6, <2>2, <2>5, <2>6, <2>7 DEF Last2
<1> QED BY <1>9, <1>10, <1>12, <1>13 DEF Inv

LEMMA TypeKeeps == ASSUME Inv, Type PROVE Inv'
<1>1. /\ pc = "keyboard" /\ answers' = answers + 1 /\ pc' \in {"socket", "gone"}
      /\ UNCHANGED <<at, todo, stream, closed, severed>>
  BY DEF Type
<1>2. TypeOK /\ answers = 0 /\ todo = <<>> /\ stream = <<>> /\ at \in Prompts
  BY <1>1 DEF Inv, InStep, TypeOK
<1>3. TypeOK' /\ InStep' /\ WordAhead'
  BY <1>1, <1>2 DEF TypeOK, InStep, WordAhead
<1>4. Scripted' /\ WordIsLast'
  BY <1>1 DEF Inv, Scripted, WordIsLast
<1> QED BY <1>3, <1>4 DEF Inv

\* The client goes, or the server closes the connection.
LEMMA LeaveKeeps == ASSUME Inv, CloseSocket \/ EndOfInput \/ EndOfStream PROVE Inv'
<1>1. /\ UNCHANGED <<at, todo, stream, answers, severed>>
      /\ pc' \in {pc, "gone"} /\ closed' \in {closed, TRUE}
  BY DEF CloseSocket, EndOfInput, EndOfStream
<1>2. TypeOK'
  BY <1>1 DEF Inv, TypeOK
<1>3. Scripted' /\ WordIsLast' /\ InStep' /\ WordAhead'
  BY <1>1 DEF Inv, Scripted, WordIsLast, InStep, WordAhead, Last2
<1> QED BY <1>2, <1>3 DEF Inv

LEMMA Invariance == Spec => []Inv
<1>1. ASSUME Inv, UNCHANGED vars
      PROVE  Inv'
  <2>1. UNCHANGED <<at, todo, stream, closed, answers, pc, severed>>
    BY <1>1 DEF vars
  <2> QED BY <1>1, <2>1 DEF Inv, TypeOK, Scripted, WordIsLast, InStep, WordAhead, Last2
<1>2. Inv /\ [Next]_vars => Inv'
  BY <1>1, WriteKeeps, ReadAnswerKeeps, ReadSocketKeeps, TypeKeeps, LeaveKeeps
  DEF Next, ServerStep, ClientStep, UserStep
<1> QED BY InitInv, <1>2, PTL DEF Spec

-----------------------------------------------------------------------------
(* What follows *)

\* The dialogue keeps its types, and never has more than one line under way.
THEOREM TypeCorrect == Spec => []TypeOK
BY Invariance, PTL DEF Inv

\* Client and server share no protocol but the word "Enter" (client.c): still
\* the user is asked only when the server waits for that very line, however
\* the stream is cut into reads and whatever stored texts it contains.
THEOREM AskedInStep == Spec => []AnswersInStep
<1>1. Inv => AnswersInStep
  <2> SUFFICES ASSUME Inv, pc = "keyboard"
               PROVE  todo = <<>> /\ at \in Prompts /\ answers = 0
    BY DEF AnswersInStep
  <2> QED BY DEF Inv, InStep, TypeOK
<1> QED BY <1>1, Invariance, PTL

\* Client and server wait for each other only at the prompt of employee.c:463,
\* which lacks the word, or after a read that ended inside the word.
THEOREM OnlyTwoDeadEnds == Spec => []NoMutualWait
<1>1. Inv => NoMutualWait
  <2> SUFFICES ASSUME Inv, BothWait, ~severed
               PROVE  at = "action"
    BY DEF NoMutualWait
  <2>1. at \in Prompts /\ ~Last2(stream)
    BY DEF Inv, TypeOK, BothWait, Last2
  <2> QED BY <2>1 DEF Inv, WordAhead, BothWait
<1> QED BY <1>1, Invariance, PTL

=============================================================================

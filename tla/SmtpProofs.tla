----------------------------- MODULE SmtpProofs -----------------------------
(* Proofs about the mail server, for any sessions, addresses and lines.    *)
EXTENDS Smtp, SequenceTheorems, FiniteSetTheorems, TLAPS

LEMMA EmptyType == Missing \in Domains /\ NoEmail \in Addresses /\ <<>> \in Seq(Texts)
  BY DEF Domains, Addresses

LEMMA NoThreadType == NoThread \in Locals /\ Consistent(NoThread)
  BY EmptyType DEF NoThread, Locals, Consistent

LEMMA InitDialogue == Init => DialogueInv
  <1> SUFFICES ASSUME Init PROVE DialogueInv
    OBVIOUS
  <1>1. <<>> \in Seq(Pieces) /\ <<>> \in Seq(Texts) /\ <<>> \in Seq(Answers) /\ <<>> \in Seq(Mails) /\ <<>> \in Seq(Commands)
    OBVIOUS
  <1>2. TypeOK
    BY <1>1, NoThreadType DEF Init, TypeOK
  <1>3. StoredMailsWereAccepted
    <2>1. \A e \in Mailboxes : Len(stored[e]) = 0
      BY DEF Init
    <2> QED
      BY <2>1 DEF StoredMailsWereAccepted
  <1> QED
    BY <1>2, <1>3, NoThreadType DEF DialogueInv, Init

LEMMA RestType ==
    ASSUME NEW S, NEW q \in Seq(S), NEW n \in 1 .. Len(q)
    PROVE  SubSeq(q, n + 1, Len(q)) \in Seq(S) /\ SubSeq(q, 1, n) \in Seq(S)
  OBVIOUS

LEMMA TakesType ==
    ASSUME TypeOK, NEW s \in Sessions, NEW n \in 1 .. Len(stream[s]), Takes(s, n)
    PROVE  stream' \in [Sessions -> Seq(Commands)]
  <1>1. stream \in [Sessions -> Seq(Commands)]
    BY DEF TypeOK
  <1>2. SubSeq(stream[s], n + 1, Len(stream[s])) \in Seq(Commands)
    BY <1>1, RestType
  <1> QED
    BY <1>1, <1>2 DEF Takes

LEMMA ReceivesType ==
    ASSUME TypeOK, NEW s \in Sessions, NEW command, NEW verb, Receives(s, command, verb)
    PROVE  stream' \in [Sessions -> Seq(Commands)] /\ At(s, "command")
  BY TakesType DEF Receives

\* The locals that send leaves, in every thread.
LEMMA SendsType ==
    ASSUME TypeOK, \A x \in Sessions : Consistent(thread[x]),
           NEW s \in Sessions, NEW answer \in Answers, NEW locals \in Locals, Consistent(locals),
           Sends(s, answer, locals)
    PROVE  /\ up' \in BOOLEAN
           /\ thread' \in [Sessions -> Locals] /\ \A x \in Sessions : Consistent(thread'[x])
           /\ replies' \in [Sessions -> Seq(Answers)]
  <1>1. thread \in [Sessions -> Locals] /\ replies \in [Sessions -> Seq(Answers)] /\ up \in BOOLEAN
    BY DEF TypeOK
  <1>2. Append(replies[s], answer) \in Seq(Answers)
    BY <1>1
  <1>3. CASE Becomes(s, locals) /\ UNCHANGED up
    <2>1. thread' \in [Sessions -> Locals] /\ \A x \in Sessions : Consistent(thread'[x])
      BY <1>1, <1>3 DEF Becomes
    <2>2. replies' \in [Sessions -> Seq(Answers)]
      BY <1>1, <1>2 DEF Sends
    <2> QED
      BY <1>1, <1>3, <2>1, <2>2
  <1>4. CASE up' = FALSE /\ thread' = [x \in Sessions |-> NoThread] /\ UNCHANGED replies
    BY <1>1, <1>4, NoThreadType
  <1> QED
    BY <1>3, <1>4 DEF Sends

LEMMA BecomesType ==
    ASSUME TypeOK, \A x \in Sessions : Consistent(thread[x]),
           NEW s \in Sessions, NEW locals \in Locals, Consistent(locals), Becomes(s, locals)
    PROVE  thread' \in [Sessions -> Locals] /\ \A x \in Sessions : Consistent(thread'[x])
  BY DEF TypeOK, Becomes

\* What the files and the clients keep while a thread answers.
LEMMA AnswerKeeps ==
    ASSUME DialogueInv, UNCHANGED <<fileVars, clientVars>>,
           up' \in BOOLEAN, stream' \in [Sessions -> Seq(Commands)],
           thread' \in [Sessions -> Locals], \A x \in Sessions : Consistent(thread'[x]),
           replies' \in [Sessions -> Seq(Answers)]
    PROVE  DialogueInv'
  BY DEF DialogueInv, TypeOK, StoredMailsWereAccepted, fileVars, clientVars

LEMMA ScannedType ==
    ASSUME NEW command \in Commands, NEW before \in Addresses
    PROVE  Scanned(command.email, before) \in Addresses
  BY DEF Scanned, Commands

\* The commands of the dialogue.
LEMMA HandlesStep ==
    ASSUME DialogueInv, NEW s \in Sessions, stream[s] # <<>>, Handles(s, Head(stream[s]))
    PROVE  DialogueInv'
  <1> DEFINE command == Head(stream[s])
             l == thread[s]
  <1>a. TypeOK /\ \A x \in Sessions : Consistent(thread[x])
    BY DEF DialogueInv
  <1>b. command \in Commands
    <2>1. stream[s] \in Seq(Commands)
      BY <1>a DEF TypeOK
    <2> QED
      BY <2>1
  <1>c. l \in Locals /\ Consistent(l)
    BY <1>a DEF TypeOK
  <1>d. \A verb : Receives(s, command, verb) =>
            stream' \in [Sessions -> Seq(Commands)] /\ l.place = "command"
    BY <1>a, ReceivesType DEF At
  <1>e. \A answer \in Answers, locals \in Locals :
            Consistent(locals) /\ Sends(s, answer, locals) =>
              /\ up' \in BOOLEAN
              /\ thread' \in [Sessions -> Locals] /\ \A x \in Sessions : Consistent(thread'[x])
              /\ replies' \in [Sessions -> Seq(Answers)]
    BY <1>a, SendsType
  <1>f. Approval \in Answers /\ Refusal \in Answers /\ Prompt \in Answers
    BY DEF Answers
  <1> HIDE DEF command, l
  <1>1. CASE Quit(s, command)
    BY <1>1, <1>d, <1>e, <1>f, NoThreadType, AnswerKeeps DEF Quit
  <1>2. CASE Helo(s, command)
    <2>1. command.domain \in Domains
      BY <1>b DEF Commands
    <2>2. l.state = 0 /\ l.place = "command"
      BY <1>2, <1>d DEF Helo, l
    <2>3. /\ [l EXCEPT !.helo_domain = Missing] \in Locals
          /\ Consistent([l EXCEPT !.helo_domain = Missing])
      BY <1>c, <2>2, EmptyType DEF Locals, Consistent
    <2>4. /\ [l EXCEPT !.helo_domain = command.domain, !.state = 1] \in Locals
          /\ Consistent([l EXCEPT !.helo_domain = command.domain, !.state = 1])
      <3>1. [l EXCEPT !.helo_domain = command.domain, !.state = 1] \in Locals
        BY <1>c, <2>1 DEF Locals
      <3> QED
        BY <1>c, <2>2, <3>1 DEF Locals, Consistent
    <2> QED
      BY <1>2, <1>d, <1>e, <1>f, <2>3, <2>4, AnswerKeeps DEF Helo, l
  <1>3. CASE MailFrom(s, command)
    <2> DEFINE given == Scanned(command.email, l.sender)
    <2>1. given \in Addresses
      BY <1>b, <1>c, ScannedType DEF Locals
    <2>2. l.state = 1 /\ l.place = "command"
      BY <1>3, <1>d DEF MailFrom, l
    <2> HIDE DEF given
    <2>3. [l EXCEPT !.sender = given] \in Locals /\ Consistent([l EXCEPT !.sender = given])
      BY <1>c, <2>1, <2>2 DEF Locals, Consistent
    <2>4. SenderFits(s, given) =>
            /\ [l EXCEPT !.sender = given, !.state = 2] \in Locals
            /\ Consistent([l EXCEPT !.sender = given, !.state = 2])
      <3>1. [l EXCEPT !.sender = given, !.state = 2] \in Locals
        BY <1>c, <2>1 DEF Locals
      <3>2. SenderFits(s, given) => check_valid_email(given) /\ extract_domain(given) = l.helo_domain
        BY DEF SenderFits, l
      <3> QED
        BY <1>c, <2>2, <3>1, <3>2 DEF Locals, Consistent
    <2>5. CASE SenderFits(s, given)
      BY <1>3, <2>5, <1>d, <1>e, <1>f, <2>4, AnswerKeeps DEF MailFrom, given, l
    <2>6. CASE ~ SenderFits(s, given)
      BY <1>3, <2>6, <1>d, <1>e, <1>f, <2>3, AnswerKeeps DEF MailFrom, given, l
    <2> QED
      BY <2>5, <2>6
  <1>4. CASE RcptTo(s, command)
    <2> DEFINE given == Scanned(command.email, l.recipient)
    <2>1. given \in Addresses
      BY <1>b, <1>c, ScannedType DEF Locals
    <2>2. l.state = 2 /\ l.place = "command"
      BY <1>4, <1>d DEF RcptTo, l
    <2> HIDE DEF given
    <2>3. [l EXCEPT !.recipient = given] \in Locals /\ Consistent([l EXCEPT !.recipient = given])
      <3>1. [l EXCEPT !.recipient = given] \in Locals
        BY <1>c, <2>1 DEF Locals
      <3> QED
        BY <1>c, <2>2, <3>1 DEF Locals, Consistent
    <2>4. check_valid_email(given) =>
            /\ [l EXCEPT !.recipient = given, !.state = 3] \in Locals
            /\ Consistent([l EXCEPT !.recipient = given, !.state = 3])
      BY <1>c, <2>1, <2>2 DEF Locals, Consistent
    <2>5. CASE check_valid_email(given)
      BY <1>4, <2>5, <1>d, <1>e, <1>f, <2>4, AnswerKeeps DEF RcptTo, given, l
    <2>6. CASE ~ check_valid_email(given)
      BY <1>4, <2>6, <1>d, <1>e, <1>f, <2>3, AnswerKeeps DEF RcptTo, given, l
    <2> QED
      BY <2>5, <2>6
  <1>5. CASE Data(s, command)
    <2>1. l.state = 3
      BY <1>5 DEF Data, l
    <2>2. /\ [l EXCEPT !.place = "data", !.message = <<>>] \in Locals
          /\ Consistent([l EXCEPT !.place = "data", !.message = <<>>])
      BY <1>c, <2>1, EmptyType DEF Locals, Consistent
    <2> QED
      BY <1>5, <1>d, <1>e, <1>f, <2>2, AnswerKeeps DEF Data, l
  <1>6. CASE List(s, command)
    <2>1. PICK answer \in {Approval, Refusal} : Sends(s, answer, l)
      BY <1>6 DEF List, l
    <2> QED
      BY <1>6, <2>1, <1>c, <1>d, <1>e, <1>f, AnswerKeeps DEF List
  <1>7. CASE GetMail(s, command)
    <2>1. PICK answer \in {Approval, Refusal} : Sends(s, answer, l)
      BY <1>7 DEF GetMail, l
    <2> QED
      BY <1>7, <2>1, <1>c, <1>d, <1>e, <1>f, AnswerKeeps DEF GetMail
  <1>8. CASE Unknown(s, command)
    BY <1>8, <1>c, <1>d, <1>e, <1>f, AnswerKeeps DEF Unknown, l
  <1> QED
    BY <1>1, <1>2, <1>3, <1>4, <1>5, <1>6, <1>7, <1>8 DEF Handles, command

-----------------------------------------------------------------------------
(* The other steps of a thread.                                            *)

LEMMA PiecesType ==
    ASSUME NEW units \in Seq(Commands)
    PROVE  /\ PiecesOf(units) \in Seq(Texts) /\ Len(PiecesOf(units)) = Len(units)
           /\ \A i \in 1 .. Len(units) : PiecesOf(units)[i] = units[i].verb
  <1>1. \A i \in 1 .. Len(units) : units[i].verb \in Texts
    <2>1. \A i \in 1 .. Len(units) : units[i] \in Commands
      OBVIOUS
    <2> QED
      BY <2>1 DEF Commands
  <1>2. PiecesOf(units) = [i \in 1 .. Len(units) |-> units[i].verb]
    BY DEF PiecesOf
  <1> QED
    BY <1>1, <1>2

\* The pieces of a line, sent as units.
LEMMA TextedType ==
    ASSUME NEW pieces \in Seq(Texts)
    PROVE  Texted(pieces) \in Seq(Commands) /\ PiecesOf(Texted(pieces)) = pieces
  <1>1. \A i \in 1 .. Len(pieces) : Text(pieces[i]) \in Commands /\ Text(pieces[i]).verb = pieces[i]
    <2>1. \A i \in 1 .. Len(pieces) : pieces[i] \in Texts
      OBVIOUS
    <2> QED
      BY <2>1, EmptyType DEF Text, Command, Commands
  <1>2. Texted(pieces) = [i \in 1 .. Len(pieces) |-> Text(pieces[i])]
    BY DEF Texted
  <1>3. Texted(pieces) \in Seq(Commands) /\ Len(Texted(pieces)) = Len(pieces)
    BY <1>1, <1>2
  <1>4. \A i \in 1 .. Len(pieces) : PiecesOf(Texted(pieces))[i] = pieces[i]
    BY <1>1, <1>2, <1>3, PiecesType
  <1>5. PiecesOf(Texted(pieces)) \in Seq(Texts) /\ Len(PiecesOf(Texted(pieces))) = Len(pieces)
    BY <1>3, PiecesType
  <1> QED
    BY <1>3, <1>4, <1>5

\* The lines that are typed.
LEMMA LinesType ==
    /\ \A line \in TypedLines : Append(line, EOL) \in Seq(Texts)
    /\ End \in Seq(Texts)
  <1>1. Dot \in Texts /\ EOL \in Texts /\ Words \cup {Dot} \subseteq Texts
    BY DEF Texts
  <1>2. ASSUME NEW line \in TypedLines PROVE Append(line, EOL) \in Seq(Texts)
    <2>1. line \in Seq(Words \cup {Dot})
      BY SmtpAssumption
    <2>2. line \in Seq(Texts)
      BY <1>1, <2>1
    <2> QED
      BY <1>1, <2>2
  <1> QED
    BY <1>1, <1>2 DEF End

\* A step of a thread that changes its locals and the stream.
LEMMA ThreadKeeps ==
    ASSUME DialogueInv, NEW s \in Sessions, NEW locals \in Locals, Consistent(locals),
           Becomes(s, locals), UNCHANGED <<up, stored, replies, cpc, draft, out_of_step>>,
           mailbox' \in [Mailboxes -> Seq(Pieces)], stream' \in [Sessions -> Seq(Commands)]
    PROVE  DialogueInv'
  <1>1. thread' \in [Sessions -> Locals] /\ \A x \in Sessions : Consistent(thread'[x])
    BY BecomesType DEF DialogueInv
  <1>2. TypeOK'
    BY <1>1 DEF DialogueInv, TypeOK
  <1> QED
    BY <1>1, <1>2 DEF DialogueInv, StoredMailsWereAccepted

LEMMA MailStep ==
    ASSUME DialogueInv, NEW s \in Sessions,
           MoreOfMail(s) \/ EndOfMail(s) \/ MailTooLong(s) \/ HungUpInMail(s)
    PROVE  DialogueInv'
  <1> DEFINE l == thread[s]
             moved == [l EXCEPT !.place = "store"]
  <1>a. TypeOK
    BY DEF DialogueInv
  <1>b. l \in Locals /\ Consistent(l)
    BY DEF DialogueInv, TypeOK
  <1>c. l.place = "data"
    BY DEF MoreOfMail, EndOfMail, MailTooLong, HungUpInMail, At
  <1>d. /\ mailbox \in [Mailboxes -> Seq(Pieces)] /\ stream \in [Sessions -> Seq(Commands)]
        /\ out_of_step \in [Sessions -> BOOLEAN]
    BY <1>a DEF TypeOK
  <1>e. moved \in Locals /\ Consistent(moved)
    <2>1. moved \in Locals
      BY <1>b DEF Locals
    <2> QED
      BY <1>b, <1>c, <2>1 DEF Locals, Consistent
  <1>1. CASE MoreOfMail(s)
    <2> DEFINE got(n) == PiecesOf(SubSeq(stream[s], 1, n))
               filled(n) == [l EXCEPT !.message = @ \o got(n)]
    <2>1. PICK n \in 1 .. Len(stream[s]) : Takes(s, n) /\ Becomes(s, filled(n))
      BY <1>1 DEF MoreOfMail
    <2>2. got(n) \in Seq(Texts)
      <3>1. SubSeq(stream[s], 1, n) \in Seq(Commands)
        BY <1>d, RestType
      <3> QED
        BY <3>1, PiecesType
    <2>3. l.message \in Seq(Texts)
      BY <1>b DEF Locals
    <2>4. l.message \o got(n) \in Seq(Texts)
      BY <2>2, <2>3
    <2> HIDE DEF got
    <2>5. filled(n) \in Locals
      BY <1>b, <2>4 DEF Locals
    <2>6. Consistent(filled(n))
      BY <1>b, <1>c, <2>5 DEF Locals, Consistent
    <2>7. stream' \in [Sessions -> Seq(Commands)]
      BY <1>a, <2>1, TakesType
    <2>8. UNCHANGED <<up, mailbox, stored, replies, cpc, draft, out_of_step>>
      BY <1>1 DEF MoreOfMail, fileVars, clientVars
    <2> QED
      BY <1>d, <2>1, <2>5, <2>6, <2>7, <2>8, ThreadKeeps
  <1>2. CASE EndOfMail(s)
    <2>1. 2 \in 1 .. Len(stream[s])
      BY <1>2, <1>d DEF EndOfMail
    <2>2. stream' \in [Sessions -> Seq(Commands)]
      BY <1>a, <1>2, <2>1, TakesType DEF EndOfMail
    <2>3. Becomes(s, moved) /\ UNCHANGED <<up, mailbox, stored, replies, cpc, draft, out_of_step>>
      BY <1>2 DEF EndOfMail, Goes, fileVars, clientVars
    <2> QED
      BY <1>d, <1>e, <2>2, <2>3, ThreadKeeps
  <1>3. CASE MailTooLong(s)
    <2>1. stream' \in [Sessions -> Seq(Commands)]
      BY <1>a, <1>3, TakesType DEF MailTooLong
    <2>2. Becomes(s, moved) /\ UNCHANGED <<up, mailbox, stored, replies, cpc, draft, out_of_step>>
      BY <1>3 DEF MailTooLong, Goes, fileVars, clientVars
    <2> QED
      BY <1>d, <1>e, <2>1, <2>2, ThreadKeeps
  <1>4. CASE HungUpInMail(s)
    <2>1. Becomes(s, moved)
          /\ UNCHANGED <<up, mailbox, stored, stream, replies, cpc, draft, out_of_step>>
      BY <1>4 DEF HungUpInMail, Goes, fileVars, clientVars
    <2> QED
      BY <1>d, <1>e, <2>1, ThreadKeeps
  <1> QED
    BY <1>1, <1>2, <1>3, <1>4

LEMMA CutType ==
    ASSUME NEW S, NEW q \in Seq(S), NEW n \in Nat
    PROVE  /\ SubSeq(q, n + 1, Len(q)) \in Seq(S)
           /\ ~ (Len(q) <= n) => SubSeq(q, 1, n) \in Seq(S)
  OBVIOUS

LEMMA FilesType ==
    ASSUME NEW s \in Sessions, thread[s] \in Locals
    PROVE  /\ TheMail(s) \in Mails
           /\ FirstWrite(TheMail(s)) \in Seq(Pieces) /\ SecondWrite(TheMail(s)) \in Seq(Pieces)
  <1> DEFINE lines == TheMail(s).lines
  <1>1. TheMail(s) \in Mails
    BY DEF TheMail, Mails, Locals
  <1>2. lines \in Seq(Texts)
    BY <1>1 DEF Mails
  <1>3. Texts \subseteq Pieces /\ {Dot, EOL, "From:", "Date:"} \subseteq Pieces
    BY DEF Texts, Pieces
  <1>4. lines \in Seq(Pieces)
    BY <1>2, <1>3
  <1> HIDE DEF lines
  <1>5. Header \in Seq(Pieces) /\ <<EOL, Dot, EOL>> \in Seq(Pieces)
    BY <1>3 DEF Header
  <1>6. Whole(TheMail(s)) \in Seq(Pieces)
    <2>1. Header \o lines \in Seq(Pieces)
      BY <1>4, <1>5
    <2> QED
      BY <1>5, <2>1 DEF Whole, lines
  <1>7. FirstWrite(TheMail(s)) \in Seq(Pieces) /\ SecondWrite(TheMail(s)) \in Seq(Pieces)
    BY <1>6, MailboxAssumption, CutType DEF FirstWrite, SecondWrite, Short
  <1> QED
    BY <1>1, <1>7

LEMMA StoreStep ==
    ASSUME DialogueInv, NEW s \in Sessions, store_email(s)
    PROVE  DialogueInv'
  <1> DEFINE l == thread[s]
             mail == TheMail(s)
  <1>a. TypeOK /\ StoredMailsWereAccepted
    BY DEF DialogueInv
  <1>b. l \in Locals /\ Consistent(l)
    BY DEF DialogueInv, TypeOK
  <1>c. mail \in Mails /\ FirstWrite(mail) \in Seq(Pieces)
    BY <1>b, FilesType
  <1>d. check_valid_email(mail.sender) /\ extract_domain(mail.sender) = mail.helo
    BY <1>b DEF store_email, At, Consistent, TheMail
  <1> HIDE DEF mail
  <1>e. UNCHANGED <<up, stream, replies, cpc, draft, out_of_step>>
    BY DEF store_email, clientVars
  <1>1. mailbox' \in [Mailboxes -> Seq(Pieces)]
    <2>1. mailbox \in [Mailboxes -> Seq(Pieces)]
      BY <1>a DEF TypeOK
    <2>2. \A e \in Mailboxes : mailbox[e] \o FirstWrite(mail) \in Seq(Pieces)
      BY <2>1, <1>c
    <2> QED
      BY <2>1, <2>2 DEF store_email, mail
  <1>2. stored \in [Mailboxes -> Seq(Mails)]
    BY <1>a DEF TypeOK
  <1>3. stored' = [stored EXCEPT ![l.recipient] = Append(@, mail)]
    BY DEF store_email, mail
  <1>4. \A e \in Mailboxes : stored'[e] = stored[e] \/ stored'[e] = Append(stored[e], mail)
    BY <1>2, <1>3
  <1>5. stored' \in [Mailboxes -> Seq(Mails)]
    <2>1. \A e \in Mailboxes : Append(stored[e], mail) \in Seq(Mails)
      BY <1>2, <1>c
    <2> QED
      BY <2>1, <1>2, <1>3
  <1>6. StoredMailsWereAccepted'
    <2> SUFFICES ASSUME NEW e \in Mailboxes, NEW i \in 1 .. Len(stored'[e])
                 PROVE  /\ check_valid_email(stored'[e][i].sender)
                        /\ extract_domain(stored'[e][i].sender) = stored'[e][i].helo
      BY DEF StoredMailsWereAccepted
    <2>1. CASE i \in 1 .. Len(stored[e])
      <3>1. stored'[e][i] = stored[e][i]
        <4>1. stored[e] \in Seq(Mails)
          BY <1>2
        <4>2. Append(stored[e], mail)[i] = stored[e][i]
          BY <4>1, <1>c, <2>1
        <4> QED
          BY <4>2, <1>4
      <3> QED
        BY <1>a, <2>1, <3>1 DEF StoredMailsWereAccepted
    <2>2. CASE i \notin 1 .. Len(stored[e])
      <3>1. stored'[e] = Append(stored[e], mail) /\ stored[e] \in Seq(Mails)
        BY <1>2, <1>4, <2>2
      <3>2. stored'[e][i] = mail
        BY <3>1, <2>2, <1>c
      <3> QED
        BY <3>2, <1>d
    <2> QED
      BY <2>1, <2>2
  <1>7. PICK locals \in Locals : Consistent(locals) /\ Becomes(s, locals)
    <2>1. l.place = "store"
      BY DEF store_email, At
    <2>2. [l EXCEPT !.place = "receipt"] \in Locals /\ Consistent([l EXCEPT !.place = "receipt"])
      <3>1. [l EXCEPT !.place = "receipt"] \in Locals
        BY <1>b DEF Locals
      <3> QED
        BY <1>b, <2>1, <3>1 DEF Locals, Consistent
    <2>3. [l EXCEPT !.halfway = TRUE] \in Locals /\ Consistent([l EXCEPT !.halfway = TRUE])
      <3>1. [l EXCEPT !.halfway = TRUE] \in Locals
        BY <1>b DEF Locals
      <3> QED
        BY <1>b, <2>1, <3>1 DEF Locals, Consistent
    <2> QED
      BY <2>2, <2>3 DEF store_email, Goes
  <1>8. thread' \in [Sessions -> Locals] /\ \A x \in Sessions : Consistent(thread'[x])
    BY <1>7, BecomesType DEF DialogueInv
  <1>9. TypeOK'
    BY <1>a, <1>e, <1>1, <1>5, <1>8 DEF TypeOK
  <1> QED
    BY <1>6, <1>8, <1>9 DEF DialogueInv

LEMMA AfterStoreStep ==
    ASSUME DialogueInv, NEW s \in Sessions, StoreRest(s) \/ Receipt(s) \/ HungUp(s)
    PROVE  DialogueInv'
  <1> DEFINE l == thread[s]
  <1>a. TypeOK /\ \A x \in Sessions : Consistent(thread[x])
    BY DEF DialogueInv
  <1>b. l \in Locals /\ Consistent(l)
    BY <1>a DEF TypeOK
  <1>c. /\ mailbox \in [Mailboxes -> Seq(Pieces)] /\ stream \in [Sessions -> Seq(Commands)]
        /\ out_of_step \in [Sessions -> BOOLEAN]
    BY <1>a DEF TypeOK
  <1>1. CASE StoreRest(s)
    <2> DEFINE done == [l EXCEPT !.place = "receipt", !.halfway = FALSE]
    <2>1. done \in Locals
      BY <1>b DEF Locals
    <2>2. l.place = "store"
      BY <1>1 DEF StoreRest, At
    <2>3. Consistent(done)
      BY <1>b, <2>1, <2>2 DEF Locals, Consistent
    <2>4. \A e \in Mailboxes : mailbox[e] \o SecondWrite(TheMail(s)) \in Seq(Pieces)
      BY <1>b, <1>c, FilesType
    <2>5. mailbox' \in [Mailboxes -> Seq(Pieces)]
      BY <1>1, <1>c, <2>4 DEF StoreRest
    <2>6. Becomes(s, done) /\ UNCHANGED <<up, stored, stream, replies, cpc, draft, out_of_step>>
      BY <1>1 DEF StoreRest, clientVars
    <2> QED
      BY <1>c, <2>1, <2>3, <2>5, <2>6, ThreadKeeps
  <1>2. CASE Receipt(s)
    <2> DEFINE done == [l EXCEPT !.place = "command", !.state = 1, !.message = <<>>]
    <2>1. done \in Locals
      BY <1>b, EmptyType DEF Locals
    <2>2. Consistent(done)
      BY <1>b, <2>1 DEF Locals, Consistent
    <2>3. Sends(s, Approval, done) /\ UNCHANGED <<fileVars, stream, cpc, draft>>
      BY <1>2 DEF Receipt
    <2>4. Approval \in Answers /\ out_of_step' \in [Sessions -> BOOLEAN]
      BY <1>2, <1>c DEF Answers, Receipt
    <2> HIDE DEF done
    <2>5. /\ up' \in BOOLEAN
          /\ thread' \in [Sessions -> Locals] /\ \A x \in Sessions : Consistent(thread'[x])
          /\ replies' \in [Sessions -> Seq(Answers)]
      BY <1>a, <2>1, <2>2, <2>3, <2>4, SendsType
    <2>6. TypeOK'
      BY <1>a, <2>3, <2>4, <2>5 DEF TypeOK, fileVars
    <2> QED
      BY <2>3, <2>5, <2>6 DEF DialogueInv, StoredMailsWereAccepted, fileVars
  <1>3. CASE HungUp(s)
    <2>1. Becomes(s, NoThread)
          /\ UNCHANGED <<up, mailbox, stored, stream, replies, cpc, draft, out_of_step>>
      BY <1>3 DEF HungUp, fileVars, clientVars
    <2> QED
      BY <1>c, <2>1, NoThreadType, ThreadKeeps
  <1> QED
    BY <1>1, <1>2, <1>3

-----------------------------------------------------------------------------
(* main and the clients.                                                   *)

LEMMA AcceptStep ==
    ASSUME DialogueInv, NEW s \in Sessions, Accept(s)
    PROVE  DialogueInv'
  <1> DEFINE fresh == [NoThread EXCEPT !.place = "command"]
  <1>1. fresh \in Locals
    BY NoThreadType DEF Locals
  <1>2. Consistent(fresh)
    BY <1>1 DEF Locals, Consistent, NoThread
  <1>3. thread' \in [Sessions -> Locals] /\ \A x \in Sessions : Consistent(thread'[x])
    BY <1>1, <1>2, BecomesType DEF DialogueInv, Accept
  <1>4. <<>> \in Seq(Commands) /\ <<>> \in Seq(Texts) /\ <<>> \in Seq(Answers)
    OBVIOUS
  <1>5. TypeOK'
    BY <1>3, <1>4 DEF DialogueInv, TypeOK, Accept, fileVars
  <1> QED
    BY <1>3, <1>5 DEF DialogueInv, StoredMailsWereAccepted, Accept, fileVars

LEMMA ClientStep ==
    ASSUME DialogueInv, NEW s \in Sessions, Client(s)
    PROVE  DialogueInv'
  <1>a. TypeOK
    BY DEF DialogueInv
  <1>b. /\ stream \in [Sessions -> Seq(Commands)] /\ draft \in [Sessions -> Seq(Texts)]
        /\ replies \in [Sessions -> Seq(Answers)] /\ out_of_step \in [Sessions -> BOOLEAN]
        /\ cpc \in [Sessions -> {"prompt", "awaits", "awaits goodbye", "body", "awaits receipt",
                                  "closed"}]
    BY <1>a DEF TypeOK
  <1>c. <<>> \in Seq(Commands) /\ <<>> \in Seq(Texts) /\ <<>> \in Seq(Answers)
    OBVIOUS
  <1>d. ASSUME UNCHANGED serverVars, TypeOK' PROVE DialogueInv'
    BY <1>d DEF DialogueInv, StoredMailsWereAccepted, serverVars, fileVars
  <1>1. ASSUME NEW command \in Typed, Type(s, command) PROVE DialogueInv'
    <2>1. Append(stream[s], command) \in Seq(Commands)
      <3>1. command \in Commands /\ stream[s] \in Seq(Commands)
        BY <1>b, SmtpAssumption
      <3> QED
        BY <3>1
    <2>2. stream' \in [Sessions -> Seq(Commands)]
      BY <1>1, <1>b, <2>1 DEF Type
    <2> QED
      BY <1>1, <1>a, <1>b, <1>d, <2>2 DEF Type, TypeOK, serverVars, fileVars
  <1>2. CASE TypeNothing(s)
    BY <1>2, <1>a, <1>b, <1>d DEF TypeNothing, TypeOK, serverVars, fileVars
  <1>3. ASSUME NEW here, NEW next \in {"prompt", "body", "closed"}, ReadsReply(s, here, next)
        PROVE  DialogueInv'
    <2>1. PICK n \in 1 .. Len(replies[s]) :
              replies' = [replies EXCEPT ![s] = SubSeq(@, n + 1, Len(@))]
      BY <1>3 DEF ReadsReply
    <2>2. SubSeq(replies[s], n + 1, Len(replies[s])) \in Seq(Answers)
      BY <1>b, RestType
    <2>3. replies' \in [Sessions -> Seq(Answers)]
      BY <1>b, <2>1, <2>2
    <2> QED
      BY <1>3, <1>a, <1>b, <1>c, <1>d, <2>3 DEF ReadsReply, TypeOK, serverVars, fileVars
  <1>4. CASE ReadsAnswer(s) \/ ReadsPrompt(s) \/ ReadsGoodbye(s) \/ ReadsReceipt(s)
    BY <1>3, <1>4 DEF ReadsAnswer, ReadsPrompt, ReadsGoodbye, ReadsReceipt
  <1>5. ASSUME NEW line \in Seq(Texts), SendsLine(s, line)
        PROVE  stream' \in [Sessions -> Seq(Commands)] /\ draft' \in [Sessions -> Seq(Texts)]
    <2>1. stream[s] \o Texted(line) \in Seq(Commands) /\ draft[s] \o line \in Seq(Texts)
      <3>1. stream[s] \in Seq(Commands) /\ draft[s] \in Seq(Texts)
        BY <1>b
      <3> QED
        BY <3>1, TextedType
    <2> QED
      BY <1>5, <1>b, <2>1 DEF SendsLine
  <1>6. ASSUME NEW line \in TypedLines, TypeLine(s, line) PROVE DialogueInv'
    <2>1. SendsLine(s, Append(line, EOL)) /\ UNCHANGED cpc
      BY <1>6 DEF TypeLine
    <2>2. stream' \in [Sessions -> Seq(Commands)] /\ draft' \in [Sessions -> Seq(Texts)]
      BY <1>5, <2>1, LinesType
    <2> QED
      BY <1>a, <1>d, <2>1, <2>2 DEF SendsLine, TypeOK, serverVars, fileVars
  <1>7. CASE TypeEnd(s)
    <2>1. stream' \in [Sessions -> Seq(Commands)] /\ draft' \in [Sessions -> Seq(Texts)]
      BY <1>5, <1>7, LinesType DEF TypeEnd
    <2> QED
      BY <1>7, <1>a, <1>b, <1>d, <2>1 DEF TypeEnd, SendsLine, TypeOK, serverVars, fileVars
  <1>8. CASE HangUp(s)
    <2>1. stream' \in [Sessions -> Seq(Commands)]
      BY <1>8, <1>b, <1>c DEF HangUp
    <2> QED
      BY <1>8, <1>a, <1>b, <1>c, <1>d, <2>1 DEF HangUp, TypeOK, serverVars, fileVars
  <1>9. CASE ServerGone(s)
    BY <1>9, <1>a, <1>b, <1>c, <1>d DEF ServerGone, TypeOK, serverVars, fileVars
  <1> QED
    BY <1>1, <1>2, <1>4, <1>6, <1>7, <1>8, <1>9 DEF Client

LEMMA DialogueStep == DialogueInv /\ [Next]_vars => DialogueInv'
  <1> SUFFICES ASSUME DialogueInv, [Next]_vars PROVE DialogueInv'
    OBVIOUS
  <1>1. CASE Restart
    BY <1>1 DEF Restart, DialogueInv, TypeOK, StoredMailsWereAccepted, fileVars, clientVars
  <1>2. CASE Kill
    <2>1. <<>> \in Seq(Commands)
      OBVIOUS
    <2>2. TypeOK'
      BY <1>2, <2>1, NoThreadType DEF Kill, DialogueInv, TypeOK, fileVars, clientVars
    <2>3. \A s \in Sessions : Consistent(thread'[s])
      BY <1>2, NoThreadType DEF Kill
    <2> QED
      BY <1>2, <2>2, <2>3 DEF Kill, DialogueInv, StoredMailsWereAccepted, fileVars
  <1>3. ASSUME NEW s \in Sessions, Thread(s) PROVE DialogueInv'
    BY <1>3, HandlesStep, MailStep, StoreStep, AfterStoreStep DEF Thread
  <1>4. CASE UNCHANGED vars
    BY <1>4 DEF DialogueInv, TypeOK, StoredMailsWereAccepted, vars, fileVars, clientVars
  <1> QED
    BY <1>1, <1>2, <1>3, <1>4, AcceptStep, ClientStep DEF Next

-----------------------------------------------------------------------------
(* Client and thread in step.                                              *)

\* What the others do leaves a session as it was, or stops its thread.
LEMMA OthersInStep ==
    ASSUME NEW x \in Sessions, InStep(x), UNCHANGED <<cpc[x], draft[x], out_of_step[x]>>,
           thread'[x].place = "none" \/ UNCHANGED <<thread[x], stream[x], replies[x]>>
    PROVE  InStep(x)'
  <1>1. CASE thread'[x].place = "none"
    BY <1>1 DEF InStep, At
  <1>2. CASE UNCHANGED <<thread[x], stream[x], replies[x]>>
    BY <1>2 DEF InStep, InCommand, InData, InStore, At
  <1> QED
    BY <1>1, <1>2

LEMMA EmptyLength == Len(<<>>) = 0
  OBVIOUS

LEMMA AtMostOne ==
    /\ \A q : q = <<>> \/ Len(q) <= 1 \/ Len(q) = 1 => Len(q) <= 1
    /\ \A S : \A q \in Seq(S) : q # <<>> /\ Len(q) <= 1 => Len(q) = 1
  <1>1. ASSUME NEW q, q = <<>> PROVE Len(q) <= 1
    <2>1. Len(q) = 0
      BY <1>1, EmptyLength
    <2> QED
      BY <2>1
  <1>2. ASSUME NEW q, Len(q) = 1 PROVE Len(q) <= 1
    BY <1>2
  <1>3. ASSUME NEW S, NEW q \in Seq(S), q # <<>>, Len(q) <= 1 PROVE Len(q) = 1
    <2>1. Len(q) \in Nat /\ Len(q) # 0
      BY <1>3
    <2> QED
      BY <1>3, <2>1
  <1> QED
    BY <1>1, <1>2, <1>3

LEMMA OneAnswer == ASSUME NEW x PROVE Append(<<>>, x) = <<x>> /\ Len(<<x>>) = 1 /\ <<x>>[1] = x
  OBVIOUS

LEMMA NoLines ==
    /\ PiecesOf(<<>>) = <<>> /\ <<>> \o PiecesOf(<<>>) = <<>>
    /\ \A d \in Seq(Texts) : IsPrefix(<<>>, d)
  <1>1. PiecesOf(<<>>) = <<>>
    BY DEF PiecesOf
  <1>2. \A d \in Seq(Texts) : Len(<<>>) <= Len(d) /\ SubSeq(<<>>, 1, 0) = <<>> /\ SubSeq(d, 1, 0) = <<>>
    BY SubSeqEmpty
  <1> QED
    BY <1>1, <1>2, EmptyLength DEF IsPrefix

\* When a thread may answer: its client waits for it, or has gone.
Asked(s) ==
    /\ stream'[s] = <<>>
    /\ cpc[s] # "closed" => cpc[s] \in {"awaits", "awaits receipt"} /\ replies[s] = <<>>

\* A thread answers, and goes on with the dialogue, into a mail, or leaves.
LEMMA AnswerInStep ==
    ASSUME TypeOK, StepInv, NEW s \in Sessions, NEW answer \in Answers, NEW locals \in Locals,
           Sends(s, answer, locals), UNCHANGED clientVars,
           \A x \in Sessions \ {s} : stream'[x] = stream[x],
           locals.place # "none" /\ ~ out_of_step[s] => Asked(s),
           locals.place = "command" => answer # Prompt,
           locals.place = "data" => locals.message = <<>> /\ answer = Prompt
                                      /\ (~ out_of_step[s] => cpc[s] # "awaits receipt"),
           locals.place \in {"none", "command", "data"}
    PROVE  StepInv'
  <1>a. thread \in [Sessions -> Locals] /\ replies \in [Sessions -> Seq(Answers)]
    BY DEF TypeOK
  <1>b. UNCHANGED <<cpc, draft, out_of_step>>
    BY DEF clientVars
  <1>1. CASE thread' = [x \in Sessions |-> NoThread]
    BY <1>1, <1>b, OthersInStep DEF StepInv, NoThread
  <1>2. CASE /\ Becomes(s, locals)
             /\ replies' = IF cpc[s] = "closed" THEN replies
                           ELSE [replies EXCEPT ![s] = Append(@, answer)]
    <2>1. ASSUME NEW x \in Sessions, x # s PROVE InStep(x)'
      BY <1>2, <1>a, <1>b, <2>1, OthersInStep DEF StepInv, Becomes
    <2>2. thread'[s] = locals
      BY <1>2, <1>a DEF Becomes
    <2>4. cpc[s] # "closed" => replies'[s] = Append(replies[s], answer)
      BY <1>2, <1>a
    <2>5. Append(<<>>, answer) = <<answer>>
      BY OneAnswer
    <2>6. ASSUME ~ out_of_step[s], locals.place = "command" PROVE InCommand(s)'
      <3>1. Asked(s) /\ answer \in {Approval, Refusal}
        BY <2>6 DEF Answers
      <3>2. Len(stream'[s]) <= 1
        <4>1. stream'[s] = <<>>
          BY <3>1 DEF Asked
        <4> QED
          BY <4>1, AtMostOne, Zenon
      <3> QED
        BY <3>1, <3>2, <2>4, <2>5, <1>b DEF Asked, InCommand
    <2>7. ASSUME ~ out_of_step[s], locals.place = "data" PROVE InData(s)'
      <3>1. Asked(s) /\ answer = Prompt /\ locals.message = <<>> /\ cpc[s] # "awaits receipt"
        BY <2>7
      <3>2. <<>> \o PiecesOf(stream'[s]) = <<>>
        BY <3>1, NoLines DEF Asked
      <3>3. IsPrefix(<<>>, draft[s])
        BY NoLines DEF TypeOK
      <3> QED
        BY <3>1, <3>2, <3>3, <2>2, <2>4, <2>5, <1>b DEF Asked, InData
    <2>8. InStep(s)'
      BY <2>2, <2>6, <2>7, <1>b DEF InStep, At
    <2> QED
      BY <2>1, <2>8 DEF StepInv
  <1> QED
    BY <1>1, <1>2 DEF Sends

\* Nothing but the one command has been sent when it is received.
LEMMA ReceivesInStep ==
    ASSUME TypeOK, StepInv, NEW s \in Sessions, stream[s] # <<>>, NEW verb,
           Receives(s, Head(stream[s]), verb)
    PROVE  /\ \A x \in Sessions \ {s} : stream'[x] = stream[x]
           /\ ~ out_of_step[s] =>
                /\ stream'[s] = <<>>
                /\ \/ cpc[s] = "awaits" /\ replies[s] = <<>>
                   \/ cpc[s] = "awaits goodbye" /\ verb = "QUIT"
                   \/ cpc[s] = "closed"
  <1>a. stream \in [Sessions -> Seq(Commands)]
    BY DEF TypeOK
  <1>1. PICK n \in 1 .. Len(stream[s]) : Takes(s, n)
    BY DEF Receives
  <1>2. /\ stream'[s] = SubSeq(stream[s], n + 1, Len(stream[s]))
        /\ \A x \in Sessions \ {s} : stream'[x] = stream[x]
    BY <1>1, <1>a DEF Takes
  <1>3. ASSUME ~ out_of_step[s]
        PROVE  /\ stream'[s] = <<>>
               /\ \/ cpc[s] = "awaits" /\ replies[s] = <<>>
                  \/ cpc[s] = "awaits goodbye" /\ verb = "QUIT"
                  \/ cpc[s] = "closed"
    <2>1. InCommand(s)
      BY <1>3 DEF StepInv, InStep, Receives
    <2>2. Len(stream[s]) # 0 /\ Len(stream[s]) \in Nat
      BY <1>a
    <2>3. Len(stream[s]) = 1
      <3>1. stream[s] = <<>> \/ Len(stream[s]) <= 1 \/ Len(stream[s]) = 1
        BY <2>1, Zenon DEF InCommand
      <3>2. stream[s] \in Seq(Commands)
        BY <1>a
      <3> QED
        BY <3>1, <3>2, AtMostOne, Zenon
    <2>4. stream'[s] = <<>>
      BY <1>2, <2>3, <1>a
    <2>5. Head(stream[s]).verb = verb
      BY DEF Receives
    <2>6. Head(stream[s]) = stream[s][1]
      BY <1>a, <2>2
    <2> QED
      BY <2>1, <2>4, <2>5, <2>6 DEF InCommand
  <1> QED
    BY <1>2, <1>3

LEMMA HandlesInStep ==
    ASSUME DialogueInv, StepInv, NEW s \in Sessions, stream[s] # <<>>, Handles(s, Head(stream[s]))
    PROVE  StepInv'
  <1> DEFINE command == Head(stream[s])
             l == thread[s]
  <1>a. TypeOK /\ l \in Locals
    BY DEF DialogueInv, TypeOK
  <1>b. command \in Commands
    <2>1. stream[s] \in Seq(Commands)
      BY <1>a DEF TypeOK
    <2> QED
      BY <2>1
  <1>c. ASSUME NEW verb, verb # "QUIT", Receives(s, command, verb), NEW answer \in {Approval, Refusal},
               NEW locals \in Locals, locals.place = "command", Sends(s, answer, locals),
               UNCHANGED clientVars
        PROVE  StepInv'
    <2>1. answer \in Answers /\ answer # Prompt
      BY DEF Answers, Approval, Refusal, Prompt
    <2>2. \A x \in Sessions \ {s} : stream'[x] = stream[x]
      BY <1>a, <1>c, ReceivesInStep
    <2>3. ~ out_of_step[s] => Asked(s)
      BY <1>a, <1>c, ReceivesInStep DEF Asked
    <2> QED
      BY <1>a, <1>c, <2>1, <2>2, <2>3, AnswerInStep
  <1>d. \A verb : Receives(s, command, verb) => l.place = "command"
    BY DEF Receives, At
  <1> HIDE DEF command, l
  <1>1. CASE Quit(s, command)
    <2>1. Receives(s, command, "QUIT") /\ Sends(s, Approval, NoThread) /\ UNCHANGED clientVars
      BY <1>1 DEF Quit
    <2>2. \A x \in Sessions \ {s} : stream'[x] = stream[x]
      BY <1>a, <2>1, ReceivesInStep DEF command
    <2>3. NoThread \in Locals /\ NoThread.place = "none" /\ Approval \in Answers
      BY NoThreadType DEF NoThread, Answers
    <2> QED
      BY <1>a, <2>1, <2>2, <2>3, AnswerInStep
  <1>2. CASE Helo(s, command)
    <2>1. l.place = "command" /\ command.domain \in Domains
      BY <1>2, <1>b, <1>d DEF Helo, Commands
    <2>2. PICK answer \in {Approval, Refusal} :
             \/ Sends(s, answer, [l EXCEPT !.helo_domain = Missing])
             \/ Sends(s, answer, [l EXCEPT !.helo_domain = command.domain, !.state = 1])
      BY <1>2 DEF Helo, l
    <2>3. /\ [l EXCEPT !.helo_domain = Missing] \in Locals
          /\ [l EXCEPT !.helo_domain = Missing].place = "command"
      BY <1>a, <2>1, EmptyType DEF Locals
    <2>4. /\ [l EXCEPT !.helo_domain = command.domain, !.state = 1] \in Locals
          /\ [l EXCEPT !.helo_domain = command.domain, !.state = 1].place = "command"
      BY <1>a, <2>1 DEF Locals
    <2> QED
      BY <1>2, <1>c, <2>2, <2>3, <2>4 DEF Helo
  <1>3. CASE MailFrom(s, command)
    <2> DEFINE given == Scanned(command.email, l.sender)
    <2>1. l.place = "command" /\ given \in Addresses
      BY <1>3, <1>a, <1>b, <1>d, ScannedType DEF MailFrom, Locals
    <2>2. PICK answer \in {Approval, Refusal} :
             \/ Sends(s, answer, [l EXCEPT !.sender = given, !.state = 2])
             \/ Sends(s, answer, [l EXCEPT !.sender = given])
      BY <1>3 DEF MailFrom, l
    <2> HIDE DEF given
    <2>3. [l EXCEPT !.sender = given] \in Locals /\ [l EXCEPT !.sender = given].place = "command"
      BY <1>a, <2>1 DEF Locals
    <2>4. /\ [l EXCEPT !.sender = given, !.state = 2] \in Locals
          /\ [l EXCEPT !.sender = given, !.state = 2].place = "command"
      BY <1>a, <2>1 DEF Locals
    <2> QED
      BY <1>3, <1>c, <2>2, <2>3, <2>4 DEF MailFrom
  <1>4. CASE RcptTo(s, command)
    <2> DEFINE given == Scanned(command.email, l.recipient)
    <2>1. l.place = "command" /\ given \in Addresses
      BY <1>4, <1>a, <1>b, <1>d, ScannedType DEF RcptTo, Locals
    <2>2. PICK answer \in {Approval, Refusal} :
             \/ Sends(s, answer, [l EXCEPT !.recipient = given, !.state = 3])
             \/ Sends(s, answer, [l EXCEPT !.recipient = given])
      BY <1>4 DEF RcptTo, l
    <2> HIDE DEF given
    <2>3. [l EXCEPT !.recipient = given] \in Locals /\ [l EXCEPT !.recipient = given].place = "command"
      BY <1>a, <2>1 DEF Locals
    <2>4. /\ [l EXCEPT !.recipient = given, !.state = 3] \in Locals
          /\ [l EXCEPT !.recipient = given, !.state = 3].place = "command"
      BY <1>a, <2>1 DEF Locals
    <2> QED
      BY <1>4, <1>c, <2>2, <2>3, <2>4 DEF RcptTo
  <1>5. CASE Data(s, command)
    <2>1. Receives(s, command, "DATA") /\ UNCHANGED clientVars
          /\ Sends(s, Prompt, [l EXCEPT !.place = "data", !.message = <<>>])
      BY <1>5 DEF Data, l
    <2>2. /\ [l EXCEPT !.place = "data", !.message = <<>>] \in Locals
          /\ [l EXCEPT !.place = "data", !.message = <<>>].place = "data"
          /\ [l EXCEPT !.place = "data", !.message = <<>>].message = <<>>
      BY <1>a, EmptyType DEF Locals
    <2>3. Prompt \in Answers
      BY DEF Answers
    <2>4. \A x \in Sessions \ {s} : stream'[x] = stream[x]
      BY <1>a, <2>1, ReceivesInStep DEF command
    <2>5. ~ out_of_step[s] => Asked(s) /\ cpc[s] # "awaits receipt"
      <3>1. ~ out_of_step[s] =>
              /\ stream'[s] = <<>>
              /\ \/ cpc[s] = "awaits" /\ replies[s] = <<>>
                 \/ cpc[s] = "awaits goodbye" /\ "DATA" = "QUIT"
                 \/ cpc[s] = "closed"
        BY <1>a, <2>1, ReceivesInStep DEF command
      <3> QED
        BY <3>1 DEF Asked
    <2> QED
      BY <1>a, <2>1, <2>2, <2>3, <2>4, <2>5, AnswerInStep
  <1>6. CASE List(s, command) \/ GetMail(s, command) \/ Unknown(s, command)
    <2>1. UNCHANGED clientVars /\ \E answer \in {Approval, Refusal} : Sends(s, answer, l)
      BY <1>6 DEF List, GetMail, Unknown, l
    <2>2. \E verb : verb # "QUIT" /\ Receives(s, command, verb)
      <3>1. CASE List(s, command)
        <4>1. "LIST" # "QUIT" /\ Receives(s, command, "LIST")
          BY <3>1 DEF List
        <4> QED
          BY <4>1
      <3>2. CASE GetMail(s, command)
        <4>1. "GET_MAIL" # "QUIT" /\ Receives(s, command, "GET_MAIL")
          BY <3>2 DEF GetMail
        <4> QED
          BY <4>1
      <3>3. CASE Unknown(s, command)
        BY <3>3 DEF Unknown, InTurn
      <3> QED
        BY <1>6, <3>1, <3>2, <3>3
    <2>3. PICK verb : verb # "QUIT" /\ Receives(s, command, verb)
      BY <2>2
    <2>4. l.place = "command"
      BY <1>d, <2>3
    <2> QED
      BY <1>a, <1>c, <2>1, <2>3, <2>4
  <1> QED
    BY <1>1, <1>2, <1>3, <1>4, <1>5, <1>6 DEF Handles, command

\* The pieces of a mail, as a sequence of units is cut.
LEMMA PiecesSplit ==
    ASSUME NEW q \in Seq(Commands), NEW n \in 0 .. Len(q)
    PROVE  PiecesOf(q) = PiecesOf(SubSeq(q, 1, n)) \o PiecesOf(SubSeq(q, n + 1, Len(q)))
  <1> DEFINE a == SubSeq(q, 1, n)
             b == SubSeq(q, n + 1, Len(q))
  <1>1. a \in Seq(Commands) /\ Len(a) = n /\ \A i \in 1 .. n : a[i] = q[i]
    OBVIOUS
  <1>2. b \in Seq(Commands) /\ Len(b) = Len(q) - n /\ \A i \in 1 .. Len(q) - n : b[i] = q[n + i]
    OBVIOUS
  <1> HIDE DEF a, b
  <1>3. /\ PiecesOf(q) \in Seq(Texts) /\ Len(PiecesOf(q)) = Len(q) /\ \A i \in 1 .. Len(q) : PiecesOf(q)[i] = q[i].verb
        /\ PiecesOf(a) \in Seq(Texts) /\ Len(PiecesOf(a)) = n /\ \A i \in 1 .. n : PiecesOf(a)[i] = a[i].verb
        /\ PiecesOf(b) \in Seq(Texts) /\ Len(PiecesOf(b)) = Len(q) - n
        /\ \A i \in 1 .. Len(q) - n : PiecesOf(b)[i] = b[i].verb
    BY <1>1, <1>2, PiecesType
  <1>4. /\ PiecesOf(a) \o PiecesOf(b) \in Seq(Texts) /\ Len(PiecesOf(a) \o PiecesOf(b)) = Len(q)
        /\ \A i \in 1 .. Len(q) : (PiecesOf(a) \o PiecesOf(b))[i] = IF i <= n THEN PiecesOf(a)[i] ELSE PiecesOf(b)[i - n]
    BY <1>3, ConcatProperties
  <1>5. \A i \in 1 .. Len(q) : (PiecesOf(a) \o PiecesOf(b))[i] = PiecesOf(q)[i]
    <2> TAKE i \in 1 .. Len(q)
    <2>1. CASE i <= n
      <3>1. (PiecesOf(a) \o PiecesOf(b))[i] = PiecesOf(a)[i] /\ i \in 1 .. n
        BY <1>4, <2>1
      <3>2. PiecesOf(a)[i] = a[i].verb /\ a[i] = q[i] /\ PiecesOf(q)[i] = q[i].verb
        BY <1>1, <1>3, <3>1
      <3> QED
        BY <3>1, <3>2, Zenon
    <2>2. CASE ~ i <= n
      <3>1. i - n \in 1 .. Len(q) - n /\ n + (i - n) = i
        BY <2>2
      <3>2. PiecesOf(b)[i - n] = q[i].verb
        <4>1. PiecesOf(b)[i - n] = b[i - n].verb /\ b[i - n] = q[n + (i - n)]
          BY <1>2, <1>3, <3>1
        <4> QED
          BY <3>1, <4>1, Zenon
      <3>3. (PiecesOf(a) \o PiecesOf(b))[i] = PiecesOf(b)[i - n]
        BY <1>4, <2>2
      <3>4. PiecesOf(q)[i] = q[i].verb
        BY <1>3
      <3> QED
        BY <3>2, <3>3, <3>4, Zenon
    <2> QED
      BY <2>1, <2>2
  <1> QED
    BY <1>3, <1>4, <1>5, SeqEqual DEF a, b

LEMMA TextsAssociate ==
    ASSUME NEW a \in Seq(Texts), NEW b \in Seq(Texts), NEW c \in Seq(Texts)
    PROVE  (a \o b) \o c = a \o (b \o c)
  BY ConcatAssociative

\* The pieces of a mail, as more units are sent.
LEMMA MailGrows ==
    ASSUME NEW m \in Seq(Texts), NEW q \in Seq(Commands), NEW line \in Seq(Texts)
    PROVE  m \o PiecesOf(q \o Texted(line)) = (m \o PiecesOf(q)) \o line
  <1> DEFINE r == Texted(line)
             c == q \o r
  <1>1. r \in Seq(Commands) /\ PiecesOf(r) = line
    BY TextedType
  <1> HIDE DEF r
  <1>2. /\ c \in Seq(Commands) /\ Len(q) \in 0 .. Len(c)
        /\ SubSeq(c, 1, Len(q)) = q /\ SubSeq(c, Len(q) + 1, Len(c)) = r
    <2>1. /\ c \in Seq(Commands) /\ Len(c) = Len(q) + Len(r)
          /\ \A i \in 1 .. Len(q) + Len(r) : c[i] = IF i <= Len(q) THEN q[i] ELSE r[i - Len(q)]
      BY <1>1, ConcatProperties
    <2>2. Len(q) \in Nat /\ Len(r) \in Nat
      BY <1>1
    <2> HIDE DEF c
    <2>3. SubSeq(c, 1, Len(q)) = q
      <3>1. /\ SubSeq(c, 1, Len(q)) \in Seq(Commands) /\ Len(SubSeq(c, 1, Len(q))) = Len(q)
            /\ \A i \in 1 .. Len(q) : SubSeq(c, 1, Len(q))[i] = c[i]
        BY <2>1, <2>2
      <3> QED
        BY <2>1, <2>2, <3>1, SeqEqual
    <2>4. SubSeq(c, Len(q) + 1, Len(c)) = r
      <3>1. /\ SubSeq(c, Len(q) + 1, Len(c)) \in Seq(Commands)
            /\ Len(SubSeq(c, Len(q) + 1, Len(c))) = Len(r)
            /\ \A i \in 1 .. Len(r) : SubSeq(c, Len(q) + 1, Len(c))[i] = c[Len(q) + i]
        BY <2>1, <2>2
      <3>2. ASSUME NEW i \in 1 .. Len(r) PROVE c[Len(q) + i] = r[i]
        <4>1. /\ Len(q) + i \in 1 .. Len(q) + Len(r) /\ ~ (Len(q) + i <= Len(q))
              /\ (Len(q) + i) - Len(q) = i
          BY <2>2
        <4> QED
          BY <2>1, <4>1
      <3> QED
        BY <1>1, <3>1, <3>2, SeqEqual
    <2> QED
      BY <2>1, <2>2, <2>3, <2>4
  <1> HIDE DEF c
  <1>3. PiecesOf(c) = PiecesOf(q) \o line
    BY <1>1, <1>2, PiecesSplit
  <1>4. PiecesOf(q) \in Seq(Texts)
    BY PiecesType
  <1>5. (m \o PiecesOf(q)) \o line = m \o (PiecesOf(q) \o line)
    BY <1>4, TextsAssociate
  <1> QED
    BY <1>3, <1>5, Zenon DEF c, r

LEMMA PrefixElements ==
    ASSUME NEW a \in Seq(Texts), NEW b \in Seq(Texts)
    PROVE  IsPrefix(a, b) <=> Len(a) <= Len(b) /\ \A i \in 1 .. Len(a) : a[i] = b[i]
  <1>1. CASE Len(a) <= Len(b)
    <2>1. SubSeq(a, 1, Len(a)) \in Seq(Texts) /\ Len(SubSeq(a, 1, Len(a))) = Len(a)
          /\ \A i \in 1 .. Len(a) : SubSeq(a, 1, Len(a))[i] = a[i]
      OBVIOUS
    <2>2. SubSeq(b, 1, Len(a)) \in Seq(Texts) /\ Len(SubSeq(b, 1, Len(a))) = Len(a)
          /\ \A i \in 1 .. Len(a) : SubSeq(b, 1, Len(a))[i] = b[i]
      BY <1>1
    <2> QED
      BY <1>1, <2>1, <2>2, SeqEqual DEF IsPrefix
  <1> QED
    BY <1>1 DEF IsPrefix

\* A prefix that is put together: its first part, and where its second part is.
LEMMA PrefixOfConcat ==
    ASSUME NEW a \in Seq(Texts), NEW b \in Seq(Texts), NEW d \in Seq(Texts), IsPrefix(a \o b, d)
    PROVE  /\ IsPrefix(a, d) /\ Len(a) + Len(b) <= Len(d)
           /\ \A i \in 1 .. Len(b) : d[Len(a) + i] = b[i]
  <1> DEFINE c == a \o b
  <1>1. /\ c \in Seq(Texts) /\ Len(c) = Len(a) + Len(b)
        /\ \A i \in 1 .. Len(a) + Len(b) : c[i] = IF i <= Len(a) THEN a[i] ELSE b[i - Len(a)]
    BY ConcatProperties
  <1>2. IsPrefix(c, d)
    OBVIOUS
  <1>3. Len(a) \in Nat /\ Len(b) \in Nat /\ Len(d) \in Nat
    OBVIOUS
  <1> HIDE DEF c
  <1>4. Len(c) <= Len(d) /\ \A i \in 1 .. Len(c) : c[i] = d[i]
    BY <1>1, <1>2, PrefixElements
  <1>5. \A i \in 1 .. Len(a) : a[i] = d[i]
    BY <1>1, <1>3, <1>4
  <1>6. ASSUME NEW i \in 1 .. Len(b) PROVE d[Len(a) + i] = b[i]
    <2>1. Len(a) + i \in 1 .. Len(c) /\ ~ (Len(a) + i <= Len(a)) /\ (Len(a) + i) - Len(a) = i
      BY <1>1, <1>3
    <2> QED
      BY <1>1, <1>4, <2>1
  <1>7. Len(a) <= Len(d) /\ Len(a) + Len(b) <= Len(d)
    BY <1>1, <1>3, <1>4
  <1>8. IsPrefix(a, d)
    BY <1>5, <1>7, PrefixElements
  <1> QED
    BY <1>6, <1>7, <1>8

\* A mail that is typed on still begins as before.
LEMMA PrefixExtends ==
    ASSUME NEW a \in Seq(Texts), NEW d \in Seq(Texts), NEW e \in Seq(Texts)
    PROVE  /\ IsPrefix(a, d) => IsPrefix(a, d \o e)
           /\ IsPrefix(d, d)
  <1> DEFINE c == d \o e
  <1>1. /\ c \in Seq(Texts) /\ Len(c) = Len(d) + Len(e)
        /\ \A i \in 1 .. Len(d) + Len(e) : c[i] = IF i <= Len(d) THEN d[i] ELSE e[i - Len(d)]
    BY ConcatProperties
  <1>2. Len(a) \in Nat /\ Len(d) \in Nat /\ Len(e) \in Nat
    OBVIOUS
  <1> HIDE DEF c
  <1>3. ASSUME IsPrefix(a, d) PROVE IsPrefix(a, c)
    <2>1. Len(a) <= Len(d) /\ \A i \in 1 .. Len(a) : a[i] = d[i]
      BY <1>3, PrefixElements
    <2>2. Len(a) <= Len(c) /\ \A i \in 1 .. Len(a) : a[i] = c[i]
      BY <1>1, <1>2, <2>1
    <2> QED
      BY <1>1, <2>2, PrefixElements
  <1>4. IsPrefix(d, d)
    BY PrefixElements
  <1> QED
    BY <1>3, <1>4 DEF c

LEMMA MailInStep ==
    ASSUME DialogueInv, StepInv, NEW s \in Sessions,
           MoreOfMail(s) \/ EndOfMail(s) \/ MailTooLong(s) \/ HungUpInMail(s)
    PROVE  StepInv'
  <1> DEFINE m == thread[s].message
             q == stream[s]
             d == draft[s]
  <1>a. TypeOK /\ thread \in [Sessions -> Locals] /\ stream \in [Sessions -> Seq(Commands)]
        /\ out_of_step \in [Sessions -> BOOLEAN]
    BY DEF DialogueInv, TypeOK
  <1>b. m \in Seq(Texts) /\ q \in Seq(Commands) /\ d \in Seq(Texts)
    BY <1>a DEF TypeOK, Locals
  <1>c. At(s, "data") /\ InStep(s)
    BY DEF MoreOfMail, EndOfMail, MailTooLong, HungUpInMail, StepInv
  <1>d. UNCHANGED <<replies, cpc, draft>>
    BY DEF MoreOfMail, EndOfMail, MailTooLong, HungUpInMail, clientVars
  <1>e. ASSUME NEW x \in Sessions, x # s PROVE InStep(x)'
    <2>1. UNCHANGED <<thread[x], stream[x], out_of_step[x]>>
      BY <1>a, <1>e DEF MoreOfMail, EndOfMail, MailTooLong, HungUpInMail, Takes, Becomes, Goes, clientVars
    <2> QED
      BY <2>1, <1>d, OthersInStep DEF StepInv
  <1>1. CASE MoreOfMail(s)
    <2> DEFINE got(n) == PiecesOf(SubSeq(q, 1, n))
               rest(n) == PiecesOf(SubSeq(q, n + 1, Len(q)))
    <2>1. PICK n \in 1 .. Len(q) : Takes(s, n) /\ Becomes(s, [thread[s] EXCEPT !.message = @ \o got(n)])
      BY <1>1 DEF MoreOfMail
    <2>2. /\ thread'[s].message = m \o got(n) /\ thread'[s].place = "data"
          /\ PiecesOf(stream'[s]) = rest(n)
      BY <1>a, <1>c, <2>1 DEF Becomes, Takes, At, Locals
    <2>3. UNCHANGED out_of_step
      BY <1>1 DEF MoreOfMail, clientVars
    <2>4. got(n) \in Seq(Texts) /\ rest(n) \in Seq(Texts) /\ PiecesOf(q) = got(n) \o rest(n)
      <3>1. SubSeq(q, 1, n) \in Seq(Commands) /\ SubSeq(q, n + 1, Len(q)) \in Seq(Commands)
        BY <1>b, RestType
      <3>2. n \in 0 .. Len(q)
        OBVIOUS
      <3>3. PiecesOf(q) = got(n) \o rest(n)
        BY <1>b, <3>2, PiecesSplit
      <3> QED
        BY <3>1, <3>3, PiecesType
    <2> HIDE DEF got, rest
    <2>5. (m \o got(n)) \o rest(n) = m \o PiecesOf(q)
      <3> DEFINE g == got(n)
                 r == rest(n)
      <3>0. m \in Seq(Texts) /\ g \in Seq(Texts) /\ r \in Seq(Texts)
        BY <1>b, <2>4
      <3> HIDE DEF g, r, m
      <3>1. (m \o g) \o r = m \o (g \o r)
        BY <3>0, TextsAssociate
      <3> QED
        BY <2>4, <3>1 DEF g, r
    <2>6. ASSUME ~ out_of_step[s] PROVE InData(s)'
      <3>1. InData(s)
        BY <1>c, <2>6 DEF InStep
      <3>2. q # <<>>
        BY <1>b
      <3> QED
        BY <1>d, <2>2, <2>5, <3>1, <3>2 DEF InData
    <2>7. InStep(s)'
      BY <1>d, <2>2, <2>3, <2>6 DEF InStep, At
    <2> QED
      BY <1>e, <2>7 DEF StepInv
  <1>2. CASE EndOfMail(s) \/ MailTooLong(s) \/ HungUpInMail(s)
    <2>1. thread'[s].place = "store" /\ thread'[s].message = m /\ UNCHANGED out_of_step
      BY <1>2, <1>a DEF EndOfMail, MailTooLong, HungUpInMail, Goes, Becomes, clientVars, Locals
    <2>2. ASSUME ~ out_of_step[s] PROVE InStore(s)' /\ IsPrefix(m, d)
      <3>1. InData(s)
        BY <1>c, <2>2 DEF InStep
      <3>2. IsPrefix(m, d)
        <4>1. PiecesOf(q) \in Seq(Texts) /\ IsPrefix(m \o PiecesOf(q), d)
          BY <1>b, <3>1, PiecesType DEF InData
        <4> HIDE DEF m, q, d
        <4> QED
          BY <1>b, <4>1, PrefixOfConcat
      <3>3. q # <<>> \/ cpc[s] = "closed"
        BY <1>2, <1>b DEF EndOfMail, MailTooLong, HungUpInMail, Gone
      <3> QED
        BY <1>d, <3>1, <3>2, <3>3 DEF InStore, InData
    <2>3. InStep(s)'
      BY <1>d, <2>1, <2>2 DEF InStep, At
    <2> QED
      BY <1>e, <2>3 DEF StepInv
  <1> QED
    BY <1>1, <1>2

LEMMA StoreInStep ==
    ASSUME DialogueInv, StepInv, NEW s \in Sessions,
           store_email(s) \/ StoreRest(s) \/ Receipt(s) \/ HungUp(s)
    PROVE  StepInv'
  <1>a. TypeOK /\ thread \in [Sessions -> Locals] /\ InStep(s)
    BY DEF DialogueInv, TypeOK, StepInv
  <1>1. CASE store_email(s) \/ StoreRest(s)
    <2>1. UNCHANGED <<stream, replies, cpc, draft, out_of_step>> /\ At(s, "store")
      BY <1>1 DEF store_email, StoreRest, clientVars
    <2>2. \A x \in Sessions \ {s} : thread'[x] = thread[x]
      BY <1>1, <1>a DEF store_email, StoreRest, Goes, Becomes
    <2>3. /\ thread'[s].place \in {"store", "receipt"}
          /\ thread'[s].message = thread[s].message
      <3>1. thread[s] \in Locals /\ thread[s].place = "store"
        BY <1>a, <2>1 DEF At
      <3>2. \/ thread'[s] = [thread[s] EXCEPT !.place = "receipt"]
            \/ thread'[s] = [thread[s] EXCEPT !.halfway = TRUE]
            \/ thread'[s] = [thread[s] EXCEPT !.place = "receipt", !.halfway = FALSE]
        BY <1>1, <1>a DEF store_email, StoreRest, Goes, Becomes
      <3> QED
        BY <3>1, <3>2 DEF Locals
    <2>4. InStep(s)'
      BY <1>a, <2>1, <2>3 DEF InStep, InStore, At
    <2> QED
      BY <2>1, <2>2, <2>4, OthersInStep DEF StepInv
  <1>2. CASE Receipt(s)
    <2> DEFINE done == [thread[s] EXCEPT !.place = "command", !.state = 1, !.message = <<>>]
    <2>1. done \in Locals /\ done.place = "command"
      BY <1>a, EmptyType DEF Locals
    <2>2. Sends(s, Approval, done) /\ UNCHANGED <<stream, cpc, draft>> /\ At(s, "receipt")
      BY <1>2 DEF Receipt
    <2>3. Approval \in Answers /\ Approval # Prompt
      BY DEF Answers, Approval, Prompt
    <2>4. /\ out_of_step'[s] <=> out_of_step[s] \/ stream[s] # <<>> \/ cpc[s] = "body"
          /\ \A x \in Sessions \ {s} : out_of_step'[x] = out_of_step[x]
      BY <1>2, <1>a DEF Receipt, TypeOK
    <2> HIDE DEF done
    <2>5. CASE out_of_step'[s]
      <3>1. InStep(s)'
        BY <2>5 DEF InStep
      <3>2. ASSUME NEW x \in Sessions \ {s} PROVE InStep(x)'
        <4>1. thread'[x].place = "none" \/ UNCHANGED <<thread[x], stream[x], replies[x]>>
          <5>1. CASE thread' = [y \in Sessions |-> NoThread]
            BY <5>1 DEF NoThread
          <5>2. CASE /\ thread' = [thread EXCEPT ![s] = done]
                     /\ replies' = IF cpc[s] = "closed" THEN replies
                                   ELSE [replies EXCEPT ![s] = Append(@, Approval)]
            BY <1>a, <2>2, <5>2 DEF TypeOK
          <5> QED
            BY <2>2, <5>1, <5>2 DEF Sends, Becomes
        <4> QED
          BY <2>2, <2>4, <4>1, OthersInStep DEF StepInv
      <3> QED
        BY <3>1, <3>2 DEF StepInv
    <2>6. CASE ~ out_of_step'[s]
      <3>1. ~ out_of_step[s] /\ stream[s] = <<>> /\ cpc[s] # "body"
        BY <2>4, <2>6
      <3>2. Asked(s)
        BY <1>a, <2>2, <3>1 DEF InStep, InStore, Asked
      <3>3. UNCHANGED clientVars
        <4>1. out_of_step \in [Sessions -> BOOLEAN]
          BY <1>a DEF TypeOK
        <4>2. out_of_step' = [out_of_step EXCEPT ![s] = FALSE] /\ out_of_step[s] = FALSE
          BY <1>2, <3>1, <4>1 DEF Receipt
        <4>3. out_of_step' = out_of_step
          BY <4>1, <4>2
        <4> QED
          BY <2>2, <4>3 DEF clientVars
      <3> QED
        BY <1>a, <2>1, <2>2, <2>3, <3>2, <3>3, AnswerInStep
    <2> QED
      BY <2>5, <2>6
  <1>3. CASE HungUp(s)
    <2>1. \A x \in Sessions : UNCHANGED <<stream, replies, cpc, draft, out_of_step>>
            /\ (thread'[x].place = "none" \/ thread'[x] = thread[x])
      BY <1>3, <1>a DEF HungUp, Becomes, NoThread, clientVars
    <2> QED
      BY <2>1, OthersInStep DEF StepInv
  <1> QED
    BY <1>1, <1>2, <1>3

LEMMA AcceptInStep ==
    ASSUME DialogueInv, StepInv, NEW s \in Sessions, Accept(s)
    PROVE  StepInv'
  <1>a. TypeOK /\ thread \in [Sessions -> Locals]
    BY DEF DialogueInv, TypeOK
  <1>1. ASSUME NEW x \in Sessions, x # s PROVE InStep(x)'
    <2>1. UNCHANGED <<thread[x], stream[x], replies[x], cpc[x], draft[x], out_of_step[x]>>
      BY <1>a, <1>1 DEF Accept, Becomes, TypeOK
    <2> QED
      BY <2>1, OthersInStep DEF StepInv
  <1>2. /\ thread'[s].place = "command" /\ stream'[s] = <<>> /\ replies'[s] = <<>>
        /\ cpc'[s] = "prompt" /\ draft'[s] = <<>>
    BY <1>a, NoThreadType DEF Accept, Becomes, TypeOK, Locals
  <1>3. InStep(s)'
    BY <1>2 DEF InStep, InCommand, At
  <1> QED
    BY <1>1, <1>3 DEF StepInv

\* The next line of a mail, which the client types at the end of its draft.
LEMMA LineInStep ==
    ASSUME TypeOK, NEW s \in Sessions, InStep(s), NEW line \in Seq(Texts),
           SendsLine(s, line), UNCHANGED <<thread, replies, out_of_step>>,
           cpc'[s] \in {"body", "awaits receipt"}
    PROVE  InStep(s)'
  <1> DEFINE m == thread[s].message
             q == stream[s]
             d == draft[s]
  <1>a. m \in Seq(Texts) /\ q \in Seq(Commands) /\ d \in Seq(Texts)
    BY DEF TypeOK, Locals
  <1>b. cpc[s] = "body" /\ stream'[s] = q \o Texted(line) /\ draft'[s] = d \o line
    BY DEF SendsLine, TypeOK
  <1>c. d \o line \in Seq(Texts)
    BY <1>a, ConcatProperties
  <1>1. ASSUME ~ out_of_step[s], At(s, "data") PROVE InData(s)'
    <2>1. m \o PiecesOf(q) = d /\ replies[s] = <<>>
      BY <1>1, <1>b DEF InStep, InData
    <2>2. m \o PiecesOf(q \o Texted(line)) = d \o line /\ IsPrefix(d \o line, d \o line)
      <3>1. m \o PiecesOf(q \o Texted(line)) = (m \o PiecesOf(q)) \o line
        BY <1>a, MailGrows
      <3>2. IsPrefix(d \o line, d \o line)
        BY <1>c, PrefixExtends
      <3> QED
        BY <2>1, <3>1, <3>2
    <2> QED
      BY <1>b, <2>1, <2>2 DEF InData
  <1>2. ~ out_of_step[s] => ~ At(s, "command")
    BY <1>b DEF InStep, InCommand
  <1>3. ~ out_of_step[s] /\ (At(s, "store") \/ At(s, "receipt")) => InStore(s)'
    BY <1>b DEF InStep, InStore
  <1>4. ~ out_of_step[s] /\ At(s, "store") => IsPrefix(m, d \o line)
    BY <1>a, PrefixExtends DEF InStep
  <1> QED
    BY <1>b, <1>1, <1>2, <1>3, <1>4 DEF InStep, At

LEMMA ClientInStep ==
    ASSUME DialogueInv, StepInv, NEW s \in Sessions, Client(s)
    PROVE  StepInv'
  <1>a. /\ TypeOK /\ stream \in [Sessions -> Seq(Commands)] /\ replies \in [Sessions -> Seq(Answers)]
        /\ InStep(s)
    BY DEF DialogueInv, TypeOK, StepInv
  <1>b. UNCHANGED <<thread, out_of_step>>
    BY DEF Client, Type, TypeNothing, ReadsAnswer, ReadsPrompt, ReadsGoodbye, ReadsReceipt, ReadsReply,
           TypeLine, TypeEnd, SendsLine, HangUp, ServerGone, serverVars
  <1>c. ASSUME NEW x \in Sessions, x # s PROVE InStep(x)'
    <2>1. UNCHANGED <<stream[x], replies[x], cpc[x], draft[x]>>
      BY <1>a, <1>c DEF TypeOK, Client, Type, TypeNothing, ReadsAnswer, ReadsPrompt, ReadsGoodbye,
           ReadsReceipt, ReadsReply, TypeLine, TypeEnd, SendsLine, HangUp, ServerGone
    <2> QED
      BY <2>1, <1>b, OthersInStep DEF StepInv
  <1>d. ASSUME InStep(s)' PROVE StepInv'
    BY <1>c, <1>d DEF StepInv
  <1>1. ASSUME NEW command \in Typed, Type(s, command) PROVE InStep(s)'
    <2>1. /\ cpc[s] = "prompt" /\ stream'[s] = Append(stream[s], command)
          /\ cpc'[s] = (IF command.verb = "QUIT" THEN "awaits goodbye" ELSE "awaits")
          /\ UNCHANGED <<replies, draft>>
      BY <1>1, <1>a DEF Type, TypeOK
    <2>2. ASSUME ~ out_of_step[s] PROVE ~ At(s, "data") /\ ~ At(s, "store") /\ ~ At(s, "receipt")
      BY <1>a, <2>1, <2>2 DEF InStep, InData, InStore
    <2>3. ASSUME ~ out_of_step[s], At(s, "command") PROVE InCommand(s)'
      <3>1. stream[s] = <<>> /\ replies[s] = <<>>
        BY <1>a, <2>1, <2>3 DEF InStep, InCommand
      <3>2. stream'[s] = <<command>> /\ Len(<<command>>) = 1 /\ <<command>>[1] = command
        BY <2>1, <3>1, OneAnswer
      <3>3. Len(stream'[s]) = 1 /\ Len(stream'[s]) <= 1 /\ stream'[s][1] = command /\ replies'[s] = <<>>
        BY <2>1, <3>1, <3>2, AtMostOne, Zenon
      <3>4. CASE command.verb = "QUIT"
        BY <2>1, <3>3, <3>4, Zenon DEF InCommand
      <3>5. CASE command.verb # "QUIT"
        BY <2>1, <3>3, <3>5, Zenon DEF InCommand
      <3> QED
        BY <3>4, <3>5
    <2> QED
      BY <1>b, <2>1, <2>2, <2>3 DEF InStep, At
  <1>2. CASE TypeNothing(s)
    <2>1. cpc[s] = "prompt" /\ cpc'[s] = "awaits" /\ UNCHANGED <<stream, replies, draft>>
      BY <1>2, <1>a DEF TypeNothing, TypeOK
    <2>2. ~ out_of_step[s] => ~ At(s, "data") /\ ~ At(s, "store") /\ ~ At(s, "receipt")
      BY <1>a, <2>1 DEF InStep, InData, InStore
    <2>3. ASSUME ~ out_of_step[s], At(s, "command") PROVE InCommand(s)'
      BY <1>a, <2>1, <2>3 DEF InStep, InCommand
    <2>4. InStep(s)'
      BY <1>b, <2>1, <2>2, <2>3 DEF InStep, At
    <2> QED
      BY <1>d, <2>4
  <1>3. ASSUME NEW here, NEW next, ReadsReply(s, here, next)
        PROVE  /\ cpc[s] = here /\ cpc'[s] = next /\ draft'[s] = <<>> /\ replies[s] # <<>>
               /\ Len(replies[s]) = 1 => replies'[s] = <<>>
               /\ UNCHANGED stream
    <2>1. PICK n \in 1 .. Len(replies[s]) :
              replies' = [replies EXCEPT ![s] = SubSeq(@, n + 1, Len(@))]
      BY <1>3 DEF ReadsReply
    <2>2. replies'[s] = SubSeq(replies[s], n + 1, Len(replies[s])) /\ replies[s] \in Seq(Answers)
      BY <1>a, <2>1
    <2>3. Len(replies[s]) = 1 => replies'[s] = <<>>
      <3>1. ASSUME Len(replies[s]) = 1 PROVE n + 1 > Len(replies[s])
        BY <3>1
      <3> QED
        BY <2>2, <3>1, SubSeqEmpty
    <2>4. replies[s] # <<>>
      BY EmptyLength
    <2>5. cpc'[s] = next /\ draft'[s] = <<>>
      BY <1>3, <1>a DEF ReadsReply, TypeOK
    <2> QED
      BY <1>3, <2>3, <2>4, <2>5 DEF ReadsReply
  <1>4. CASE ReadsAnswer(s) \/ ReadsGoodbye(s) \/ ReadsReceipt(s)
    <2>1. PICK here, next :
            /\ ReadsReply(s, here, next)
            /\ \/ here = "awaits" /\ next = "prompt" /\ Head(replies[s]) # Prompt
               \/ here = "awaits goodbye" /\ next = "closed"
               \/ here = "awaits receipt" /\ next = "prompt"
      BY <1>4 DEF ReadsAnswer, ReadsGoodbye, ReadsReceipt
    <2>2. /\ cpc[s] = here /\ cpc'[s] = next /\ draft'[s] = <<>> /\ replies[s] # <<>>
          /\ Len(replies[s]) = 1 => replies'[s] = <<>>
          /\ UNCHANGED stream
      BY <1>3, <2>1
    <2>3. ASSUME ~ out_of_step[s] PROVE ~ At(s, "data") /\ ~ At(s, "store") /\ ~ At(s, "receipt")
      <3>1. Head(<<Prompt>>) = Prompt
        OBVIOUS
      <3> QED
        BY <1>a, <2>1, <2>2, <2>3, <3>1 DEF InStep, InData, InStore
    <2>4. ASSUME ~ out_of_step[s], At(s, "command") PROVE InCommand(s)'
      <3>1. cpc[s] \in {"awaits", "awaits receipt"} /\ stream[s] = <<>>
            /\ replies[s] \in {<<Approval>>, <<Refusal>>}
        BY <1>a, <2>1, <2>2, <2>4 DEF InStep, InCommand
      <3>2. replies'[s] = <<>>
        BY <2>2, <3>1
      <3> QED
        BY <2>1, <2>2, <3>1, <3>2 DEF InCommand
    <2>5. InStep(s)'
      BY <1>b, <2>2, <2>3, <2>4 DEF InStep, At
    <2> QED
      BY <1>d, <2>5
  <1>5. CASE ReadsPrompt(s)
    <2>1. /\ cpc[s] = "awaits" /\ cpc'[s] = "body" /\ draft'[s] = <<>> /\ replies[s] # <<>>
          /\ Len(replies[s]) = 1 => replies'[s] = <<>>
          /\ UNCHANGED stream /\ Head(replies[s]) = Prompt
      BY <1>3, <1>5 DEF ReadsPrompt
    <2>2. ASSUME ~ out_of_step[s] PROVE ~ At(s, "command") /\ ~ At(s, "store") /\ ~ At(s, "receipt")
      <3>1. Head(<<Approval>>) # Prompt /\ Head(<<Refusal>>) # Prompt
        BY DEF Approval, Refusal, Prompt
      <3> QED
        BY <1>a, <2>1, <2>2, <3>1 DEF InStep, InCommand, InStore
    <2>3. ASSUME ~ out_of_step[s], At(s, "data") PROVE InData(s)'
      <3>1. stream[s] = <<>> /\ replies[s] = <<Prompt>> /\ thread[s].message = <<>>
        BY <1>a, <2>1, <2>3 DEF InStep, InData
      <3>2. PiecesOf(<<>>) = <<>> /\ <<>> \o <<>> = <<>> /\ IsPrefix(<<>>, <<>>)
        BY DEF PiecesOf, IsPrefix
      <3>3. replies'[s] = <<>>
        BY <2>1, <3>1
      <3> QED
        BY <1>b, <2>1, <3>1, <3>2, <3>3 DEF InData
    <2>4. InStep(s)'
      BY <1>b, <2>1, <2>2, <2>3 DEF InStep, At
    <2> QED
      BY <1>d, <2>4
  <1>6. ASSUME NEW line \in TypedLines, TypeLine(s, line) PROVE InStep(s)'
    <2>1. Append(line, EOL) \in Seq(Texts)
      BY LinesType
    <2>2. SendsLine(s, Append(line, EOL)) /\ UNCHANGED <<replies, cpc>>
      BY <1>6 DEF TypeLine, SendsLine
    <2> QED
      BY <1>a, <1>b, <2>1, <2>2, LineInStep DEF SendsLine
  <1>7. CASE TypeEnd(s)
    <2>1. SendsLine(s, End) /\ UNCHANGED replies /\ cpc'[s] = "awaits receipt"
      BY <1>7, <1>a DEF TypeEnd, SendsLine, TypeOK
    <2>2. InStep(s)'
      BY <1>a, <1>b, <2>1, LinesType, LineInStep
    <2> QED
      BY <1>d, <2>2
  <1>8. CASE HangUp(s)
    <2>1. /\ cpc'[s] = "closed" /\ UNCHANGED draft
          /\ stream'[s] = stream[s] \/ (stream'[s] = <<>> /\ replies[s] # <<>>)
      BY <1>8, <1>a DEF HangUp, TypeOK
    <2>2. ASSUME ~ out_of_step[s], At(s, "command") PROVE InCommand(s)'
      <3>1. Len(stream'[s]) <= 1
        <4>1. InCommand(s)
          BY <1>a, <2>2 DEF InStep
        <4>2. stream'[s] = <<>> \/ Len(stream'[s]) <= 1 \/ Len(stream'[s]) = 1
          BY <2>1, <4>1, Zenon DEF InCommand
        <4> QED
          BY <4>2, AtMostOne, Zenon
      <3> QED
        BY <2>1, <3>1 DEF InCommand
    <2>3. ASSUME ~ out_of_step[s], At(s, "data") PROVE InData(s)'
      <3>1. InData(s)
        BY <1>a, <2>3 DEF InStep
      <3>2. stream'[s] = stream[s] \/ cpc[s] = "closed"
        BY <2>1, <3>1 DEF InData
      <3> QED
        BY <1>8, <1>b, <2>1, <3>1, <3>2 DEF InData, HangUp
    <2>4. ~ out_of_step[s] /\ (At(s, "store") \/ At(s, "receipt")) => InStore(s)'
      BY <1>a, <2>1 DEF InStep, InStore
    <2>5. ~ out_of_step[s] /\ At(s, "store") => IsPrefix(thread[s].message, draft[s])
      BY <1>a DEF InStep
    <2>6. InStep(s)'
      BY <1>b, <2>1, <2>2, <2>3, <2>4, <2>5 DEF InStep, At
    <2> QED
      BY <1>d, <2>6
  <1>9. CASE ServerGone(s)
    <2>1. thread[s].place = "none" /\ draft'[s] = <<>>
      BY <1>9, <1>a DEF ServerGone, At, TypeOK
    <2>2. InStep(s)'
      BY <1>b, <2>1 DEF InStep, At
    <2> QED
      BY <1>d, <2>2
  <1> QED
    BY <1>1, <1>2, <1>4, <1>5, <1>6, <1>7, <1>8, <1>9, <1>d DEF Client

-----------------------------------------------------------------------------
(* Mails in the files.                                                     *)

LEMMA ConcatElements ==
    ASSUME NEW S, NEW s \in Seq(S), NEW t \in Seq(S)
    PROVE  /\ \A p \in 1 .. Len(s) : (s \o t)[p] = s[p]
           /\ \A p \in 1 .. Len(t) : (s \o t)[Len(s) + p] = t[p]
  <1> DEFINE u == s \o t
  <1>1. /\ Len(s) \in Nat /\ Len(t) \in Nat
        /\ \A p \in 1 .. Len(s) + Len(t) : u[p] = IF p <= Len(s) THEN s[p] ELSE t[p - Len(s)]
    BY ConcatProperties
  <1> HIDE DEF u
  <1>2. \A p \in 1 .. Len(s) : p \in 1 .. Len(s) + Len(t) /\ p <= Len(s)
    BY <1>1
  <1>3. \A p \in 1 .. Len(t) : /\ Len(s) + p \in 1 .. Len(s) + Len(t)
                              /\ ~ Len(s) + p <= Len(s) /\ Len(s) + p - Len(s) = p
    BY <1>1
  <1>4. \A p \in 1 .. Len(s) : u[p] = s[p]
    BY <1>1, <1>2
  <1>5. \A p \in 1 .. Len(t) : u[Len(s) + p] = t[p]
    BY <1>1, <1>3
  <1> QED
    BY <1>4, <1>5 DEF u

\* A mail, and what comes after it in its file.
LEMMA WrittenMail ==
    ASSUME NEW lines \in Seq(Pieces), NEW tail \in Seq(Pieces)
    PROVE  LET w == Header \o lines \o tail
               m == Len(lines)
           IN  /\ m \in Nat /\ w \in Seq(Pieces) /\ Len(w) = m + 4 + Len(tail)
               /\ w[1] = "From:" /\ w[2] = EOL /\ w[3] = "Date:" /\ w[4] = EOL
               /\ \A j \in 1 .. m : w[j + 4] = lines[j]
               /\ \A j \in 1 .. Len(tail) : w[m + 4 + j] = tail[j]
  <1> DEFINE m == Len(lines)
             head == Header
             start == head \o lines
             w == start \o tail
  <1>1. /\ head \in Seq(Pieces) /\ Len(head) = 4
        /\ head[1] = "From:" /\ head[2] = EOL /\ head[3] = "Date:" /\ head[4] = EOL
    <2>1. "From:" \in Pieces /\ "Date:" \in Pieces /\ EOL \in Pieces
      BY DEF Pieces, Texts
    <2> QED
      BY <2>1 DEF Header
  <1>2. m \in Nat /\ Len(tail) \in Nat
    OBVIOUS
  <1> HIDE DEF head, m
  <1>3. start \in Seq(Pieces) /\ Len(start) = Len(head) + Len(lines)
    BY <1>1, ConcatProperties
  <1>4. /\ \A p \in 1 .. Len(head) : start[p] = head[p]
        /\ \A p \in 1 .. Len(lines) : start[Len(head) + p] = lines[p]
    <2>1. head \in Seq(Pieces) /\ lines \in Seq(Pieces)
      BY <1>1
    <2> QED
      BY <2>1, ConcatElements
  <1> HIDE DEF start
  <1>5. w \in Seq(Pieces) /\ Len(w) = Len(start) + Len(tail)
    BY <1>3, ConcatProperties
  <1>6. /\ \A p \in 1 .. Len(start) : w[p] = start[p]
        /\ \A p \in 1 .. Len(tail) : w[Len(start) + p] = tail[p]
    <2>1. start \in Seq(Pieces) /\ tail \in Seq(Pieces)
      BY <1>3
    <2> QED
      BY <2>1, ConcatElements
  <1> HIDE DEF w
  <1>7. Len(start) = m + 4 /\ Len(w) = m + 4 + Len(tail)
    BY <1>1, <1>2, <1>3, <1>5 DEF m
  <1>8. w[1] = "From:" /\ w[2] = EOL /\ w[3] = "Date:" /\ w[4] = EOL
    <2>1. /\ \A p \in {1, 2, 3, 4} : p \in 1 .. 4
          /\ \A p \in {1, 2, 3, 4} : p \in 1 .. m + 4
      BY <1>2
    <2>2. \A p \in {1, 2, 3, 4} : w[p] = head[p]
      BY <1>1, <1>4, <1>6, <1>7, <2>1
    <2> QED
      BY <1>1, <2>2
  <1>9. ASSUME NEW j \in 1 .. m PROVE w[j + 4] = lines[j]
    <2>1. 4 + j = j + 4 /\ j + 4 \in 1 .. m + 4
      BY <1>2
    <2>2. start[4 + j] = lines[j]
      BY <1>1, <1>4 DEF m
    <2> QED
      BY <1>6, <1>7, <2>1, <2>2
  <1>10. \A j \in 1 .. Len(tail) : w[m + 4 + j] = tail[j]
    BY <1>6, <1>7
  <1> QED
    BY <1>2, <1>5, <1>7, <1>8, <1>9, <1>10 DEF w, start, head, m

\* What a plain mail is in its file: its header, its lines, an empty one, and the dot.
LEMMA PlainWrite ==
    ASSUME NEW mail \in Mails, Plain(mail)
    PROVE  LET w == FirstWrite(mail)
               m == Len(mail.lines)
           IN  /\ m \in Nat /\ w \in Seq(Pieces) /\ Len(w) = m + 7
               /\ w[1] = "From:" /\ w[2] = EOL /\ w[3] = "Date:" /\ w[4] = EOL
               /\ \A j \in 1 .. m : w[j + 4] = mail.lines[j]
               /\ w[m + 5] = EOL /\ w[m + 6] = Dot /\ w[m + 7] = EOL
  <1> DEFINE lines == mail.lines
             tail == <<EOL, Dot, EOL>>
             w == Header \o lines \o tail
             m == Len(lines)
  <1>1. FirstWrite(mail) = w
    BY DEF FirstWrite, Whole, Plain
  <1>2. lines \in Seq(Pieces)
    BY DEF Mails, Pieces
  <1>3. /\ tail \in Seq(Pieces) /\ Len(tail) = 3
        /\ tail[1] = EOL /\ tail[2] = Dot /\ tail[3] = EOL
    BY DEF Pieces, Texts
  <1> HIDE DEF lines, tail
  <1>4. /\ m \in Nat /\ w \in Seq(Pieces) /\ Len(w) = m + 4 + Len(tail)
        /\ w[1] = "From:" /\ w[2] = EOL /\ w[3] = "Date:" /\ w[4] = EOL
        /\ \A j \in 1 .. m : w[j + 4] = lines[j]
        /\ \A j \in 1 .. Len(tail) : w[m + 4 + j] = tail[j]
    BY <1>2, <1>3, WrittenMail
  <1> HIDE DEF w
  <1>5. w[m + 4 + 1] = EOL /\ w[m + 4 + 2] = Dot /\ w[m + 4 + 3] = EOL
    <2>1. 1 \in 1 .. 3 /\ 2 \in 1 .. 3 /\ 3 \in 1 .. 3
      OBVIOUS
    <2> QED
      BY <1>3, <1>4, <2>1
  <1>6. m + 4 + 1 = m + 5 /\ m + 4 + 2 = m + 6 /\ m + 4 + 3 = m + 7
    BY <1>4
  <1> QED
    BY <1>1, <1>3, <1>4, <1>5, <1>6 DEF lines

\* A file of plain mails, and where they begin.
PlainFile(file, mails, start) ==
    /\ file \in Seq(Pieces) /\ mails \in Seq(Mails)
    /\ \A i \in DOMAIN mails : Plain(mails[i])
    /\ start \in [1 .. Len(mails) + 1 -> Headers(file) \cup {Len(file) + 1}]
    /\ Laid(file, mails, start)

LEMMA PlainTypes ==
    ASSUME NEW file, NEW mails, NEW start, PlainFile(file, mails, start)
    PROVE  /\ Len(file) \in Nat /\ DOMAIN file = 1 .. Len(file)
           /\ Len(mails) \in Nat /\ DOMAIN mails = 1 .. Len(mails)
           /\ DOMAIN start = 1 .. Len(mails) + 1
           /\ \A i \in 1 .. Len(mails) + 1 : start[i] \in 1 .. Len(file) + 1
           /\ \A i \in 1 .. Len(mails) : mails[i] \in Mails /\ Plain(mails[i]) /\ start[i] \in 1 .. Len(file)
  <1>1. /\ file \in Seq(Pieces) /\ mails \in Seq(Mails)
        /\ start \in [1 .. Len(mails) + 1 -> Headers(file) \cup {Len(file) + 1}]
    BY DEF PlainFile
  <1>2. /\ Len(file) \in Nat /\ DOMAIN file = 1 .. Len(file)
        /\ Len(mails) \in Nat /\ DOMAIN mails = 1 .. Len(mails)
        /\ DOMAIN start = 1 .. Len(mails) + 1
    BY <1>1
  <1>3. Headers(file) \subseteq 1 .. Len(file)
    BY <1>2 DEF Headers, LinesWith
  <1>4. ASSUME NEW i \in 1 .. Len(mails) + 1 PROVE start[i] \in 1 .. Len(file) + 1
    <2>1. start[i] \in Headers(file) \/ start[i] = Len(file) + 1
      BY <1>1
    <2> QED
      BY <1>2, <1>3, <2>1
  <1>5. ASSUME NEW i \in 1 .. Len(mails) PROVE start[i] \in 1 .. Len(file)
    <2>1. i \in DOMAIN start /\ Len(mails) + 1 \in DOMAIN start /\ i < Len(mails) + 1
      BY <1>2
    <2>2. start[i] + 2 < start[Len(mails) + 1] /\ start[Len(mails) + 1] = Len(file) + 1
      BY <2>1 DEF PlainFile, Laid
    <2>3. start[i] \in 1 .. Len(file) + 1
      BY <1>2, <1>4, <2>1
    <2> QED
      BY <1>2, <2>2, <2>3
  <1>6. \A i \in 1 .. Len(mails) : mails[i] \in Mails /\ Plain(mails[i])
    BY <1>1, <1>2 DEF PlainFile
  <1> QED
    BY <1>2, <1>4, <1>5, <1>6

\* The pieces of one mail of such a file.
LEMMA PlainPieces ==
    ASSUME NEW file, NEW mails, NEW start, PlainFile(file, mails, start), NEW i \in 1 .. Len(mails)
    PROVE  LET k == start[i]
               m == Len(mails[i].lines)
           IN  /\ start[i + 1] = k + m + 7 /\ m \in Nat
               /\ k \in 1 .. Len(file) /\ start[i + 1] \in 1 .. Len(file) + 1
               /\ file[k] = "From:" /\ file[k + 1] = EOL
               /\ file[k + 2] = "Date:" /\ file[k + 3] = EOL
               /\ \A j \in 1 .. m : file[k + 3 + j] = mails[i].lines[j]
               /\ file[k + m + 4] = EOL /\ file[k + m + 5] = Dot /\ file[k + m + 6] = EOL
  <1> DEFINE mail == mails[i]
             w == FirstWrite(mail)
             k == start[i]
             m == Len(mail.lines)
  <1>a. /\ i \in DOMAIN mails /\ i \in 1 .. Len(mails) + 1 /\ i + 1 \in 1 .. Len(mails) + 1
    BY PlainTypes
  <1>1. mail \in Mails /\ Plain(mail)
    BY PlainTypes
  <1>2. k \in 1 .. Len(file) /\ start[i + 1] \in 1 .. Len(file) + 1 /\ k \in Nat
    BY <1>a, PlainTypes
  <1>3. /\ m \in Nat /\ w \in Seq(Pieces) /\ Len(w) = m + 7
        /\ w[1] = "From:" /\ w[2] = EOL /\ w[3] = "Date:" /\ w[4] = EOL
        /\ \A j \in 1 .. m : w[j + 4] = mail.lines[j]
        /\ w[m + 5] = EOL /\ w[m + 6] = Dot /\ w[m + 7] = EOL
    BY <1>1, PlainWrite
  <1>4. start[i + 1] = k + Len(w) /\ \A p \in DOMAIN w : file[k + p - 1] = w[p]
    BY <1>a DEF PlainFile, Laid
  <1> HIDE DEF k, m, w, mail
  <1>5. \A p \in 1 .. m + 7 : file[k + p - 1] = w[p]
    <2>1. DOMAIN w = 1 .. m + 7
      BY <1>3
    <2> QED
      BY <1>4, <2>1
  <1>6. start[i + 1] = k + m + 7
    BY <1>2, <1>3, <1>4
  <1>7. ASSUME NEW p \in 0 .. m + 6 PROVE file[k + p] = w[p + 1]
    <2>1. p + 1 \in 1 .. m + 7 /\ k + (p + 1) - 1 = k + p
      BY <1>2, <1>3
    <2> QED
      BY <1>5, <2>1
  <1>8. file[k] = "From:" /\ file[k + 1] = EOL /\ file[k + 2] = "Date:" /\ file[k + 3] = EOL
    <2>1. /\ 0 \in 0 .. m + 6 /\ 1 \in 0 .. m + 6 /\ 2 \in 0 .. m + 6 /\ 3 \in 0 .. m + 6
          /\ k + 0 = k
      BY <1>2, <1>3
    <2>2. file[k + 0] = w[0 + 1] /\ file[k + 1] = w[1 + 1] /\ file[k + 2] = w[2 + 1] /\ file[k + 3] = w[3 + 1]
      BY <1>7, <2>1
    <2> QED
      BY <1>3, <2>1, <2>2
  <1>9. file[k + m + 4] = EOL /\ file[k + m + 5] = Dot /\ file[k + m + 6] = EOL
    <2>a. k \in Nat /\ m \in Nat
      BY <1>2, <1>3
    <2>b. m + 4 \in 0 .. m + 6 /\ m + 5 \in 0 .. m + 6 /\ m + 6 \in 0 .. m + 6
      BY <2>a
    <2>c. k + (m + 4) = k + m + 4 /\ k + (m + 5) = k + m + 5 /\ k + (m + 6) = k + m + 6
      BY <2>a
    <2>d. m + 4 + 1 = m + 5 /\ m + 5 + 1 = m + 6 /\ m + 6 + 1 = m + 7
      BY <2>a
    <2>2. /\ file[k + (m + 4)] = w[m + 4 + 1] /\ file[k + (m + 5)] = w[m + 5 + 1]
          /\ file[k + (m + 6)] = w[m + 6 + 1]
      BY <1>7, <2>b
    <2> QED
      BY <1>3, <2>c, <2>d, <2>2
  <1>10. ASSUME NEW j \in 1 .. m PROVE file[k + 3 + j] = mail.lines[j]
    <2>1. 3 + j \in 0 .. m + 6 /\ k + (3 + j) = k + 3 + j /\ 3 + j + 1 = j + 4
      BY <1>2, <1>3
    <2>2. file[k + (3 + j)] = w[3 + j + 1]
      BY <1>7, <2>1
    <2> QED
      BY <1>3, <2>1, <2>2
  <1> QED
    BY <1>2, <1>3, <1>6, <1>8, <1>9, <1>10 DEF k, m, mail

\* Of a mail, only its first line looks like a header, and only its last like the end.
LEMMA PlainPosition ==
    ASSUME NEW file, NEW mails, NEW start, PlainFile(file, mails, start),
           NEW i \in 1 .. Len(mails), NEW p \in LinesWith(file, {"From:", Dot}),
           start[i] <= p, p < start[i + 1]
    PROVE  p = start[i] \/ p = start[i + 1] - 2
  <1> DEFINE k == start[i]
             lines == mails[i].lines
             m == Len(lines)
  <1>1. /\ start[i + 1] = k + m + 7 /\ m \in Nat
        /\ file[k + 1] = EOL /\ file[k + 2] = "Date:" /\ file[k + 3] = EOL
        /\ \A j \in 1 .. m : file[k + 3 + j] = lines[j]
        /\ file[k + m + 4] = EOL /\ file[k + m + 6] = EOL
    BY PlainPieces
  <1>2. p \in Nat /\ k \in Nat /\ BeginsLine(file, p) /\ file[p] \in {"From:", Dot}
    BY PlainTypes DEF LinesWith
  <1>3. lines \in Seq(Texts) /\ LinesWith(lines, {"From:", Dot}) = {}
    BY PlainTypes DEF Mails, Plain
  <1>4. DOMAIN lines = 1 .. m
    BY <1>3
  <1>5. k <= p /\ p < start[i + 1]
    OBVIOUS
  <1> HIDE DEF k, lines, m
  <1>6. \/ p = k \/ p = k + 1 \/ p = k + 2 \/ p = k + 3 \/ p = k + m + 4 \/ p = k + m + 6
        \/ p = k + m + 5 \/ (p - k - 3 \in 1 .. m /\ k + 3 + (p - k - 3) = p)
    BY <1>1, <1>2, <1>5
  <1>7. p # k + 1 /\ p # k + 2 /\ p # k + 3 /\ p # k + m + 4 /\ p # k + m + 6
    BY <1>1, <1>2 DEF Dot, EOL
  <1>8. ASSUME NEW j \in 1 .. m, p = k + 3 + j PROVE FALSE
    <2>1. lines[j] \in {"From:", Dot}
      BY <1>1, <1>2, <1>8
    <2>2. j # 1 /\ lines[j - 1] # EOL
      BY <1>3, <1>4, <2>1 DEF LinesWith, BeginsLine
    <2>3. j - 1 \in 1 .. m /\ k + 3 + (j - 1) = p - 1
      BY <1>1, <1>2, <1>8, <2>2
    <2>4. file[p - 1] # EOL /\ p # 1
      <3>1. file[p - 1] = lines[j - 1]
        BY <1>1, <2>3
      <3> QED
        BY <1>2, <1>8, <2>2, <3>1
    <2> QED
      BY <1>2, <2>4 DEF BeginsLine
  <1>9. p = k \/ p = k + m + 5
    BY <1>6, <1>7, <1>8
  <1>10. start[i + 1] - 2 = k + m + 5
    BY <1>1, <1>2
  <1> QED
    BY <1>9, <1>10 DEF k

\* The headers of such a file are where its mails begin, and none follows another.
LEMMA PlainHeaders ==
    ASSUME NEW file, NEW mails, NEW start, PlainFile(file, mails, start)
    PROVE  /\ Headers(file) = {start[i] : i \in 1 .. Len(mails)}
           /\ \A j, k \in Headers(file) : ~ PrecedesLine(file, j, k)
  <1>a. /\ Len(file) \in Nat /\ DOMAIN file = 1 .. Len(file)
        /\ Len(mails) \in Nat /\ DOMAIN mails = 1 .. Len(mails)
        /\ DOMAIN start = 1 .. Len(mails) + 1
    BY PlainTypes
  <1>1. ASSUME NEW p \in Headers(file) PROVE \E i \in 1 .. Len(mails) : p = start[i]
    <2>1. p \in 1 .. Len(file) /\ BeginsLine(file, p) /\ file[p] = "From:"
      BY <1>1, <1>a DEF Headers, LinesWith
    <2>2. p \in LinesWith(file, {"From:", Dot})
      BY <2>1, <1>a DEF LinesWith
    <2>3. PICK i \in 1 .. Len(mails) : start[i] <= p /\ p < start[i + 1]
      <3>1. \E i \in DOMAIN mails : start[i] <= p /\ p < start[i + 1]
        BY <1>a, <2>1, Zenon DEF PlainFile, Laid
      <3> QED
        BY <1>a, <3>1, Zenon
    <2>4. start[i + 1] - 2 # p
      <3> DEFINE a == start[i]
                 m == Len(mails[i].lines)
      <3>1. start[i + 1] = a + m + 7 /\ m \in Nat /\ a \in Nat /\ file[a + m + 5] = Dot
        BY PlainPieces, PlainTypes
      <3> HIDE DEF a, m
      <3>2. start[i + 1] - 2 = a + m + 5
        BY <3>1
      <3> QED
        BY <2>1, <3>1, <3>2 DEF Dot
    <2>5. p = start[i] \/ p = start[i + 1] - 2
      BY <2>2, <2>3, PlainPosition
    <2> QED
      BY <2>4, <2>5
  <1>2. ASSUME NEW i \in 1 .. Len(mails) PROVE start[i] \in Headers(file)
    <2>1. start[i] \in Headers(file) \cup {Len(file) + 1}
      BY <1>a DEF PlainFile
    <2>2. start[i] \in 1 .. Len(file)
      BY PlainTypes
    <2>3. start[i] # Len(file) + 1
      BY <1>a, <2>2
    <2> QED
      BY <2>1, <2>3
  <1>3. ASSUME NEW j \in Headers(file), NEW k \in Headers(file), PrecedesLine(file, j, k) PROVE FALSE
    <2>1. PICK a \in 1 .. Len(mails), b \in 1 .. Len(mails) : j = start[a] /\ k = start[b]
      BY <1>1
    <2>2. j \in Nat /\ k \in Nat /\ j < k /\ a \in DOMAIN start /\ b \in DOMAIN start
      BY <1>3, <1>a, <2>1, PlainTypes DEF PrecedesLine
    <2>3. j + 2 < k
      <3>1. a < b => start[a] + 2 < start[b]
        BY <2>2 DEF PlainFile, Laid
      <3>2. b < a => start[b] + 2 < start[a]
        BY <2>2 DEF PlainFile, Laid
      <3>3. a # b
        BY <2>1, <2>2
      <3> QED
        BY <2>1, <2>2, <3>1, <3>2, <3>3
    <2>4. BeginsLine(file, j + 2)
      <3>1. file[start[a] + 1] = EOL
        BY PlainPieces
      <3>2. (j + 2) - 1 = j + 1
        BY <2>2
      <3>3. file[(j + 2) - 1] = EOL
        BY <2>1, <3>1, <3>2
      <3> QED
        BY <3>3 DEF BeginsLine
    <2>5. j + 2 \in (j + 1) .. (k - 1)
      BY <2>2, <2>3
    <2> QED
      BY <1>3, <2>4, <2>5 DEF PrecedesLine
  <1>4. Headers(file) = {start[i] : i \in 1 .. Len(mails)}
    BY <1>1, <1>2
  <1> QED
    BY <1>3, <1>4

\* LIST takes no header for the date of the one before, as none follows another.
LEMMA PlainListed ==
    ASSUME NEW file, NEW mails, NEW start, PlainFile(file, mails, start)
    PROVE  Listed(file) = Headers(file)
  <1> DEFINE H == Headers(file)
             S == DOMAIN file
             Follows(k, f) == \A j \in Before(S, k) : PrecedesLine(file, j, k) => ~ f[j]
             Lists(f) == f = [k \in S |-> k \in H /\ Follows(k, f)]
             g == [k \in S |-> k \in H]
             lists == CHOOSE f : Lists(f)
  <1>a. H \subseteq S
    BY DEF Headers, LinesWith
  <1>b. \A k \in H : \A j \in S : PrecedesLine(file, j, k) => j \notin H
    BY PlainHeaders
  <1>c. \A k : Before(S, k) \subseteq S
    BY DEF Before
  <1> HIDE DEF H, S
  <1>1. Lists(g)
    <2>1. ASSUME NEW k \in S PROVE (k \in H) = (k \in H /\ Follows(k, g))
      <3>1. k \in H => Follows(k, g)
        <4> SUFFICES ASSUME k \in H, NEW j \in Before(S, k), PrecedesLine(file, j, k)
                     PROVE  ~ g[j]
          OBVIOUS
        <4>1. j \in S /\ j \notin H
          BY <1>b, <1>c
        <4> QED
          BY <4>1, Zenon
      <3> HIDE DEF Follows
      <3> QED
        BY <3>1
    <2>2. [k \in S |-> k \in H] = [k \in S |-> k \in H /\ Follows(k, g)]
      BY <2>1, Zenon
    <2> QED
      BY <2>2
  <1>2. Lists(lists)
    <2> HIDE DEF Lists, g
    <2> QED
      BY <1>1
  <1> HIDE DEF lists
  <1>3. \A k \in S : lists[k] = (k \in H /\ Follows(k, lists))
    <2> HIDE DEF Follows
    <2> QED
      BY <1>2
  <1> HIDE DEF Lists, g
  <1>4. ASSUME NEW k \in S PROVE lists[k] = (k \in H)
    <2>1. CASE k \in H
      <3>1. Follows(k, lists)
        <4> SUFFICES ASSUME NEW j \in Before(S, k), PrecedesLine(file, j, k) PROVE ~ lists[j]
          OBVIOUS
        <4>1. j \in S /\ j \notin H
          BY <1>b, <1>c, <2>1
        <4> HIDE DEF Follows
        <4>2. lists[j] = FALSE
          BY <1>3, <4>1
        <4> QED
          BY <4>2
      <3> HIDE DEF Follows
      <3> QED
        BY <1>3, <2>1, <3>1
    <2>2. CASE k \notin H
      <3> HIDE DEF Follows
      <3> QED
        BY <1>3, <2>2
    <2> QED
      BY <2>1, <2>2
  <1>5. Listed(file) = {k \in DOMAIN file : lists[k]}
    BY DEF Listed, lists, Lists, Follows, H, S
  <1>6. \A k \in DOMAIN file : k \in S
    BY DEF S
  <1>7. \A k \in H : k \in DOMAIN file
    BY <1>a DEF S
  <1> QED
    BY <1>4, <1>5, <1>6, <1>7 DEF H

Starts(start, n) == {start[i] : i \in 1 .. n}

LEMMA Numbered ==
    ASSUME NEW n \in Nat, NEW start, NEW H, H = Starts(start, n),
           \A i \in 1 .. n : start[i] \in Nat,
           \A i, j \in 1 .. n : i < j => start[i] < start[j]
    PROVE  /\ Cardinality(H) = n
           /\ \A i \in 1 .. n : Cardinality(Before(H, start[i])) = i - 1
  <1>1. ASSUME NEW i \in 1 .. n, NEW j \in 1 .. n, start[i] = start[j] PROVE i = j
    <2>1. ~ i < j /\ ~ j < i
      BY <1>1
    <2> QED
      BY <2>1
  <1>2. ASSUME NEW m \in 0 .. n, NEW K, K = Starts(start, m) PROVE Cardinality(K) = m
    <2> DEFINE f == [i \in 1 .. m |-> start[i]]
    <2>1. \A i \in 1 .. m : i \in 1 .. n
      OBVIOUS
    <2>2. f \in [1 .. m -> K] /\ \A k \in K : \E i \in 1 .. m : f[i] = k
      BY <1>2 DEF Starts
    <2>3. \A i, j \in 1 .. m : f[i] = f[j] => i = j
      BY <1>1, <2>1
    <2> HIDE DEF f
    <2>4. f \in Bijection(1 .. m, K)
      BY <2>2, <2>3 DEF Bijection, Injection, Surjection, IsInjective
    <2>5. ExistsBijection(1 .. m, K)
      BY <2>4 DEF ExistsBijection
    <2> QED
      BY <2>5, FS_CountingElements
  <1>3. ASSUME NEW i \in 1 .. n PROVE Cardinality(Before(H, start[i])) = i - 1
    <2>1. ASSUME NEW j \in 1 .. n PROVE start[j] < start[i] <=> j \in 1 .. i - 1
      <3>1. start[i] \in Nat /\ start[j] \in Nat
        OBVIOUS
      <3>2. j < i => start[j] < start[i]
        OBVIOUS
      <3>3. i < j => start[i] < start[j]
        OBVIOUS
      <3>4. i = j => start[i] = start[j]
        OBVIOUS
      <3> QED
        BY <3>1, <3>2, <3>3, <3>4
    <2>2. \A j \in 1 .. i - 1 : j \in 1 .. n
      OBVIOUS
    <2>3. Before(H, start[i]) = Starts(start, i - 1)
      BY <2>1, <2>2 DEF Before, Starts
    <2>4. i - 1 \in 0 .. n
      OBVIOUS
    <2> QED
      BY <1>2, <2>3, <2>4
  <1>4. Cardinality(H) = n
    <2>1. n \in 0 .. n
      OBVIOUS
    <2> QED
      BY <1>2, <2>1
  <1> QED
    BY <1>3, <1>4

\* The mails of such a file are numbered as they were stored.
LEMMA PlainNumbers ==
    ASSUME NEW file, NEW mails, NEW start, PlainFile(file, mails, start)
    PROVE  /\ Cardinality(Headers(file)) = Len(mails)
           /\ \A i \in 1 .. Len(mails) :
                {k \in Headers(file) : Cardinality(Before(Headers(file), k)) = i - 1} = {start[i]}
  <1> DEFINE H == Headers(file)
             n == Len(mails)
  <1>1. n \in Nat /\ \A i \in 1 .. n : start[i] \in Nat
    BY PlainTypes
  <1>2. \A i, j \in 1 .. n : i < j => start[i] < start[j]
    <2> SUFFICES ASSUME NEW i \in 1 .. n, NEW j \in 1 .. n, i < j PROVE start[i] < start[j]
      OBVIOUS
    <2>1. i \in DOMAIN start /\ j \in DOMAIN start /\ start[i] \in Nat /\ start[j] \in Nat
      BY PlainTypes
    <2>2. start[i] + 2 < start[j]
      BY <2>1 DEF PlainFile, Laid
    <2> QED
      BY <2>1, <2>2
  <1>3. H = Starts(start, n)
    BY PlainHeaders DEF Starts
  <1> HIDE DEF H, n
  <1>4. Cardinality(H) = n /\ \A i \in 1 .. n : Cardinality(Before(H, start[i])) = i - 1
    <2>1. \A i \in 1 .. n : start[i] \in Nat
      BY <1>1
    <2> QED
      BY <1>1, <1>2, <1>3, <2>1, Numbered
  <1>5. ASSUME NEW i \in 1 .. n PROVE {k \in H : Cardinality(Before(H, k)) = i - 1} = {start[i]}
    <2>1. ASSUME NEW k \in H, Cardinality(Before(H, k)) = i - 1 PROVE k = start[i]
      <3>1. PICK j \in 1 .. n : k = start[j]
        BY <1>3 DEF Starts
      <3>2. j - 1 = i - 1
        BY <1>4, <2>1, <3>1
      <3>3. j = i
        BY <1>1, <3>2
      <3> QED
        BY <3>1, <3>3
    <2>2. start[i] \in H /\ Cardinality(Before(H, start[i])) = i - 1
      BY <1>3, <1>4 DEF Starts
    <2> QED
      BY <2>1, <2>2
  <1> QED
    BY <1>4, <1>5 DEF H, n

\* GET_MAIL ends a mail at its own dot.
LEMMA PlainMailAt ==
    ASSUME NEW file, NEW mails, NEW start, PlainFile(file, mails, start), NEW i \in 1 .. Len(mails)
    PROVE  MailAt(file, start[i]) = Header \o mails[i].lines \o <<EOL>>
  <1> DEFINE k == start[i]
             lines == mails[i].lines
             m == Len(lines)
             e == start[i + 1] - 2
             ends == {j \in LinesWith(file, {Dot}) : j > k}
  <1>1. /\ start[i + 1] = k + m + 7 /\ m \in Nat
        /\ k \in 1 .. Len(file) /\ start[i + 1] \in 1 .. Len(file) + 1
        /\ file[k] = "From:" /\ file[k + 1] = EOL /\ file[k + 2] = "Date:" /\ file[k + 3] = EOL
        /\ \A j \in 1 .. m : file[k + 3 + j] = lines[j]
        /\ file[k + m + 4] = EOL /\ file[k + m + 5] = Dot
    BY PlainPieces
  <1>2. /\ Len(file) \in Nat /\ k \in Nat /\ file \in Seq(Pieces) /\ DOMAIN file = 1 .. Len(file)
        /\ lines \in Seq(Pieces)
    <2>1. mails[i] \in Mails /\ Len(file) \in Nat /\ DOMAIN file = 1 .. Len(file)
      BY PlainTypes
    <2>2. file \in Seq(Pieces)
      BY DEF PlainFile
    <2>3. k \in Nat
      BY <1>1, <2>1
    <2>4. lines \in Seq(Pieces)
      BY <2>1 DEF Mails, Pieces
    <2> QED
      BY <2>1, <2>2, <2>3, <2>4
  <1>3. \A p \in LinesWith(file, {Dot}) : k <= p /\ p < start[i + 1] => p = k \/ p = e
    <2>1. LinesWith(file, {Dot}) \subseteq LinesWith(file, {"From:", Dot})
      BY DEF LinesWith
    <2> QED
      BY <2>1, PlainPosition
  <1>b. LinesWith(file, {Dot}) \subseteq 1 .. Len(file)
    BY <1>2 DEF LinesWith
  <1> HIDE DEF k, lines, m
  <1>4. e = k + m + 5 /\ e \in 1 .. Len(file) /\ e < start[i + 1] /\ e - 1 = k + m + 4
    BY <1>1, <1>2
  <1> HIDE DEF e
  <1>5. e \in ends
    <2>1. e > k
      BY <1>1, <1>2, <1>4
    <2>2. BeginsLine(file, e)
      BY <1>1, <1>4 DEF BeginsLine
    <2>3. e \in LinesWith(file, {Dot})
      BY <1>1, <1>2, <1>4, <2>2 DEF LinesWith
    <2> QED
      BY <2>1, <2>3
  <1>6. ASSUME NEW p \in ends PROVE p \in Nat /\ p >= e
    <2>1. p \in LinesWith(file, {Dot}) /\ p > k
      OBVIOUS
    <2>2. p \in Nat
      <3>1. p \in 1 .. Len(file)
        BY <1>b, <2>1
      <3> QED
        BY <1>2, <3>1
    <2>3. ASSUME p < e PROVE FALSE
      <3>1. k <= p /\ p < start[i + 1]
        BY <1>1, <1>2, <1>4, <2>1, <2>2, <2>3
      <3>2. p = k \/ p = e
        BY <1>3, <2>1, <3>1
      <3> QED
        BY <1>2, <1>4, <2>1, <2>2, <2>3, <3>2
    <2> QED
      BY <1>4, <2>2, <2>3
  <1> HIDE DEF ends
  <1>7. Before(ends, e) = {}
    BY <1>4, <1>6 DEF Before
  <1>8. ASSUME NEW x \in ends, Before(ends, x) = {} PROVE x = e
    <2>1. ~ e < x
      BY <1>5, <1>8 DEF Before
    <2> QED
      BY <1>4, <1>6, <2>1
  <1>9. (CHOOSE x \in ends : Before(ends, x) = {}) = e
    BY <1>5, <1>7, <1>8
  <1>10. ends # {}
    BY <1>5
  <1>11. MailAt(file, start[i]) = SubSeq(file, k, e - 1)
    BY <1>9, <1>10 DEF MailAt, ends, k
  <1>12. SubSeq(file, k, e - 1) = Header \o lines \o <<EOL>>
    <2> DEFINE a == SubSeq(file, k, e - 1)
               tail == <<EOL>>
               b == Header \o lines \o tail
    <2>1. tail \in Seq(Pieces) /\ Len(tail) = 1 /\ tail[1] = EOL
      BY DEF Pieces, Texts
    <2>a. lines \in Seq(Pieces) /\ tail \in Seq(Pieces)
      BY <1>2, <2>1
    <2> HIDE DEF tail
    <2>2. /\ b \in Seq(Pieces) /\ Len(b) = m + 4 + Len(tail)
          /\ b[1] = "From:" /\ b[2] = EOL /\ b[3] = "Date:" /\ b[4] = EOL
          /\ \A j \in 1 .. m : b[j + 4] = lines[j]
          /\ \A j \in 1 .. Len(tail) : b[m + 4 + j] = tail[j]
      BY <2>a, WrittenMail DEF m
    <2>3. /\ a \in Seq(Pieces) /\ Len(a) = m + 5 /\ \A j \in 1 .. m + 5 : a[j] = file[k + j - 1]
      <3>1. \A j \in k .. e - 1 : file[j] \in Pieces
        <4>1. \A j \in k .. e - 1 : j \in 1 .. Len(file)
          BY <1>1, <1>2, <1>4
        <4>2. \A j \in 1 .. Len(file) : file[j] \in Pieces
          BY <1>2
        <4> QED
          BY <4>1, <4>2
      <3>2. k \in Int /\ e - 1 \in Int /\ k <= e - 1 /\ (e - 1) - k + 1 = m + 5
        BY <1>1, <1>2, <1>4
      <3>3. /\ a \in Seq(Pieces) /\ Len(a) = (IF k <= e - 1 THEN (e - 1) - k + 1 ELSE 0)
            /\ \A j \in 1 .. (e - 1) - k + 1 : a[j] = file[k + j - 1]
        BY <3>1, <3>2, SubSeqProperties
      <3> QED
        BY <3>2, <3>3
    <2> HIDE DEF a, b
    <2>4. ASSUME NEW j \in 1 .. m + 5 PROVE a[j] = b[j]
      <3>1. a[j] = file[k + j - 1]
        BY <2>3
      <3>2. CASE j \in {1, 2, 3, 4}
        <4>1. k + 1 - 1 = k /\ k + 2 - 1 = k + 1 /\ k + 3 - 1 = k + 2 /\ k + 4 - 1 = k + 3
          BY <1>2
        <4>2. j = 1 \/ j = 2 \/ j = 3 \/ j = 4
          BY <3>2
        <4>3. /\ file[k + 1 - 1] = b[1] /\ file[k + 2 - 1] = b[2]
              /\ file[k + 3 - 1] = b[3] /\ file[k + 4 - 1] = b[4]
          BY <1>1, <2>2, <4>1
        <4> QED
          BY <3>1, <4>2, <4>3
      <3>3. CASE j - 4 \in 1 .. m
        <4>1. k + j - 1 = k + 3 + (j - 4) /\ j - 4 + 4 = j
          BY <1>1, <1>2
        <4>2. b[j - 4 + 4] = lines[j - 4]
          BY <2>2, <3>3
        <4>3. file[k + 3 + (j - 4)] = lines[j - 4]
          BY <1>1, <3>3
        <4> QED
          BY <3>1, <4>1, <4>2, <4>3
      <3>4. CASE j = m + 4 + 1
        <4>1. k + j - 1 = k + m + 4 /\ 1 \in 1 .. Len(tail)
          BY <1>1, <1>2, <2>1, <3>4
        <4>2. b[m + 4 + 1] = tail[1]
          BY <2>2, <4>1
        <4> QED
          BY <1>1, <2>1, <3>1, <3>4, <4>1, <4>2
      <3>5. j \in {1, 2, 3, 4} \/ j - 4 \in 1 .. m \/ j = m + 4 + 1
        BY <1>1
      <3> QED
        BY <3>2, <3>3, <3>4, <3>5
    <2>5. Len(b) = m + 5
      <3>1. m \in Nat
        BY <1>1
      <3>2. Len(b) = m + 4 + Len(tail) /\ Len(tail) = 1
        BY <2>1, <2>2
      <3> QED
        BY <3>1, <3>2
    <2>6. a = b
      <3>1. a \in Seq(Pieces) /\ b \in Seq(Pieces)
        BY <2>2, <2>3
      <3>2. Len(a) = Len(b) /\ \A j \in 1 .. Len(a) : a[j] = b[j]
        BY <2>3, <2>4, <2>5
      <3> QED
        BY <3>1, <3>2, SeqEqual
    <2> QED
      BY <2>6 DEF a, b, tail
  <1> QED
    BY <1>11, <1>12 DEF lines

LEMMA PlainFetched ==
    ASSUME NEW file, NEW mails, NEW start, PlainFile(file, mails, start)
    PROVE  /\ Len(list_emails(file)) = Len(mails)
           /\ \A i \in DOMAIN mails :
                /\ get_email(file, i) = Header \o mails[i].lines \o <<EOL>>
                /\ list_emails(file)[i] \in Headers(file)
  <1> DEFINE H == Headers(file)
             n == Len(mails)
             found(i) == {k \in H : Cardinality(Before(H, k)) = i - 1}
             list == [id \in 1 .. n |-> CHOOSE k \in H : Cardinality(Before(H, k)) = id - 1]
  <1>1. n \in Nat /\ DOMAIN mails = 1 .. n
    BY PlainTypes
  <1>2. Listed(file) = H /\ Cardinality(H) = n
    BY PlainListed, PlainNumbers
  <1>3. \A i \in 1 .. n : found(i) = {start[i]}
    BY PlainNumbers
  <1>4. list_emails(file) = list
    BY <1>2 DEF list_emails
  <1>5. Len(list) = n
    BY <1>1
  <1>6. ASSUME NEW i \in 1 .. n PROVE list[i] \in H
    <2>1. \E k \in H : Cardinality(Before(H, k)) = i - 1
      BY <1>3
    <2>2. (CHOOSE k \in H : Cardinality(Before(H, k)) = i - 1) \in H
      BY <2>1
    <2> QED
      BY <2>2
  <1>7. ASSUME NEW i \in 1 .. n PROVE get_email(file, i) = Header \o mails[i].lines \o <<EOL>>
    <2>1. found(i) # {} /\ (CHOOSE k \in found(i) : TRUE) = start[i]
      <3>1. \A x : {x} # {} /\ (CHOOSE k \in {x} : TRUE) = x
        OBVIOUS
      <3> HIDE DEF found
      <3> QED
        BY <1>3, <3>1
    <2>2. get_email(file, i) = MailAt(file, start[i])
      BY <2>1 DEF get_email
    <2> QED
      BY <2>2, PlainMailAt
  <1> QED
    BY <1>1, <1>4, <1>5, <1>6, <1>7

-----------------------------------------------------------------------------

LEMMA EmptyLaid ==
    ASSUME NEW file, NEW mails, file = <<>>, mails = <<>>
    PROVE  \E start \in [1 .. Len(mails) + 1 -> Headers(file) \cup {Len(file) + 1}] : Laid(file, mails, start)
  <1> DEFINE start == [i \in 1 .. 1 |-> 1]
  <1>1. Len(file) = 0 /\ Len(mails) = 0 /\ DOMAIN file = {} /\ DOMAIN mails = {}
    OBVIOUS
  <1>2. /\ start \in [1 .. Len(mails) + 1 -> Headers(file) \cup {Len(file) + 1}]
        /\ start[1] = 1 /\ DOMAIN start = {1}
    BY <1>1
  <1> HIDE DEF start
  <1>3. Laid(file, mails, start)
    BY <1>1, <1>2 DEF Laid
  <1> QED
    BY <1>2, <1>3

LEMMA EndsALine ==
    ASSUME NEW file, NEW mails, NEW start, PlainFile(file, mails, start)
    PROVE  \A i \in 1 .. Len(mails) : file[start[i + 1] - 1] = EOL
  <1> SUFFICES ASSUME NEW i \in 1 .. Len(mails) PROVE file[start[i + 1] - 1] = EOL
    OBVIOUS
  <1> DEFINE k == start[i]
             m == Len(mails[i].lines)
  <1>1. start[i + 1] = k + m + 7 /\ m \in Nat /\ k \in 1 .. Len(file) /\ file[k + m + 6] = EOL
    BY PlainPieces
  <1> HIDE DEF k, m
  <1>2. start[i + 1] - 1 = k + m + 6
    BY <1>1
  <1> QED
    BY <1>1, <1>2

LEMMA AfterAnEnd == ASSUME NEW l \in Nat, NEW file, file[l] = EOL PROVE BeginsLine(file, l + 1)
  <1>1. l + 1 - 1 = l
    OBVIOUS
  <1>2. file[l + 1 - 1] = EOL
    BY <1>1
  <1> QED
    BY <1>2 DEF BeginsLine

\* A plain mail is written at the end of such a file, in one piece.
LEMMA AppendLaid ==
    ASSUME NEW file, NEW mails, NEW start, PlainFile(file, mails, start), NEW mail \in Mails, Plain(mail),
           NEW file2, NEW mails2, file2 = file \o FirstWrite(mail), mails2 = Append(mails, mail)
    PROVE  \E start2 \in [1 .. Len(mails2) + 1 -> Headers(file2) \cup {Len(file2) + 1}] :
             Laid(file2, mails2, start2)
  <1> DEFINE n == Len(mails)
             l == Len(file)
             w == FirstWrite(mail)
             m == Len(w)
             s2 == [i \in 1 .. n + 2 |-> IF i = n + 2 THEN l + m + 1 ELSE start[i]]
  <1>1. /\ l \in Nat /\ DOMAIN file = 1 .. l /\ n \in Nat /\ DOMAIN mails = 1 .. n
        /\ DOMAIN start = 1 .. n + 1
        /\ \A i \in 1 .. n + 1 : start[i] \in 1 .. l + 1
        /\ \A i \in 1 .. n : start[i] \in 1 .. l
    BY PlainTypes
  <1>2. /\ w \in Seq(Pieces) /\ m \in Nat /\ m >= 3 /\ w[1] = "From:" /\ DOMAIN w = 1 .. m
    <2>1. w \in Seq(Pieces) /\ Len(mail.lines) \in Nat /\ m = Len(mail.lines) + 7 /\ w[1] = "From:"
      BY PlainWrite
    <2> QED
      BY <2>1
  <1>3. file \in Seq(Pieces) /\ mails \in Seq(Mails)
    BY DEF PlainFile
  <1> HIDE DEF w
  <1>4. /\ file2 \in Seq(Pieces) /\ Len(file2) = l + m
        /\ \A p \in 1 .. l + m : file2[p] = IF p <= l THEN file[p] ELSE w[p - l]
    BY <1>2, <1>3, ConcatProperties DEF w
  <1>5. /\ mails2 \in Seq(Mails) /\ Len(mails2) = n + 1 /\ mails2[n + 1] = mail
        /\ \A i \in 1 .. n : mails2[i] = mails[i]
    BY <1>3, AppendProperties
  <1>7. /\ \A p \in 1 .. l : file2[p] = file[p]
        /\ \A p \in 1 .. m : file2[l + p] = w[p]
    BY <1>2, <1>3, ConcatElements DEF w
  <1>d. \A i \in 1 .. n : file[start[i + 1] - 1] = EOL
    BY EndsALine
  <1> HIDE DEF n, l, m
  <1>6. DOMAIN file2 = 1 .. l + m /\ DOMAIN mails2 = 1 .. n + 1
    BY <1>4, <1>5
  <1>8. /\ start[1] = 1 /\ start[n + 1] = l + 1
        /\ \A i, j \in 1 .. n + 1 : i < j => start[i] + 2 < start[j]
        /\ \A p \in 1 .. l : \E i \in 1 .. n : start[i] <= p /\ p < start[i + 1]
        /\ \A i \in 1 .. n :
             /\ start[i + 1] = start[i] + Len(FirstWrite(mails[i]))
             /\ \A p \in DOMAIN FirstWrite(mails[i]) :
                  file[start[i] + p - 1] = FirstWrite(mails[i])[p]
    BY <1>1 DEF PlainFile, Laid, n, l
  <1>9. /\ DOMAIN s2 = 1 .. n + 2 /\ s2[n + 2] = l + m + 1
        /\ \A i \in 1 .. n + 1 : s2[i] = start[i]
    BY <1>1
  <1>10. s2 \in [1 .. Len(mails2) + 1 -> Headers(file2) \cup {Len(file2) + 1}]
    <2>1. Len(mails2) + 1 = n + 2 /\ Len(file2) + 1 = l + m + 1
      BY <1>1, <1>2, <1>4, <1>5
    <2>2. ASSUME NEW i \in 1 .. n PROVE start[i] \in Headers(file2)
      <3>1. start[i] \in Headers(file)
        BY PlainHeaders DEF n
      <3>2. start[i] \in 1 .. l /\ file[start[i]] = "From:" /\ BeginsLine(file, start[i])
        BY <1>1, <3>1 DEF Headers, LinesWith
      <3>3. start[i] \in DOMAIN file2 /\ file2[start[i]] = "From:"
        BY <1>1, <1>2, <1>6, <1>7, <3>2
      <3>4. BeginsLine(file2, start[i])
        <4>1. start[i] = 1 \/ start[i] - 1 \in 1 .. l
          BY <1>1, <3>2
        <4> QED
          BY <1>7, <3>2, <4>1 DEF BeginsLine
      <3> QED
        BY <3>3, <3>4 DEF Headers, LinesWith
    <2>3. l + 1 \in Headers(file2)
      <3>1. l + 1 \in DOMAIN file2 /\ file2[l + 1] = "From:"
        <4>1. 1 \in 1 .. m /\ l + 1 \in 1 .. l + m
          BY <1>1, <1>2
        <4> QED
          BY <1>2, <1>6, <1>7, <4>1
      <3>2. BeginsLine(file2, l + 1)
        <4>1. CASE n = 0
          BY <1>1, <1>8, <4>1 DEF BeginsLine
        <4>2. CASE n # 0
          <5>1. n \in 1 .. n
            BY <1>1, <4>2
          <5>2. file[start[n + 1] - 1] = EOL
            BY <1>d, <5>1
          <5>3. l \in 1 .. l /\ l + 1 - 1 = l
            BY <1>1, <5>1
          <5>4. file2[l] = EOL
            <6>1. start[n + 1] - 1 = l
              BY <1>8, <5>3
            <6>2. file[l] = EOL
              BY <5>2, <6>1
            <6> QED
              BY <1>7, <5>3, <6>2
          <5> QED
            BY <1>1, <5>4, AfterAnEnd
        <4> QED
          BY <4>1, <4>2
      <3> QED
        BY <3>1, <3>2 DEF Headers, LinesWith
    <2>4. ASSUME NEW i \in 1 .. n + 2 PROVE s2[i] \in Headers(file2) \cup {l + m + 1}
      <3>1. i \in 1 .. n \/ i = n + 1 \/ i = n + 2
        BY <1>1
      <3>2. n + 1 \in 1 .. n + 1 /\ \A j \in 1 .. n : j \in 1 .. n + 1
        BY <1>1
      <3> QED
        BY <1>8, <1>9, <2>2, <2>3, <3>1, <3>2
    <2> HIDE DEF s2
    <2>5. s2 = [i \in 1 .. n + 2 |-> s2[i]]
      BY <1>9 DEF s2
    <2> QED
      BY <2>1, <2>4, <2>5
  <1> HIDE DEF s2
  <1>11. s2[1] = 1 /\ s2[Len(mails2) + 1] = Len(file2) + 1
    <2>1. 1 \in 1 .. n + 1 /\ Len(mails2) + 1 = n + 2 /\ Len(file2) + 1 = l + m + 1
      BY <1>1, <1>2, <1>4, <1>5
    <2> QED
      BY <1>8, <1>9, <2>1
  <1>12. ASSUME NEW i \in 1 .. n + 2, NEW j \in 1 .. n + 2, i < j PROVE s2[i] + 2 < s2[j]
    <2>1. i \in 1 .. n + 1 /\ (j \in 1 .. n + 1 \/ j = n + 2)
      BY <1>1, <1>12
    <2>2. CASE j \in 1 .. n + 1
      BY <1>8, <1>9, <1>12, <2>1, <2>2
    <2>3. CASE j = n + 2
      <3>1. s2[i] \in 1 .. l + 1 /\ s2[j] = l + m + 1
        BY <1>1, <1>9, <2>1, <2>3
      <3>2. l \in Nat /\ m \in Nat /\ m >= 3
        BY <1>1, <1>2
      <3> QED
        BY <3>1, <3>2
    <2> QED
      BY <2>1, <2>2, <2>3
  <1>13. ASSUME NEW p \in 1 .. l + m PROVE \E i \in 1 .. n + 1 : s2[i] <= p /\ p < s2[i + 1]
    <2>1. CASE p \in 1 .. l
      <3>1. PICK i \in 1 .. n : start[i] <= p /\ p < start[i + 1]
        BY <1>8, <2>1
      <3>2. i \in 1 .. n + 1 /\ i + 1 \in 1 .. n + 1
        BY <1>1
      <3>3. s2[i] = start[i] /\ s2[i + 1] = start[i + 1]
        BY <1>9, <3>2
      <3> QED
        BY <3>1, <3>2, <3>3
    <2>2. CASE p \notin 1 .. l
      <3>1. n + 1 \in 1 .. n + 1 /\ n + 1 + 1 = n + 2
        BY <1>1
      <3>2. s2[n + 1] = l + 1 /\ s2[n + 1 + 1] = l + m + 1
        BY <1>8, <1>9, <3>1
      <3>3. l + 1 <= p /\ p < l + m + 1
        BY <1>1, <1>2, <2>2
      <3> QED
        BY <3>1, <3>2, <3>3
    <2> QED
      BY <2>1, <2>2
  <1>14. ASSUME NEW i \in 1 .. n + 1
         PROVE  /\ s2[i + 1] = s2[i] + Len(FirstWrite(mails2[i]))
                /\ \A p \in DOMAIN FirstWrite(mails2[i]) :
                     file2[s2[i] + p - 1] = FirstWrite(mails2[i])[p]
    <2>1. CASE i = n + 1
      <3>1. n + 1 \in 1 .. n + 1 /\ n + 1 + 1 = n + 2
        BY <1>1
      <3>2. s2[i] = l + 1 /\ s2[i + 1] = l + m + 1 /\ FirstWrite(mails2[i]) = w
        BY <1>5, <1>8, <1>9, <2>1, <3>1 DEF w
      <3>3. ASSUME NEW p \in 1 .. m PROVE file2[l + 1 + p - 1] = w[p]
        <4>1. l + 1 + p - 1 = l + p
          BY <1>1, <1>2
        <4> QED
          BY <1>7, <4>1
      <3>4. l + m + 1 = l + 1 + m
        BY <1>1, <1>2
      <3> QED
        BY <1>2, <3>2, <3>3, <3>4 DEF m
    <2>2. CASE i # n + 1
      <3> DEFINE u == FirstWrite(mails[i])
      <3>1. i \in 1 .. n /\ i \in 1 .. n + 1 /\ i + 1 \in 1 .. n + 1
        BY <1>1, <2>2
      <3>2. s2[i] = start[i] /\ s2[i + 1] = start[i + 1] /\ FirstWrite(mails2[i]) = u
        BY <1>5, <1>9, <3>1
      <3>3. start[i + 1] = start[i] + Len(u) /\ \A p \in DOMAIN u : file[start[i] + p - 1] = u[p]
        BY <1>8, <3>1
      <3>4. DOMAIN u = 1 .. Len(u) /\ Len(u) \in Nat
        <4>1. mails[i] \in Mails /\ Plain(mails[i])
          BY <3>1, PlainTypes DEF n
        <4>2. u \in Seq(Pieces)
          BY <4>1, PlainWrite
        <4> QED
          BY <4>2
      <3> HIDE DEF u
      <3>5. ASSUME NEW p \in DOMAIN u PROVE file2[start[i] + p - 1] = u[p]
        <4>1. start[i] \in 1 .. l + 1 /\ start[i + 1] \in 1 .. l + 1
          BY <1>1, <3>1
        <4>2. start[i] + p - 1 \in 1 .. l
          <5>1. start[i] + Len(u) <= l + 1 /\ p \in Nat /\ 1 <= p /\ p <= Len(u)
            BY <3>3, <3>4, <4>1
          <5>2. start[i] \in Int /\ 1 <= start[i] /\ Len(u) \in Int /\ l \in Int /\ p \in Int
            BY <1>1, <3>4, <4>1, <5>1
          <5>3. \A a, b, c, d \in Int : 1 <= a /\ a + b <= c + 1 /\ 1 <= d /\ d <= b => a + d - 1 \in 1 .. c
            OBVIOUS
          <5> QED
            BY <5>1, <5>2, <5>3
        <4> QED
          BY <1>7, <3>3, <4>2
      <3> QED
        BY <3>2, <3>3, <3>5
    <2> QED
      BY <2>1, <2>2
  <1>15. Laid(file2, mails2, s2)
    BY <1>6, <1>9, <1>11, <1>12, <1>13, <1>14 DEF Laid
  <1> QED
    BY <1>10, <1>15

\* What leaves the files alone, and the threads that have half of a mail written.
LEMMA RestOfFiles ==
    ASSUME HalfwayInv, FilesInv, UNCHANGED fileVars,
           \A x \in Sessions : thread'[x].halfway => thread'[x] = thread[x]
    PROVE  HalfwayInv' /\ FilesInv'
  <1>1. UNCHANGED <<mailbox, stored>>
    BY DEF fileVars
  <1>2. HalfwayInv'
    BY <1>1 DEF HalfwayInv, At
  <1>3. FilesInv'
    BY <1>1 DEF FilesInv
  <1> QED
    BY <1>2, <1>3

LEMMA SendsHalfway ==
    ASSUME NEW s \in Sessions, thread \in [Sessions -> Locals], NEW answer, NEW locals,
           ~ locals.halfway, Sends(s, answer, locals)
    PROVE  \A x \in Sessions : thread'[x].halfway => thread'[x] = thread[x]
  <1>1. CASE Becomes(s, locals)
    BY <1>1 DEF Becomes
  <1>2. CASE thread' = [x \in Sessions |-> NoThread]
    BY <1>2 DEF NoThread
  <1> QED
    BY <1>1, <1>2 DEF Sends

\* A step that writes no file.
LEMMA OthersHalfway ==
    ASSUME DialogueInv, HalfwayInv, NEW s \in Sessions, Accept(s) \/ Thread(s) \/ Client(s),
           ~ store_email(s), ~ StoreRest(s)
    PROVE  UNCHANGED fileVars /\ \A x \in Sessions : thread'[x].halfway => thread'[x] = thread[x]
  <1>a. thread \in [Sessions -> Locals] /\ thread[s] \in Locals
    BY DEF DialogueInv, TypeOK
  <1>b. ~ At(s, "store") => ~ thread[s].halfway
    BY DEF HalfwayInv
  <1>1. CASE Accept(s)
    BY <1>a, <1>1 DEF Accept, Becomes, NoThread, fileVars
  <1>2. CASE Client(s)
    BY <1>2 DEF Client, Type, TypeNothing, ReadsAnswer, ReadsPrompt, ReadsGoodbye, ReadsReceipt,
         ReadsReply, TypeLine, TypeEnd, SendsLine, HangUp, ServerGone, serverVars, fileVars
  <1>3. ASSUME NEW command, Handles(s, command)
        PROVE  UNCHANGED fileVars /\ \A x \in Sessions : thread'[x].halfway => thread'[x] = thread[x]
    <2>1. UNCHANGED fileVars
      BY <1>3 DEF Handles, Quit, Helo, MailFrom, RcptTo, Data, List, GetMail, Unknown
    <2>2. ~ thread[s].halfway
      BY <1>b, <1>3 DEF Handles, Quit, Helo, MailFrom, RcptTo, Data, List, GetMail, Unknown, Receives, At
    <2> DEFINE Fine == \A x \in Sessions : thread'[x].halfway => thread'[x] = thread[x]
    <2>3. ASSUME NEW answer, NEW locals, Sends(s, answer, locals), ~ locals.halfway PROVE Fine
      BY <1>a, <2>3, SendsHalfway
    <2> HIDE DEF Fine
    <2>4. Fine
      <3>1. CASE Quit(s, command)
        <4>1. Sends(s, Approval, NoThread) /\ ~ NoThread.halfway
          BY <3>1 DEF Quit, NoThread
        <4> QED
          BY <2>3, <4>1
      <3>2. CASE Helo(s, command)
        <4> DEFINE L1 == [thread[s] EXCEPT !.helo_domain = Missing]
                   L2 == [thread[s] EXCEPT !.helo_domain = command.domain, !.state = 1]
        <4>1. ~ L1.halfway /\ ~ L2.halfway
          BY <1>a, <2>2 DEF Locals
        <4>2. Sends(s, Refusal, L1) \/ Sends(s, Approval, L2)
          BY <3>2 DEF Helo
        <4> HIDE DEF L1, L2
        <4> QED
          BY <2>3, <4>1, <4>2
      <3>3. CASE MailFrom(s, command)
        <4> DEFINE L1 == [thread[s] EXCEPT !.sender = Scanned(command.email, thread[s].sender), !.state = 2]
                   L2 == [thread[s] EXCEPT !.sender = Scanned(command.email, thread[s].sender)]
        <4>1. ~ L1.halfway /\ ~ L2.halfway
          BY <1>a, <2>2 DEF Locals
        <4>2. Sends(s, Approval, L1) \/ Sends(s, Refusal, L2)
          BY <3>3 DEF MailFrom
        <4> HIDE DEF L1, L2
        <4> QED
          BY <2>3, <4>1, <4>2
      <3>4. CASE RcptTo(s, command)
        <4> DEFINE L1 == [thread[s] EXCEPT !.recipient = Scanned(command.email, thread[s].recipient), !.state = 3]
                   L2 == [thread[s] EXCEPT !.recipient = Scanned(command.email, thread[s].recipient)]
        <4>1. ~ L1.halfway /\ ~ L2.halfway
          BY <1>a, <2>2 DEF Locals
        <4>2. Sends(s, Approval, L1) \/ Sends(s, Refusal, L2)
          BY <3>4 DEF RcptTo
        <4> HIDE DEF L1, L2
        <4> QED
          BY <2>3, <4>1, <4>2
      <3>5. CASE Data(s, command)
        <4> DEFINE L1 == [thread[s] EXCEPT !.place = "data", !.message = <<>>]
        <4>1. ~ L1.halfway
          BY <1>a, <2>2 DEF Locals
        <4>2. Sends(s, Prompt, L1)
          BY <3>5 DEF Data
        <4> HIDE DEF L1
        <4> QED
          BY <2>3, <4>1, <4>2
      <3>6. CASE List(s, command) \/ GetMail(s, command) \/ Unknown(s, command)
        <4>1. \E answer : Sends(s, answer, thread[s])
          BY <3>6 DEF List, GetMail, Unknown
        <4> QED
          BY <2>2, <2>3, <4>1
      <3> QED
        BY <1>3, <3>1, <3>2, <3>3, <3>4, <3>5, <3>6 DEF Handles
    <2> QED
      BY <2>1, <2>4 DEF Fine
  <1>4. CASE Receipt(s)
    <2>1. ~ [thread[s] EXCEPT !.place = "command", !.state = 1, !.message = <<>>].halfway
      BY <1>a, <1>b, <1>4 DEF Receipt, At, Locals
    <2> QED
      BY <1>a, <1>4, <2>1, SendsHalfway DEF Receipt
  <1>5. CASE MoreOfMail(s) \/ EndOfMail(s) \/ MailTooLong(s) \/ HungUpInMail(s) \/ HungUp(s)
    <2>1. UNCHANGED fileVars
      BY <1>5 DEF MoreOfMail, EndOfMail, MailTooLong, HungUpInMail, HungUp, fileVars
    <2>2. ~ thread[s].halfway
      BY <1>b, <1>5 DEF MoreOfMail, EndOfMail, MailTooLong, HungUpInMail, HungUp, At
    <2>3. PICK locals : Becomes(s, locals) /\ ~ locals.halfway
      <3>1. CASE MoreOfMail(s)
        <4>1. PICK got : Becomes(s, [thread[s] EXCEPT !.message = @ \o got])
          BY <3>1 DEF MoreOfMail
        <4>2. ~ [thread[s] EXCEPT !.message = @ \o got].halfway
          BY <1>a, <2>2 DEF Locals
        <4> QED
          BY <4>1, <4>2
      <3>2. CASE EndOfMail(s) \/ MailTooLong(s) \/ HungUpInMail(s)
        BY <1>a, <2>2, <3>2 DEF EndOfMail, MailTooLong, HungUpInMail, Goes, Locals
      <3>3. CASE HungUp(s)
        BY <3>3 DEF HungUp, NoThread
      <3> QED
        BY <1>5, <3>1, <3>2, <3>3
    <2> QED
      BY <1>a, <2>1, <2>3 DEF Becomes
  <1> QED
    BY <1>1, <1>2, <1>3, <1>4, <1>5 DEF Thread

\* A thread that stores has a recipient that has a mailbox.
LEMMA StoresInAMailbox ==
    ASSUME DialogueInv, NEW s \in Sessions, At(s, "store")
    PROVE  thread[s].recipient \in Mailboxes
  <1>1. thread[s] \in Locals /\ Consistent(thread[s])
    BY DEF DialogueInv, TypeOK
  <1>2. thread[s].recipient \in Addresses /\ check_valid_email(thread[s].recipient)
    BY <1>1 DEF At, Consistent, Locals
  <1>3. ~ check_valid_email(NoEmail)
    BY DEF check_valid_email, NoEmail
  <1> QED
    BY <1>2, <1>3 DEF Addresses, Mailboxes

LEMMA StoreInFiles ==
    ASSUME DialogueInv, HalfwayInv, FilesInv, NEW s \in Sessions, store_email(s)
    PROVE  HalfwayInv' /\ FilesInv'
  <1> DEFINE r == thread[s].recipient
             mail == TheMail(s)
  <1>a. /\ mailbox \in [Mailboxes -> Seq(Pieces)] /\ stored \in [Mailboxes -> Seq(Mails)]
        /\ thread \in [Sessions -> Locals] /\ thread[s] \in Locals
    BY DEF DialogueInv, TypeOK
  <1>b. r \in Mailboxes /\ mail \in Mails
    BY <1>a, FilesType, StoresInAMailbox DEF store_email
  <1>1. /\ mailbox'[r] = mailbox[r] \o FirstWrite(mail) /\ stored'[r] = Append(stored[r], mail)
        /\ \A e \in Mailboxes \ {r} : mailbox'[e] = mailbox[e] /\ stored'[e] = stored[e]
    BY <1>a, <1>b DEF store_email
  <1>2. /\ \A x \in Sessions \ {s} : thread'[x] = thread[x]
        /\ Short(mail) => ~ thread'[s].halfway
        /\ ~ Short(mail) => thread'[s].place = "store" /\ thread'[s].recipient = r
    <2>1. At(s, "store") /\ ~ thread[s].halfway
      BY DEF store_email
    <2>2. CASE Short(mail)
      <3>1. thread' = [thread EXCEPT ![s] = [thread[s] EXCEPT !.place = "receipt"]]
        BY <2>2 DEF store_email, Goes, Becomes
      <3> QED
        BY <1>a, <2>1, <2>2, <3>1 DEF Locals
    <2>3. CASE ~ Short(mail)
      <3>1. thread' = [thread EXCEPT ![s] = [thread[s] EXCEPT !.halfway = TRUE]]
        BY <2>3 DEF store_email, Becomes
      <3> QED
        BY <1>a, <2>1, <2>3, <3>1 DEF At, Locals
    <2> QED
      BY <2>2, <2>3
  <1> HIDE DEF r, mail
  <1>3. /\ stored[r] \in Seq(Mails) /\ Len(stored[r]) \in Nat
        /\ DOMAIN stored[r] = 1 .. Len(stored[r]) /\ DOMAIN stored'[r] = 1 .. Len(stored[r]) + 1
        /\ stored'[r][Len(stored[r]) + 1] = mail
        /\ \A i \in 1 .. Len(stored[r]) : stored'[r][i] = stored[r][i]
    <2>1. stored[r] \in Seq(Mails)
      BY <1>a, <1>b
    <2> QED
      BY <1>1, <1>b, <2>1, AppendProperties
  <1>4. Len(stored[r]) + 1 \in DOMAIN stored'[r] /\ DOMAIN stored[r] \subseteq DOMAIN stored'[r]
    BY <1>3
  <1>5. HalfwayInv'
    <2> SUFFICES ASSUME NEW x \in Sessions, thread'[x].halfway
                 PROVE  /\ thread'[x].place = "store"
                        /\ \E i \in DOMAIN stored'[thread'[x].recipient] :
                             ~ Plain(stored'[thread'[x].recipient][i])
      BY DEF HalfwayInv, At
    <2>1. CASE x = s
      <3>1. ~ Short(mail) /\ thread'[s].place = "store" /\ thread'[s].recipient = r
        BY <1>2, <2>1
      <3>2. ~ Plain(mail)
        BY <3>1 DEF Plain
      <3> QED
        BY <1>3, <1>4, <2>1, <3>1, <3>2
    <2>2. CASE x # s
      <3>1. thread'[x] = thread[x] /\ At(x, "store")
        BY <1>2, <2>2 DEF HalfwayInv
      <3>2. thread[x].recipient \in Mailboxes
        BY <3>1, StoresInAMailbox
      <3>3. PICK i \in DOMAIN stored[thread[x].recipient] : ~ Plain(stored[thread[x].recipient][i])
        BY <2>2, <3>1 DEF HalfwayInv
      <3>4. CASE thread[x].recipient = r
        <4>1. i \in DOMAIN stored'[r] /\ stored'[r][i] = stored[r][i]
          BY <1>3, <1>4, <3>3, <3>4
        <4> QED
          BY <3>1, <3>3, <3>4, <4>1 DEF At
      <3>5. CASE thread[x].recipient # r
        <4>1. stored'[thread[x].recipient] = stored[thread[x].recipient]
          BY <1>1, <3>2, <3>5
        <4> QED
          BY <3>1, <3>3, <4>1 DEF At
      <3> QED
        BY <3>4, <3>5
    <2> QED
      BY <2>1, <2>2
  <1>6. FilesInv'
    <2> SUFFICES ASSUME NEW e \in Mailboxes, \A i \in DOMAIN stored'[e] : Plain(stored'[e][i])
                 PROVE  \E start \in [1 .. Len(stored'[e]) + 1 ->
                                        Headers(mailbox'[e]) \cup {Len(mailbox'[e]) + 1}] :
                          Laid(mailbox'[e], stored'[e], start)
      BY DEF FilesInv
    <2>1. CASE e # r
      BY <1>1, <2>1 DEF FilesInv
    <2>2. CASE e = r
      <3>1. Plain(mail) /\ \A i \in DOMAIN stored[r] : Plain(stored[r][i])
        BY <1>3, <1>4, <2>2
      <3>2. PICK start \in [1 .. Len(stored[r]) + 1 -> Headers(mailbox[r]) \cup {Len(mailbox[r]) + 1}] :
              Laid(mailbox[r], stored[r], start)
        BY <1>b, <3>1 DEF FilesInv
      <3>3. PlainFile(mailbox[r], stored[r], start)
        BY <1>a, <1>b, <3>1, <3>2 DEF PlainFile
      <3>4. \A file2, mails2 :
              file2 = mailbox[r] \o FirstWrite(mail) /\ mails2 = Append(stored[r], mail) =>
                \E start2 \in [1 .. Len(mails2) + 1 -> Headers(file2) \cup {Len(file2) + 1}] :
                  Laid(file2, mails2, start2)
        BY <1>b, <3>1, <3>3, AppendLaid
      <3>5. mailbox'[e] = mailbox[r] \o FirstWrite(mail) /\ stored'[e] = Append(stored[r], mail)
        BY <1>1, <2>2
      <3> QED
        BY <3>4, <3>5, Zenon
    <2> QED
      BY <2>1, <2>2
  <1> QED
    BY <1>5, <1>6

LEMMA StoreRestInFiles ==
    ASSUME DialogueInv, HalfwayInv, FilesInv, NEW s \in Sessions, StoreRest(s)
    PROVE  HalfwayInv' /\ FilesInv'
  <1> DEFINE r == thread[s].recipient
  <1>a. /\ mailbox \in [Mailboxes -> Seq(Pieces)]
        /\ thread \in [Sessions -> Locals] /\ thread[s] \in Locals
    BY DEF DialogueInv, TypeOK
  <1>1. stored' = stored /\ \A e \in Mailboxes \ {r} : mailbox'[e] = mailbox[e]
    BY <1>a DEF StoreRest
  <1>2. \E i \in DOMAIN stored[r] : ~ Plain(stored[r][i])
    BY DEF StoreRest, HalfwayInv
  <1>3. ~ thread'[s].halfway /\ \A x \in Sessions \ {s} : thread'[x] = thread[x]
    BY <1>a DEF StoreRest, Becomes, Locals
  <1> HIDE DEF r
  <1>4. HalfwayInv'
    BY <1>1, <1>3 DEF HalfwayInv, At
  <1>5. FilesInv'
    BY <1>1, <1>2 DEF FilesInv
  <1> QED
    BY <1>4, <1>5

LEMMA FilesStep ==
    ASSUME DialogueInv, HalfwayInv, FilesInv, [Next]_vars
    PROVE  HalfwayInv' /\ FilesInv'
  <1>1. CASE Kill \/ Restart \/ UNCHANGED vars
    <2>1. UNCHANGED fileVars
      BY <1>1 DEF Kill, Restart, vars
    <2>2. \A x \in Sessions : thread'[x].halfway => thread'[x] = thread[x]
      BY <1>1 DEF Kill, Restart, vars, NoThread
    <2> QED
      BY <2>1, <2>2, RestOfFiles
  <1>2. ASSUME NEW s \in Sessions, Accept(s) \/ Thread(s) \/ Client(s)
        PROVE  HalfwayInv' /\ FilesInv'
    <2>1. CASE ~ store_email(s) /\ ~ StoreRest(s)
      BY <1>2, <2>1, OthersHalfway, RestOfFiles
    <2> QED
      BY <2>1, StoreInFiles, StoreRestInFiles
  <1> QED
    BY <1>1, <1>2 DEF Next

-----------------------------------------------------------------------------
LEMMA InitInvariant == Init => IInv
  <1>1. Init => StepInv
    BY DEF Init, StepInv, InStep, At, NoThread
  <1>2. Init => HalfwayInv
    BY DEF Init, HalfwayInv, NoThread
  <1>3. Init => FilesInv
    <2> SUFFICES ASSUME Init, NEW e \in Mailboxes
                 PROVE  \E start \in [1 .. Len(stored[e]) + 1 ->
                                        Headers(mailbox[e]) \cup {Len(mailbox[e]) + 1}] :
                          Laid(mailbox[e], stored[e], start)
      BY DEF FilesInv
    <2>1. mailbox[e] = <<>> /\ stored[e] = <<>>
      BY DEF Init
    <2> QED
      BY <2>1, EmptyLaid
  <1> QED
    BY <1>1, <1>2, <1>3, InitDialogue DEF IInv

LEMMA InvariantStep == IInv /\ [Next]_vars => IInv'
  <1> SUFFICES ASSUME IInv, [Next]_vars PROVE IInv'
    OBVIOUS
  <1>a. DialogueInv /\ StepInv
    BY DEF IInv
  <1>b. HalfwayInv' /\ FilesInv'
    BY FilesStep DEF IInv
  <1>1. CASE Restart \/ Kill
    <2>1. UNCHANGED clientVars
      BY <1>1 DEF Restart, Kill
    <2>2. \A x \in Sessions : thread'[x].place = "none" \/ UNCHANGED <<thread, stream, replies>>
      BY <1>1 DEF Restart, Kill, NoThread
    <2> QED
      BY <1>1, <1>a, <1>b, <2>1, <2>2, DialogueStep, OthersInStep DEF Next, StepInv, IInv, clientVars
  <1>2. ASSUME NEW s \in Sessions, Accept(s) \/ Thread(s) \/ Client(s) PROVE IInv'
    <2>1. DialogueInv'
      BY <1>a, <1>2, DialogueStep DEF Next
    <2>2. StepInv'
      BY <1>a, <1>2, HandlesInStep, MailInStep, StoreInStep, AcceptInStep, ClientInStep DEF Thread
    <2> QED
      BY <1>b, <2>1, <2>2 DEF IInv
  <1>3. CASE UNCHANGED vars
    BY <1>a, <1>b, <1>3, DialogueStep, OthersInStep DEF StepInv, IInv, vars, clientVars
  <1> QED
    BY <1>1, <1>2, <1>3 DEF Next

-----------------------------------------------------------------------------
(* The theorems.                                                           *)

(* The inductive invariant: types, the mails stored, what every thread     *)
(* knows about its dialogue, who has its turn in it, and how the mails lie *)
(* in the files (mysmtp_server.c, handle_client and store_email).          *)
THEOREM Invariant == Spec => []IInv
  <1>1. Init => IInv
    BY InitInvariant
  <1>2. IInv /\ [Next]_vars => IInv'
    BY InvariantStep
  <1> QED
    BY <1>1, <1>2, PTL DEF Spec

(* Every variable holds a value of its C type.                             *)
THEOREM TypeCorrect == Spec => []TypeOK
  <1>1. IInv => TypeOK
    BY DEF IInv, DialogueInv
  <1> QED
    BY <1>1, Invariant, PTL

(* No mail is stored from a sender that MAIL FROM refused, or that is not  *)
(* of the domain the session said, whatever it was told before.            *)
THEOREM SendersAccepted == Spec => []StoredMailsWereAccepted
  <1>1. IInv => StoredMailsWereAccepted
    BY DEF IInv, DialogueInv
  <1> QED
    BY <1>1, Invariant, PTL

\* Only store_email stores a mail, the one that is in its message.
LEMMA StoredStep ==
    ASSUME DialogueInv, [Next]_vars, NEW e \in Mailboxes, stored'[e] # stored[e]
    PROVE  \E s \in Sessions :
             /\ store_email(s) /\ e = thread[s].recipient
             /\ stored'[e] = Append(stored[e], TheMail(s)) /\ TheMail(s) \in Mails
  <1>a. stored \in [Mailboxes -> Seq(Mails)] /\ thread \in [Sessions -> Locals]
    BY DEF DialogueInv, TypeOK
  <1>1. CASE Restart \/ Kill \/ UNCHANGED vars
    BY <1>1 DEF Restart, Kill, vars, fileVars
  <1>2. ASSUME NEW s \in Sessions, Accept(s) \/ Client(s) PROVE FALSE
    BY <1>2 DEF Accept, Client, Type, TypeNothing, ReadsAnswer, ReadsPrompt, ReadsGoodbye, ReadsReceipt,
         ReadsReply, TypeLine, TypeEnd, SendsLine, HangUp, ServerGone, serverVars, fileVars
  <1>3. ASSUME NEW s \in Sessions, Thread(s)
        PROVE  /\ store_email(s) /\ e = thread[s].recipient
               /\ stored'[e] = Append(stored[e], TheMail(s)) /\ TheMail(s) \in Mails
    <2>1. store_email(s)
      BY <1>3 DEF Thread, Handles, Quit, Helo, MailFrom, RcptTo, Data, List, GetMail, Unknown,
           MoreOfMail, EndOfMail, MailTooLong, HungUpInMail, StoreRest, Receipt, HungUp, fileVars
    <2>2. stored' = [stored EXCEPT ![thread[s].recipient] = Append(@, TheMail(s))]
      BY <2>1 DEF store_email
    <2>3. TheMail(s) \in Mails
      BY <1>a, FilesType
    <2> QED
      BY <1>a, <2>1, <2>2, <2>3
  <1> QED
    BY <1>1, <1>2, <1>3 DEF Next

(* A mail that is stored is the start of what its client typed, for any    *)
(* number of sessions, any lines, and wherever recv cut them, unless an    *)
(* earlier mail of the session ended before the thread had it all: it was  *)
(* too long, or recv cut a line of it before a dot at its end, which then  *)
(* ended it (mysmtp_server.c, the loop after DATA).                        *)
THEOREM MailsAsTyped == Spec => MailsAreWhatWasTyped
  <1> DEFINE Typing ==
        \A e \in Mailboxes : Len(stored'[e]) > Len(stored[e]) =>
          LET mail == stored'[e][Len(stored'[e])]
          IN  out_of_step[mail.by] \/ IsPrefix(mail.lines, draft[mail.by])
  <1>1. IInv /\ [Next]_vars => Typing
    <2> SUFFICES ASSUME IInv, [Next]_vars, NEW e \in Mailboxes, Len(stored'[e]) > Len(stored[e])
                 PROVE  LET mail == stored'[e][Len(stored'[e])]
                        IN  out_of_step[mail.by] \/ IsPrefix(mail.lines, draft[mail.by])
      OBVIOUS
    <2>1. stored[e] \in Seq(Mails) /\ DialogueInv
      BY DEF IInv, DialogueInv, TypeOK
    <2>2. stored'[e] # stored[e]
      <3>1. Len(stored[e]) \in Nat
        BY <2>1
      <3> QED
        BY <3>1
    <2>3. PICK s \in Sessions :
             store_email(s) /\ stored'[e] = Append(stored[e], TheMail(s)) /\ TheMail(s) \in Mails
      BY <2>1, <2>2, StoredStep
    <2>4. stored'[e][Len(stored'[e])] = TheMail(s)
      BY <2>1, <2>3, AppendProperties
    <2>5. TheMail(s).by = s /\ TheMail(s).lines = thread[s].message
      BY DEF TheMail
    <2>6. out_of_step[s] \/ IsPrefix(thread[s].message, draft[s])
      BY <2>3 DEF IInv, StepInv, InStep, store_email
    <2> QED
      BY <2>4, <2>5, <2>6
  <1>2. Spec => [][Typing]_vars
    BY <1>1, Invariant, PTL DEF Spec
  <1> QED
    BY <1>2 DEF MailsAreWhatWasTyped

(* However many threads store, and in whatever order they write, LIST and  *)
(* GET_MAIL find every mail of a mailbox that has only plain short mails   *)
(* in it (mysmtp_server.c, store_email, list_emails and get_email).        *)
THEOREM MailsFetched == Spec => []ShortMailsCanBeFetched
  <1>1. IInv => ShortMailsCanBeFetched
    <2> SUFFICES ASSUME IInv, NEW e \in Mailboxes, \A i \in DOMAIN stored[e] : Plain(stored[e][i])
                 PROVE  /\ Len(list_emails(mailbox[e])) = Len(stored[e])
                        /\ \A i \in DOMAIN stored[e] :
                             /\ get_email(mailbox[e], i) = Header \o stored[e][i].lines \o <<EOL>>
                             /\ list_emails(mailbox[e])[i] \in Headers(mailbox[e])
      BY DEF ShortMailsCanBeFetched
    <2>1. mailbox[e] \in Seq(Pieces) /\ stored[e] \in Seq(Mails)
      BY DEF IInv, DialogueInv, TypeOK
    <2>2. PICK start \in [1 .. Len(stored[e]) + 1 -> Headers(mailbox[e]) \cup {Len(mailbox[e]) + 1}] :
            Laid(mailbox[e], stored[e], start)
      BY DEF IInv, FilesInv
    <2>3. PlainFile(mailbox[e], stored[e], start)
      BY <2>1, <2>2 DEF PlainFile
    <2> QED
      BY <2>3, PlainFetched
  <1> QED
    BY <1>1, Invariant, PTL
=============================================================================

-------------------------------- MODULE Smtp --------------------------------
(* The mail server and its clients (Assignment 6).  The server has one     *)
(* thread per connection; the threads share the mailbox files.  A session  *)
(* is a client, the thread that handles it, and the two directions of      *)
(* their connection.                                                       *)
(*                                                                         *)
(* What a client sends are units: a command, or a piece of a mail, which   *)
(* is the end of a line (CRLF), a dot, or a text without either.  One      *)
(* recv() returns any number of units, so that the lines of a mail are cut *)
(* and put together anywhere.  A command is a unit: it is one short send() *)
(* on a connection that was quiet, and arrives whole.  So is CRLF: a cut   *)
(* inside of it changes neither the message nor the test for its end.      *)
EXTENDS Mailbox, SequencesExt

CONSTANTS
    Sessions,
    Emails,         \* the addresses typed, as [user, domain]; Missing for a part that is missing
    Dotted,         \* the domains that have a dot in them
    Typed,          \* the commands typed, see Command
    Words,          \* the texts in the lines of a mail, as "From:"
    TypedLines,     \* the lines typed, as sequences of words and dots
    Capacity,       \* pieces that fit into a message (40 KB)
    MaxPieces,      \* bound: pieces a client types for one mail before the last line
    MaxMails        \* bound: mails begun in all

VARIABLES
    up,                          \* the server process
    mailbox, stored,             \* the files, and what was given to store_email
    thread,                      \* of a session: the locals of handle_client
    stream, replies,             \* the two directions of the connection
    cpc, draft, out_of_step      \* the client: where it is, the mail it has typed;
                                 \* whether one ended for the thread before it had it all

fileVars == <<mailbox, stored>>
clientVars == <<cpc, draft, out_of_step>>
vars == <<up, fileVars, thread, stream, replies, clientVars>>

Missing == ""
NoEmail == [user |-> Missing, domain |-> Missing]
\* The first dot after the at sign is looked for, and what is on both sides.
check_valid_email(email) == email.user # Missing /\ email.domain \in Dotted

extract_domain(email) == email.domain

Domains == {extract_domain(e) : e \in Emails} \cup {Missing}
Mailboxes == {e \in Emails : check_valid_email(e)}
Addresses == Emails \cup {NoEmail}

\* What is sent to the server: a command, or a piece of a mail.
Texts == {"HELO", "MAIL FROM:", "RCPT TO:", "DATA", "QUIT", "LIST", "GET_MAIL", Dot, EOL}
             \cup Words
Commands == [verb : Texts, domain : Domains, email : Addresses, id : Nat]
Command(verb, domain, email, id) == [verb |-> verb, domain |-> domain, email |-> email, id |-> id]
Text(piece) == Command(piece, Missing, NoEmail, 0)

\* The last line of a mail, which no other is for the client.
End == <<Dot, EOL>>

ASSUME SmtpAssumption ==
    /\ Typed \subseteq Commands /\ Capacity \in Nat /\ MaxPieces \in Nat
    /\ Words \cap {Dot, EOL} = {}
    /\ TypedLines \subseteq Seq(Words \cup {Dot}) \ {<<Dot>>}

NoThread == [place |-> "none", state |-> 0, helo_domain |-> Missing, sender |-> NoEmail,
             recipient |-> NoEmail, message |-> <<>>, halfway |-> FALSE]

Init ==
    /\ up = TRUE
    /\ mailbox = [e \in Mailboxes |-> <<>>]
    /\ stored = [e \in Mailboxes |-> <<>>]
    /\ thread = [s \in Sessions |-> NoThread]
    /\ stream = [s \in Sessions |-> <<>>]
    /\ replies = [s \in Sessions |-> <<>>]
    /\ cpc = [s \in Sessions |-> "closed"]
    /\ draft = [s \in Sessions |-> <<>>]
    /\ out_of_step = [s \in Sessions |-> FALSE]

At(s, here) == thread[s].place = here
Becomes(s, locals) == thread' = [thread EXCEPT ![s] = locals]
Goes(s, next) == Becomes(s, [thread[s] EXCEPT !.place = next])

-----------------------------------------------------------------------------
(* main.                                                                   *)

\* A client connects and gets a thread, with everything zeroed.
Accept(s) ==
    /\ up /\ At(s, "none") /\ cpc[s] = "closed"
    /\ Becomes(s, [NoThread EXCEPT !.place = "command"])
    /\ stream' = [stream EXCEPT ![s] = <<>>]
    /\ replies' = [replies EXCEPT ![s] = <<>>]
    /\ cpc' = [cpc EXCEPT ![s] = "prompt"]
    /\ draft' = [draft EXCEPT ![s] = <<>>]
    /\ out_of_step' = [out_of_step EXCEPT ![s] = FALSE]
    /\ UNCHANGED <<up, fileVars>>

\* The server is stopped: what a thread has not read, or not written, is lost.
Kill ==
    /\ up
    /\ up' = FALSE
    /\ thread' = [x \in Sessions |-> NoThread]
    /\ stream' = [x \in Sessions |-> <<>>]
    /\ UNCHANGED <<fileVars, replies, clientVars>>

\* The server is started again after it was killed; the files are still there.
Restart ==
    /\ ~ up
    /\ up' = TRUE
    /\ UNCHANGED <<fileVars, thread, stream, replies, clientVars>>

-----------------------------------------------------------------------------
(* A thread: handle_client.                                                *)

\* send, and the locals after it.  To a client that has gone, send may raise
\* SIGPIPE, which kills the server with all its threads.
Sends(s, answer, locals) ==
    \/ /\ replies' = IF cpc[s] = "closed" THEN replies
                     ELSE [replies EXCEPT ![s] = Append(@, answer)]
       /\ Becomes(s, locals)
       /\ UNCHANGED up
    \/ /\ cpc[s] = "closed"
       /\ up' = FALSE
       /\ thread' = [x \in Sessions |-> NoThread]
       /\ UNCHANGED replies

\* recv gives the first n units of the stream.
Takes(s, n) == stream' = [stream EXCEPT ![s] = SubSeq(@, n + 1, Len(@))]

\* The buffer is compared with the commands from its start; what follows is lost.
Receives(s, command, verb) ==
    /\ At(s, "command") /\ command.verb = verb
    /\ \E n \in 1 .. Len(stream[s]) : Takes(s, n)

Refusal == "400 ERR"
Approval == "200 OK"
Prompt == "Enter your message"
Answers == {Approval, Refusal, Prompt}

Quit(s, command) ==
    /\ Receives(s, command, "QUIT")
    /\ Sends(s, Approval, NoThread)
    /\ UNCHANGED <<fileVars, clientVars>>

Helo(s, command) ==
    /\ Receives(s, command, "HELO") /\ thread[s].state = 0
    /\ IF command.domain = Missing
       THEN Sends(s, Refusal, [thread[s] EXCEPT !.helo_domain = Missing])
       ELSE Sends(s, Approval, [thread[s] EXCEPT !.helo_domain = command.domain, !.state = 1])
    /\ UNCHANGED <<fileVars, clientVars>>

\* sscanf leaves what was there when nothing is given.
Scanned(email, before) == IF email = NoEmail THEN before ELSE email

\* Mutant of SenderFits: the domain is not compared.
SenderFitsAnywhere(s, email) == check_valid_email(email)

SenderFits(s, email) ==
    check_valid_email(email) /\ extract_domain(email) = thread[s].helo_domain

\* The address is kept even when it is refused.
MailFrom(s, command) ==
    /\ Receives(s, command, "MAIL FROM:") /\ thread[s].state = 1
    /\ LET given == Scanned(command.email, thread[s].sender) IN
       IF SenderFits(s, given)
       THEN Sends(s, Approval, [thread[s] EXCEPT !.sender = given, !.state = 2])
       ELSE Sends(s, Refusal, [thread[s] EXCEPT !.sender = given])
    /\ UNCHANGED <<fileVars, clientVars>>

RcptTo(s, command) ==
    /\ Receives(s, command, "RCPT TO:") /\ thread[s].state = 2
    /\ LET given == Scanned(command.email, thread[s].recipient) IN
       IF check_valid_email(given)
       THEN Sends(s, Approval, [thread[s] EXCEPT !.recipient = given, !.state = 3])
       ELSE Sends(s, Refusal, [thread[s] EXCEPT !.recipient = given])
    /\ UNCHANGED <<fileVars, clientVars>>

Data(s, command) ==
    /\ Receives(s, command, "DATA") /\ thread[s].state = 3
    /\ Sends(s, Prompt, [thread[s] EXCEPT !.place = "data", !.message = <<>>])
    /\ UNCHANGED <<fileVars, clientVars>>

PiecesOf(units) == [i \in DOMAIN units |-> units[i].verb]

\* Mutant of MoreOfMail: what was received before is overwritten.
MoreOfMailOverwrites(s) ==
    /\ At(s, "data")
    /\ \E n \in 1 .. Len(stream[s]) :
         LET got == PiecesOf(SubSeq(stream[s], 1, n)) IN
         /\ got # End
         /\ Len(thread[s].message) + n <= Capacity
         /\ Takes(s, n)
         /\ Becomes(s, [thread[s] EXCEPT !.message = got])
    /\ UNCHANGED <<up, fileVars, replies, clientVars>>

\* What recv returned is added to the message, unless it is just a dot and CRLF.
MoreOfMail(s) ==
    /\ At(s, "data")
    /\ \E n \in 1 .. Len(stream[s]) :
         LET got == PiecesOf(SubSeq(stream[s], 1, n)) IN
         /\ got # End
         /\ Len(thread[s].message) + n <= Capacity
         /\ Takes(s, n)
         /\ Becomes(s, [thread[s] EXCEPT !.message = @ \o got])
    /\ UNCHANGED <<up, fileVars, replies, clientVars>>

\* They end the mail, also when they are the rest of a line that was cut before its dot.
EndOfMail(s) ==
    /\ At(s, "data")
    /\ Len(stream[s]) >= 2 /\ PiecesOf(SubSeq(stream[s], 1, 2)) = End
    /\ Takes(s, 2)
    /\ Goes(s, "store")
    /\ UNCHANGED <<up, fileVars, replies, clientVars>>

\* The message is full: what was received is lost, and the mail ends here.
MailTooLong(s) ==
    /\ At(s, "data")
    /\ \E n \in 1 .. Len(stream[s]) :
         /\ PiecesOf(SubSeq(stream[s], 1, n)) # End
         /\ Len(thread[s].message) + n > Capacity
         /\ Takes(s, n)
    /\ Goes(s, "store")
    /\ UNCHANGED <<up, fileVars, replies, clientVars>>

Gone(s) == cpc[s] = "closed" /\ stream[s] = <<>>

\* recv returns 0 or fails.  What has come of the mail is stored.
HungUpInMail(s) ==
    /\ At(s, "data") /\ Gone(s)
    /\ Goes(s, "store")
    /\ UNCHANGED <<up, fileVars, stream, replies, clientVars>>

TheMail(s) == [by |-> s, helo |-> thread[s].helo_domain, sender |-> thread[s].sender,
               lines |-> thread[s].message]

\* store_email, up to the first write.
store_email(s) ==
    /\ At(s, "store") /\ ~ thread[s].halfway
    /\ LET recipient == thread[s].recipient IN
       /\ mailbox' = [mailbox EXCEPT ![recipient] = @ \o FirstWrite(TheMail(s))]
       /\ stored' = [stored EXCEPT ![recipient] = Append(@, TheMail(s))]
    /\ IF Short(TheMail(s)) THEN Goes(s, "receipt")
       ELSE Becomes(s, [thread[s] EXCEPT !.halfway = TRUE])
    /\ UNCHANGED <<up, stream, replies, clientVars>>

\* The rest of a long mail.
StoreRest(s) ==
    /\ At(s, "store") /\ thread[s].halfway
    /\ mailbox' = [mailbox EXCEPT ![thread[s].recipient] = @ \o SecondWrite(TheMail(s))]
    /\ Becomes(s, [thread[s] EXCEPT !.place = "receipt", !.halfway = FALSE])
    /\ UNCHANGED <<up, stored, stream, replies, clientVars>>

\* The message, which nobody reads before the next DATA empties it, is dropped.  If the
\* client has sent or will send more of the mail, the thread reads it as commands.
Receipt(s) ==
    /\ At(s, "receipt")
    /\ Sends(s, Approval, [thread[s] EXCEPT !.place = "command", !.state = 1, !.message = <<>>])
    /\ out_of_step' = [out_of_step EXCEPT ![s] = @ \/ stream[s] # <<>> \/ cpc[s] = "body"]
    /\ UNCHANGED <<fileVars, stream, cpc, draft>>

\* Who may read the mailbox: whoever said HELO from its domain.
MayRead(s, email) == thread[s].state # 0 /\ SenderFits(s, email)

List(s, command) ==
    /\ Receives(s, command, "LIST")
    /\ Sends(s, IF MayRead(s, command.email) /\ mailbox[command.email] # <<>>
                THEN Approval ELSE Refusal, thread[s])
    /\ UNCHANGED <<fileVars, clientVars>>

GetMail(s, command) ==
    /\ Receives(s, command, "GET_MAIL")
    /\ Sends(s, IF MayRead(s, command.email)
                   /\ get_email(mailbox[command.email], command.id) # NotFound
                THEN Approval ELSE Refusal, thread[s])
    /\ UNCHANGED <<fileVars, clientVars>>

\* A command of the dialogue that has its turn in this state.
InTurn(s, verb) ==
    \/ verb \in {"QUIT", "LIST", "GET_MAIL"}
    \/ verb = <<"HELO", "MAIL FROM:", "RCPT TO:", "DATA">>[thread[s].state + 1]

\* Mutant of Unknown: nothing is answered.
UnknownSilent(s, command) ==
    /\ ~ InTurn(s, command.verb)
    /\ Receives(s, command, command.verb)
    /\ UNCHANGED <<up, thread, replies, fileVars, clientVars>>

\* Anything else.
Unknown(s, command) ==
    /\ ~ InTurn(s, command.verb)
    /\ Receives(s, command, command.verb)
    /\ Sends(s, Refusal, thread[s])
    /\ UNCHANGED <<fileVars, clientVars>>

HungUp(s) ==
    /\ At(s, "command") /\ Gone(s)
    /\ Becomes(s, NoThread)
    /\ UNCHANGED <<up, fileVars, stream, replies, clientVars>>

Handles(s, command) ==
    \/ Quit(s, command) \/ Helo(s, command) \/ MailFrom(s, command) \/ RcptTo(s, command)
    \/ Data(s, command) \/ List(s, command) \/ GetMail(s, command) \/ Unknown(s, command)

Thread(s) ==
    \/ stream[s] # <<>> /\ Handles(s, Head(stream[s]))
    \/ MoreOfMail(s) \/ EndOfMail(s) \/ MailTooLong(s) \/ HungUpInMail(s)
    \/ store_email(s) \/ StoreRest(s) \/ Receipt(s) \/ HungUp(s)

-----------------------------------------------------------------------------
(* A client.                                                               *)

serverVars == <<up, fileVars, thread>>

\* Bound: no mail is begun when MaxMails are stored or under way.
MailsLeft ==
    FoldFunction(LAMBDA mails, n : Len(mails) + n, 0, stored)
        + Cardinality({s \in Sessions : thread[s].state = 3}) < MaxMails

Type(s, command) ==
    /\ cpc[s] = "prompt"
    /\ command.verb = "MAIL FROM:" => MailsLeft
    /\ stream' = [stream EXCEPT ![s] = Append(@, command)]
    /\ cpc' = [cpc EXCEPT ![s] = IF command.verb = "QUIT" THEN "awaits goodbye" ELSE "awaits"]
    /\ UNCHANGED <<serverVars, replies, draft, out_of_step>>

\* An empty line: send sends nothing, and recv waits for the reply to it.
TypeNothing(s) ==
    /\ cpc[s] = "prompt"
    /\ cpc' = [cpc EXCEPT ![s] = "awaits"]
    /\ UNCHANGED <<serverVars, stream, replies, draft, out_of_step>>

\* recv takes one reply or more, and the client looks at the first.
ReadsReply(s, here, next) ==
    /\ cpc[s] = here
    /\ \E n \in 1 .. Len(replies[s]) :
         replies' = [replies EXCEPT ![s] = SubSeq(@, n + 1, Len(@))]
    /\ cpc' = [cpc EXCEPT ![s] = next]
    /\ draft' = [draft EXCEPT ![s] = <<>>]
    /\ UNCHANGED <<serverVars, stream, out_of_step>>

ReadsAnswer(s) ==
    /\ replies[s] # <<>> /\ Head(replies[s]) # Prompt
    /\ ReadsReply(s, "awaits", "prompt")

ReadsPrompt(s) ==
    /\ replies[s] # <<>> /\ Head(replies[s]) = Prompt
    /\ ReadsReply(s, "awaits", "body")

ReadsGoodbye(s) == ReadsReply(s, "awaits goodbye", "closed")

ReadsReceipt(s) == ReadsReply(s, "awaits receipt", "prompt")

Texted(pieces) == [i \in DOMAIN pieces |-> Text(pieces[i])]

SendsLine(s, line) ==
    /\ cpc[s] = "body"
    /\ stream' = [stream EXCEPT ![s] = @ \o Texted(line)]
    /\ draft' = [draft EXCEPT ![s] = @ \o line]
    /\ UNCHANGED <<serverVars, replies, out_of_step>>

TypeLine(s, line) ==
    /\ Len(draft[s]) + Len(line) < MaxPieces
    /\ SendsLine(s, Append(line, EOL))
    /\ UNCHANGED cpc

TypeEnd(s) ==
    /\ SendsLine(s, End)
    /\ cpc' = [cpc EXCEPT ![s] = "awaits receipt"]

\* Interrupted.  If it had not read everything, what it sent may be lost too.
HangUp(s) ==
    /\ cpc[s] # "closed"
    /\ cpc' = [cpc EXCEPT ![s] = "closed"]
    /\ replies' = [replies EXCEPT ![s] = <<>>]
    /\ stream' \in {stream} \cup
         (IF replies[s] = <<>> THEN {} ELSE {[stream EXCEPT ![s] = <<>>]})
    /\ UNCHANGED <<serverVars, draft, out_of_step>>

\* The server has closed the connection: recv returns 0.
ServerGone(s) ==
    /\ At(s, "none") /\ replies[s] = <<>>
    /\ cpc[s] \in {"awaits", "awaits goodbye", "awaits receipt"}
    /\ cpc' = [cpc EXCEPT ![s] = "closed"]
    /\ stream' = [stream EXCEPT ![s] = <<>>]
    /\ draft' = [draft EXCEPT ![s] = <<>>]
    /\ UNCHANGED <<serverVars, replies, out_of_step>>

Client(s) ==
    \/ (\E command \in Typed : Type(s, command)) \/ TypeNothing(s)
    \/ ReadsAnswer(s) \/ ReadsPrompt(s) \/ ReadsGoodbye(s) \/ ReadsReceipt(s)
    \/ (\E line \in TypedLines : TypeLine(s, line)) \/ TypeEnd(s)
    \/ HangUp(s) \/ ServerGone(s)

Next == Kill \/ Restart \/ \E s \in Sessions : Accept(s) \/ Thread(s) \/ Client(s)

Spec == Init /\ [][Next]_vars

\* The threads of the server run.
FairSpec == Spec /\ \A s \in Sessions : WF_vars(Thread(s))

-----------------------------------------------------------------------------
(* Properties.                                                             *)

Mails == [by : Sessions, helo : Domains, sender : Addresses, lines : Seq(Texts)]
Pieces == Texts \cup {"From:", "Date:"}
Locals == [place : {"none", "command", "data", "store", "receipt"}, state : {0, 1, 2, 3},
           helo_domain : Domains, sender : Addresses, recipient : Addresses,
           message : Seq(Texts), halfway : BOOLEAN]

\* Every variable holds a value of its C type (type invariant).
TypeOK ==
    /\ up \in BOOLEAN
    /\ mailbox \in [Mailboxes -> Seq(Pieces)]
    /\ stored \in [Mailboxes -> Seq(Mails)]
    /\ thread \in [Sessions -> Locals]
    /\ stream \in [Sessions -> Seq(Commands)]
    /\ replies \in [Sessions -> Seq(Answers)]
    /\ cpc \in [Sessions -> {"prompt", "awaits", "awaits goodbye", "body", "awaits receipt",
                             "closed"}]
    /\ draft \in [Sessions -> Seq(Texts)]
    /\ out_of_step \in [Sessions -> BOOLEAN]

(* Every mail is stored for a recipient that was accepted, from a sender   *)
(* that was accepted, of the domain the session said in HELO, although the *)
(* buffers keep the addresses that were refused (mysmtp_server.c).         *)
StoredMailsWereAccepted ==
    \A e \in Mailboxes : \A i \in 1 .. Len(stored[e]) :
        LET mail == stored[e][i]
        IN  check_valid_email(mail.sender) /\ extract_domain(mail.sender) = mail.helo

\* What a thread has come to know in the dialogue.
Consistent(locals) ==
    /\ locals.state \in {2, 3} => /\ check_valid_email(locals.sender)
                                 /\ extract_domain(locals.sender) = locals.helo_domain
    /\ locals.state = 3 => check_valid_email(locals.recipient)
    /\ locals.place \in {"data", "store", "receipt"} => locals.state = 3

\* What a client and its thread have come to while replies are in step: who
\* has its turn, and what is on its way to the other.
InCommand(s) ==
    \/ cpc[s] = "prompt" /\ stream[s] = <<>> /\ replies[s] = <<>>
    \/ cpc[s] = "awaits" /\ Len(stream[s]) <= 1 /\ replies[s] = <<>>
    \/ cpc[s] = "awaits goodbye" /\ Len(stream[s]) = 1 /\ replies[s] = <<>>
         /\ stream[s][1].verb = "QUIT"
    \/ cpc[s] \in {"awaits", "awaits receipt"} /\ stream[s] = <<>>
         /\ replies[s] \in {<<Approval>>, <<Refusal>>}
    \/ cpc[s] = "closed" /\ Len(stream[s]) <= 1

InData(s) ==
    /\ IsPrefix(thread[s].message \o PiecesOf(stream[s]), draft[s])
    /\ \/ cpc[s] = "awaits" /\ stream[s] = <<>> /\ replies[s] = <<Prompt>>
          /\ thread[s].message = <<>>
       \/ cpc[s] \in {"body", "awaits receipt"} /\ replies[s] = <<>>
          /\ thread[s].message \o PiecesOf(stream[s]) = draft[s]
       \/ cpc[s] = "closed"

\* The end of the mail may have been a false one, and the client still be typing.
InStore(s) ==
    \/ cpc[s] = "closed"
    \/ cpc[s] \in {"body", "awaits receipt"} /\ replies[s] = <<>>

InStep(s) ==
    ~ out_of_step[s] =>
        /\ At(s, "command") => InCommand(s)
        /\ At(s, "data") => InData(s)
        /\ At(s, "store") => InStore(s) /\ IsPrefix(thread[s].message, draft[s])
        /\ At(s, "receipt") => InStore(s)

\* The inductive invariant.
DialogueInv == TypeOK /\ StoredMailsWereAccepted /\ \A s \in Sessions : Consistent(thread[s])
StepInv == \A s \in Sessions : InStep(s)

\* Written at once, and none of its lines looks like a header or like the end.
Plain(mail) == Short(mail) /\ LinesWith(mail.lines, {"From:", Dot}) = {}

\* Of a long mail that is half written, so that its mailbox has more than plain mails.
HalfwayInv ==
    \A s \in Sessions : thread[s].halfway =>
        /\ At(s, "store")
        /\ \E i \in DOMAIN stored[thread[s].recipient] : ~ Plain(stored[thread[s].recipient][i])

\* A file has the mails one after the other, each whole, and nothing else.
Laid(file, mails, start) ==
    /\ start[1] = 1 /\ start[Len(mails) + 1] = Len(file) + 1
    /\ \A i, j \in DOMAIN start : i < j => start[i] + 2 < start[j]
    /\ \A p \in DOMAIN file : \E i \in DOMAIN mails : start[i] <= p /\ p < start[i + 1]
    /\ \A i \in DOMAIN mails :
         LET written == FirstWrite(mails[i])
         IN  /\ start[i + 1] = start[i] + Len(written)
             /\ \A p \in DOMAIN written : file[start[i] + p - 1] = written[p]

FilesInv ==
    \A e \in Mailboxes :
        (\A i \in DOMAIN stored[e] : Plain(stored[e][i])) =>
            \E start \in [1 .. Len(stored[e]) + 1 ->
                            Headers(mailbox[e]) \cup {Len(mailbox[e]) + 1}] :
                Laid(mailbox[e], stored[e], start)

IInv == DialogueInv /\ StepInv /\ HalfwayInv /\ FilesInv

(* What is stored is the start of the mail its client typed, in order and  *)
(* with nothing else in it, wherever recv cut its lines, unless an earlier *)
(* mail of the session ended before the thread had it all: it was too      *)
(* long, or one of its lines was cut before a dot at its end.              *)
MailsAreWhatWasTyped ==
    [][\A e \in Mailboxes : Len(stored'[e]) > Len(stored[e]) =>
         LET mail == stored'[e][Len(stored'[e])]
         IN  out_of_step[mail.by] \/ IsPrefix(mail.lines, draft[mail.by])]_vars

(* As long as a mailbox gets short mails without lines that begin with a   *)
(* dot or like a header, GET_MAIL and LIST give them all, whole and in the *)
(* order in which they were stored.                                        *)
ShortMailsCanBeFetched ==
    \A e \in Mailboxes :
        (\A i \in DOMAIN stored[e] : Plain(stored[e][i])) =>
            LET list == list_emails(mailbox[e]) IN
            /\ Len(list) = Len(stored[e])
            /\ \A i \in DOMAIN stored[e] :
                 /\ get_email(mailbox[e], i) = Header \o stored[e][i].lines \o <<EOL>>
                 /\ list[i] \in Headers(mailbox[e])

(* A command that has reached the server is answered, or one side goes.    *)
CommandsAreAnswered ==
    \A s \in Sessions :
        (cpc[s] = "awaits" /\ stream[s] # <<>> /\ At(s, "command"))
            ~> (replies[s] # <<>> \/ cpc[s] # "awaits" \/ At(s, "none"))
=============================================================================

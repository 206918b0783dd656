------------------------------ MODULE Mailbox ------------------------------
(* A mailbox file of the mail server (Assignment 6), as the sequence of    *)
(* the pieces that are written to it.  A line is what comes up to an end   *)
(* of line; it is known by the piece it begins with.                       *)
EXTENDS Integers, Sequences, FiniteSets

CONSTANT Flush   \* pieces that stdio keeps before it writes them (4096 bytes)

ASSUME MailboxAssumption == Flush \in Nat

EOL == "eol"
Dot == "."

\* What store_email prints; a message that ends its last line gets an empty one after it.
Header == <<"From:", EOL, "Date:", EOL>>
Whole(mail) == Header \o mail.lines \o <<EOL, Dot, EOL>>

Short(mail) == Len(Whole(mail)) <= Flush

\* Mutant of FirstWrite: a short mail is written without the dot after it.
FirstWriteEndless(mail) ==
    IF Short(mail) THEN Header \o mail.lines \o <<EOL>> ELSE SubSeq(Whole(mail), 1, Flush)

\* fprintf and fclose: a short mail is written at once, a longer one is cut where the
\* buffer is full, be it in the middle of a line.
FirstWrite(mail) == IF Short(mail) THEN Whole(mail) ELSE SubSeq(Whole(mail), 1, Flush)

SecondWrite(mail) == SubSeq(Whole(mail), Flush + 1, Len(Whole(mail)))

BeginsLine(file, k) == k = 1 \/ file[k - 1] = EOL

LinesWith(file, beginnings) ==
    {k \in DOMAIN file : BeginsLine(file, k) /\ file[k] \in beginnings}

Before(K, k) == {j \in K : j < k}

\* GET_MAIL counts the lines that begin with "From:".
Headers(file) == LinesWith(file, {"From:"})

\* From a header to the line before the next one that begins with a dot.
MailAt(file, k) ==
    LET ends == {j \in LinesWith(file, {Dot}) : j > k} IN
    SubSeq(file, k, IF ends = {} THEN Len(file)
                    ELSE (CHOOSE e \in ends : Before(ends, e) = {}) - 1)

NotFound == <<>>

get_email(file, id) ==
    LET headers == Headers(file)
        found == {k \in headers : Cardinality(Before(headers, k)) = id - 1} IN
    IF found = {} THEN NotFound ELSE MailAt(file, CHOOSE k \in found : TRUE)

\* Line j comes right before the line that begins at k.
PrecedesLine(file, j, k) ==
    j < k /\ BeginsLine(file, j) /\ \A l \in (j + 1) .. (k - 1) : ~ BeginsLine(file, l)

\* LIST counts them too, but takes the line after each for its date.
Listed(file) ==
    LET headers == Headers(file)
        lists[k \in DOMAIN file] ==
            /\ k \in headers
            /\ \A j \in Before(DOMAIN file, k) : PrecedesLine(file, j, k) => ~ lists[j]
    IN  {k \in DOMAIN file : lists[k]}

\* What LIST calls mail number id.
list_emails(file) ==
    LET listed == Listed(file) IN
    [id \in 1 .. Cardinality(listed) |->
        CHOOSE k \in listed : Cardinality(Before(listed, k)) = id - 1]
=============================================================================

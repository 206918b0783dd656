------------------------------- MODULE MCSmtp -------------------------------
(* The addresses, commands and lines of the instance that is checked.      *)
EXTENDS Smtp

Valid == [user |-> "u", domain |-> "a.in"]
Invalid == [user |-> "u", domain |-> "b"]

MCEmails == {Valid, Invalid}
MCDotted == {"a.in"}

\* A line with a dot at its end: cut before the dot, it ends the mail.
MCLines == {<<"text", Dot>>}

Dialogue ==
    {Command("HELO", "a.in", NoEmail, 0), Command("HELO", Missing, NoEmail, 0),
     Command("HELO", "b", NoEmail, 0),
     Command("MAIL FROM:", Missing, Valid, 0), Command("MAIL FROM:", Missing, Invalid, 0),
     Command("MAIL FROM:", Missing, NoEmail, 0),
     Command("RCPT TO:", Missing, Valid, 0), Command("RCPT TO:", Missing, NoEmail, 0),
     Text("DATA"), Text("QUIT"),
     Command("LIST", Missing, Valid, 0), Command("GET_MAIL", Missing, Valid, 1)}
=============================================================================

\* One session with all the commands; mails with false ends, too long, in two writes, or empty.
SPECIFICATION FairSpec
CONSTANTS
    Sessions = {s1}
    Emails <- MCEmails
    Dotted <- MCDotted
    Typed <- Dialogue
    Words = {"text"}
    TypedLines <- MCLines
    Capacity = 4
    Flush = 10
    MaxPieces = 4
    MaxMails = 2
INVARIANTS
    IInv
    StoredMailsWereAccepted
    ShortMailsCanBeFetched
PROPERTIES
    MailsAreWhatWasTyped
    CommandsAreAnswered

---------------------------- MODULE MCFtpSession ----------------------------
(* Instances of FtpSession: each client uses a few of the commands.        *)
EXTENDS FtpSession

\* a client that uses one command of each kind
DialogueCmds == {"NOOP", "CWD", "RNFR", "RNTO", "STAT", "RETR", "LIST", "PORT", "PASV",
                 "EPSV", "REST", "USER", "PASS", "ABOR", "QUIT", "WRONG", "ILLEGAL",
                 "BLANK", "AUTH", "PROT"}
\* Nothing is promised once a command was overtaken, until another session begins.
UntilOvertaken == ~st.overtaken
\* a client that logs in, lists, opens active data connections, aborts and mistypes
PatientCmds == {"USER", "PASS", "STAT", "PORT", "RETR", "ABOR", "BLANK"}
\* clients that meet what the code does not keep to
BlankCmds   == {"PASV", "RETR", "BLANK"}
LookupCmds  == {"PASV", "PORT", "ABOR"}
AbortCmds   == {"PASV", "PORT", "RETR", "ABOR"}
ListingCmds == {"STAT", "ILLEGAL"}
PassiveCmds == {"PASV", "RETR"}
UserCmds    == {"USER", "PASS"}
=============================================================================

---------------------------- MODULE FtpDialogue ----------------------------
(***************************************************************************)
(* What an FTP control connection promises its client, whatever runs       *)
(* behind it: one command at a time, the next one begun only after the     *)
(* final reply to the last, and for a transfer at most one preliminary     *)
(* reply (150) before the final one.                                       *)
(***************************************************************************)
CONSTANTS Commands, TransferCommands, None

VARIABLES
    command,   \* the command that has been begun and not answered, or None
    marked,    \* its preliminary reply has been sent
    closed     \* the session is over: nothing more is promised

dialogue == <<command, marked, closed>>

Init == command = None /\ marked = FALSE /\ closed = FALSE

Receive(c) ==
    /\ ~closed /\ command = None
    /\ command' = c
    /\ UNCHANGED <<marked, closed>>

Mark ==
    /\ ~closed /\ ~marked /\ command \in TransferCommands
    /\ marked' = TRUE
    /\ UNCHANGED <<command, closed>>

Answer ==
    /\ ~closed /\ command # None
    /\ command' = None /\ marked' = FALSE
    /\ UNCHANGED closed

Close ==
    /\ ~closed
    /\ command' = None /\ marked' = FALSE /\ closed' = TRUE

(* The connection is gone; the next one starts afresh.                     *)
Renew == closed /\ closed' = FALSE /\ UNCHANGED <<command, marked>>

Next == (\E c \in Commands : Receive(c)) \/ Mark \/ Answer \/ Close \/ Renew

Spec == Init /\ [][Next]_dialogue
=============================================================================

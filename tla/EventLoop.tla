----------------------------- MODULE EventLoop ------------------------------
(* The event loop of libfilezilla, as far as the components use it whose    *)
(* handlers run on one: its queue is a sequence, and an event handler, or   *)
(* what it belongs to, takes its events off when it goes.                   *)
EXTENDS Integers, Sequences

(* event_loop::filter_events: the queue without the events to be dropped.   *)
Filtered(s, dropped) ==
    LET kept[i \in Nat] == IF i = 0 THEN <<>>
                           ELSE IF s[i] \in dropped THEN kept[i - 1]
                           ELSE Append(kept[i - 1], s[i])
    IN kept[Len(s)]
=============================================================================

---------------------------- MODULE MCKeepAlive ----------------------------
EXTENDS KeepAlive

Texts(on, every, backoff, hours) ==
    [enabled |-> on, interval |-> every, backoff |-> backoff, window |-> hours]

(* A day has eight minutes.  Always on without a window and by the         *)
(* defaults; in a window around midnight, with an interval of zero and a   *)
(* back-off below zero; off, with a window that matters to a pass which    *)
(* finds the switch still on.                                              *)
MCPanels ==
    {Texts(Yes, Unset, Junk, Blank),
     Texts(Yes, 0, -1, <<7, 6>>),
     Texts(Blank, Junk, 0, <<2, 4>>)}

=============================================================================

--------------------------- MODULE MessageChannel ---------------------------
(***************************************************************************)
(* What Protocol promises of one direction of a connection (Protocol.h:12  *)
(* and :15, whole messages are read and sent): the receiver gets the       *)
(* messages that were sent, unchanged, once, in order and without gaps,    *)
(* until it ends the connection; what is under way then is lost.           *)
(***************************************************************************)
EXTENDS Naturals, Sequences

CONSTANTS Message, MaxMessages

VARIABLES sent, delivered, open

vars == <<sent, delivered, open>>

Init ==
    /\ sent = << >>
    /\ delivered = << >>
    /\ open = TRUE

Send(m) ==
    /\ Len(sent) < MaxMessages
    /\ sent' = Append(sent, m)
    /\ UNCHANGED <<delivered, open>>

Deliver ==
    /\ open
    /\ Len(delivered) < Len(sent)
    /\ delivered' = Append(delivered, sent[Len(delivered) + 1])
    /\ UNCHANGED <<sent, open>>

Close ==
    /\ open
    /\ open' = FALSE
    /\ UNCHANGED <<sent, delivered>>

Next == (\E m \in Message : Send(m)) \/ Deliver \/ Close

Spec == Init /\ [][Next]_vars

=============================================================================

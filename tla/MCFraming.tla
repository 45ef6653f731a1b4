----------------------------- MODULE MCFraming ------------------------------
(***************************************************************************)
(* Framing with headers of two bytes and a request of each kind.           *)
(***************************************************************************)
EXTENDS Framing

Plain(len) == [bodylen |-> len, noack |-> FALSE, known |-> TRUE,
               answers |-> 1, frees |-> FALSE]

Quiet == [Plain(1) EXCEPT !.noack = TRUE]
Unknown == [Plain(0) EXCEPT !.known = FALSE]
FailedUnsubscribe == [Plain(1) EXCEPT !.answers = 2]
Disconnect == [Plain(0) EXCEPT !.answers = 0, !.frees = TRUE]
TooLong == Plain(MaxBody + 1)

MCKinds == {Plain(0), Plain(3), Quiet, Unknown, FailedUnsubscribe, Disconnect,
            TooLong}
=============================================================================

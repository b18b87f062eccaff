---------------------------- MODULE BodyTransfer ----------------------------
(***************************************************************************)
(* What an application is promised about the bodies of the requests of one *)
(* connection: it is given the body a client sends, all of it, in order    *)
(* and once, and learns that it has it only then.                          *)
(***************************************************************************)
EXTENDS Naturals, Sequences

CONSTANT Bodies      \* the bodies clients send

VARIABLES want,      \* the body of the current request
          given,     \* what the application was given of it
          complete   \* was the application told that this is all?

Init == want \in Bodies /\ given = <<>> /\ complete = FALSE

\* Another piece of the body.
Piece ==
  /\ ~complete
  /\ \E n \in Len(given) + 1 .. Len(want) : given' = SubSeq(want, 1, n)
  /\ UNCHANGED <<want, complete>>

\* The end of a body of which all pieces were given.
End == /\ ~complete /\ given = want
       /\ complete' = TRUE
       /\ UNCHANGED <<want, given>>

\* A body that comes as a whole, or a request without one.
Whole == /\ ~complete /\ given = <<>>
         /\ given' = want /\ complete' = TRUE
         /\ UNCHANGED want

\* The request is answered; the client sends the next one.
NextRequest == /\ complete
               /\ given' = <<>> /\ complete' = FALSE
               /\ want' \in Bodies

Next == Piece \/ End \/ Whole \/ NextRequest

Spec == Init /\ [][Next]_<<want, given, complete>>
=============================================================================

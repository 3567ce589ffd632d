------------------------------ MODULE KeyQueue ------------------------------
(***************************************************************************)
(* What the ring of the keyboard promises the game as long as it never     *)
(* overruns: the characters come out once each, in the order they were     *)
(* typed, and at most Room of them are kept. After an overrun it promises  *)
(* nothing.                                                                *)
(***************************************************************************)
EXTENDS Naturals, Sequences

CONSTANTS Chars,   \* what can be typed
          Room,    \* how many characters are kept
          Nothing  \* no character

VARIABLES pending, \* typed and not yet taken, the oldest first
          taken,   \* the character that the game is about to get
          overrun

KeyVars == <<pending, taken, overrun>>

Init == pending = << >> /\ taken = Nothing /\ overrun = FALSE

Type(ch) ==
  /\ ~overrun /\ Len(pending) < Room
  /\ pending' = Append(pending, ch) /\ UNCHANGED <<taken, overrun>>

Take ==
  /\ ~overrun /\ pending # << >> /\ taken = Nothing
  /\ taken' = Head(pending) /\ pending' = Tail(pending) /\ UNCHANGED overrun

Give == taken # Nothing /\ taken' = Nothing /\ UNCHANGED <<pending, overrun>>

Overrun ==
  /\ ~overrun /\ Len(pending) = Room
  /\ pending' = << >> /\ taken' = Nothing /\ overrun' = TRUE

Next == (\E ch \in Chars : Type(ch)) \/ Take \/ Give \/ Overrun

Spec == Init /\ [][Next]_KeyVars
=============================================================================

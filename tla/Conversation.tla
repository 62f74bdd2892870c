---------------------------- MODULE Conversation ----------------------------
(***************************************************************************)
(* What a Session promises its callers, with no goroutines, locks, tokens  *)
(* or pending flags in sight: questions are answered one at a time; an     *)
(* answered turn joins the conversation, of which the last MaxRounds turns *)
(* are remembered; clearing forgets what was said and what is being said;  *)
(* closing lets the current question be the last.                          *)
(***************************************************************************)
EXTENDS Integers, Sequences

CONSTANT MaxRounds

VARIABLES
  convo,   \* the turns remembered, each with the turn it was based on
  begun,   \* questions begun so far; the last of them is the current one
  busy,    \* a question is being answered
  forget,  \* the conversation was cleared while the question is answered
  status   \* "open", "closing" (after the current question) or "closed"

convVars == <<convo, begun, busy, forget, status>>

Window(h) == IF Len(h) > MaxRounds THEN SubSeq(h, Len(h) - MaxRounds + 1, Len(h)) ELSE h

Latest(h) == IF h = <<>> THEN 0 ELSE h[Len(h)].id

ConvInit ==
  /\ convo = <<>> /\ begun = 0 /\ busy = FALSE /\ forget = FALSE /\ status = "open"

Begin ==
  /\ ~busy
  /\ status = "open"
  /\ busy' = TRUE
  /\ begun' = begun + 1
  /\ UNCHANGED <<convo, forget, status>>

Finish(ok) ==
  /\ busy
  /\ convo' = IF forget THEN <<>>
              ELSE IF ok THEN Window(Append(convo, [id |-> begun, basis |-> Latest(convo)]))
              ELSE convo
  /\ busy' = FALSE
  /\ forget' = FALSE
  /\ status' = IF status = "closing" THEN "closed" ELSE status
  /\ UNCHANGED begun

Forget ==
  /\ status # "closed"
  /\ IF busy THEN forget' = TRUE /\ UNCHANGED convo
             ELSE convo' = <<>> /\ UNCHANGED forget
  /\ UNCHANGED <<begun, busy, status>>

Shut ==
  /\ status' = IF busy THEN "closing" ELSE "closed"
  /\ UNCHANGED <<convo, begun, busy, forget>>

ConvNext == Begin \/ (\E ok \in BOOLEAN : Finish(ok)) \/ Forget \/ Shut

ConvSpec == ConvInit /\ [][ConvNext]_convVars
=============================================================================

----------------------------- MODULE ChatThreads -----------------------------
(***************************************************************************)
(* What the chat playground of the admin pages promises, without tabs,     *)
(* polls or storage formats: every conversation is a sequence of turns, at *)
(* most its last turn is being generated, by one generation, and an answer *)
(* settles the turn it was asked for.  A reload goes back to what was      *)
(* saved last and ends every generation; a turn it interrupts stays open.  *)
(***************************************************************************)
EXTENDS Naturals, Sequences

CONSTANTS Chats, Runs, NoRun

VARIABLES
  turns,   \* chat |-> its turns: the generation asked, and whether it settled
  gen,     \* chat |-> the generation at work on its last turn, or NoRun
  saved    \* the turns a reload brings back

Turn    == [of : Runs, open : BOOLEAN]
Opened(r) == [of |-> r, open |-> TRUE]
Nobody  == [c \in Chats |-> NoRun]
Fresh(r) == \A c \in Chats : gen[c] # r /\ \A k \in DOMAIN turns[c] : turns[c][k].of # r

Init ==
  /\ turns = [c \in Chats |-> << >>]
  /\ gen = Nobody
  /\ saved = turns

\* Whatever a step does, it may save the outcome.
MaySave == saved' \in {saved, turns'}

\* A question opens a new turn in a conversation that has no generation.
Ask(c, r) ==
  /\ gen[c] = NoRun /\ Fresh(r)
  /\ turns' = [turns EXCEPT ![c] = Append(@, Opened(r))]
  /\ gen' = [gen EXCEPT ![c] = r]

\* The last turn is generated again; its answer is dropped.
Again(c, r) ==
  /\ gen[c] = NoRun /\ Fresh(r) /\ turns[c] # << >>
  /\ turns' = [turns EXCEPT ![c][Len(turns[c])] = Opened(r)]
  /\ gen' = [gen EXCEPT ![c] = r]

\* A generation ends, in a text, a picture, an error or a stop.
Settle(c) ==
  /\ gen[c] # NoRun
  /\ turns[c] # << >> /\ turns[c][Len(turns[c])] = Opened(gen[c])
  /\ turns' = [turns EXCEPT ![c][Len(turns[c])].open = FALSE]
  /\ gen' = [gen EXCEPT ![c] = NoRun]

\* A conversation is closed, and what it was generating is of no use.
Close(c) ==
  /\ turns' = [turns EXCEPT ![c] = << >>]
  /\ gen' = [gen EXCEPT ![c] = NoRun]

Touch  == UNCHANGED <<turns, gen>>
Reload == turns' = saved /\ gen' = Nobody

Next ==
  \/ /\ \E c \in Chats : Settle(c) \/ Close(c) \/ \E r \in Runs : Ask(c, r) \/ Again(c, r)
     /\ MaySave
  \/ (Touch \/ Reload) /\ MaySave

Spec == Init /\ [][Next]_<<turns, gen, saved>>
=============================================================================

------------------------------ MODULE MCUplinks ------------------------------
(***************************************************************************)
(* Uplinks for TLC: up to three addresses; files that swap, re-weight,     *)
(* repeat or lack addresses; a name that moves, is reordered, or moves     *)
(* back.  A behaviour is of one scenario, each with bounds of its own.     *)
(***************************************************************************)
EXTENDS Uplinks

CONSTANTS A, B, C

VARIABLE scenario

Line(ip, w) == [ip |-> ip, weight |-> w]
MCFiles == {
  <<Line(A, 2), Line(B, 3)>>,
  <<Line(B, 9), Garbage, Line(C, 7)>>,
  <<Garbage>> }
MCAnswers == {<<1>>, <<2, 1>>, <<2>>}

\* REG3s in the channel, while reloads take the first address away and add it again,
\* at the end: the positions of the links shift.
Grants == INSTANCE Uplinks WITH
  Files <- {<<Line(A, 1), Line(B, 1)>>, <<Line(B, 1)>>}, Answers <- {<<1>>}, MaxMoves <- 0, MaxChan <- 2

\* Readers that end, and an address named twice.
Ending == INSTANCE Uplinks WITH
  Files <- {<<Line(A, 0), Line(B, 1)>>, <<Line(B, 9), Line(B, 2), Line(C, 7)>>}, Answers <- {<<1>>},
  MaxGen <- 1, MaxMoves <- 0, ReadersEnd <- TRUE

MCInit ==
  \/ scenario = "reload" /\ Init
  \/ scenario = "grants" /\ Grants!Init
  \/ scenario = "ending" /\ Ending!Init

MCNext ==
  /\ UNCHANGED scenario
  /\ \/ scenario = "reload" /\ Next
     \/ scenario = "grants" /\ Grants!Next
     \/ scenario = "ending" /\ Ending!Next

MCSpec ==
  /\ MCInit /\ [][MCNext]_<<scenario, vars>>
  /\ WF_<<scenario, vars>>(UNCHANGED scenario /\ scenario = "ending" /\ Ending!CalmTick)
=============================================================================

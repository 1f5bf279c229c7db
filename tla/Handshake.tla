------------------------------ MODULE Handshake ------------------------------
(***************************************************************************)
(* How the sender learns the SRT latency: handshakes of the SRT peer cross *)
(* the bond in the clear, parse_srt_handshake_latency walks the extension  *)
(* blocks of each, and the uplink handler keeps the receive delay that a   *)
(* response declares.                                                      *)
(*                                                                         *)
(* A word is the pair of its 16-bit halves.  The model has the extension   *)
(* area of a packet; of the fixed part before it only what the parser      *)
(* tests: the version, the request type and the extension flag.  A packet  *)
(* may be cut, and any block may come before the one that matters.         *)
(***************************************************************************)
EXTENDS Naturals, Sequences, SequencesExt

CONSTANTS
  Delays,      \* pairs of a receive and a send delay, in ms
  MaxBlocks,   \* blocks of a handshake
  MaxCut       \* words the wire takes off its end

HsReq == 1      \* SRT_HS_EXT_CMD_HSREQ
HsRsp == 2      \* SRT_HS_EXT_CMD_HSRSP
OtherCmd == 5   \* stream ID, key material, congestion, filter, group
HsReqWords == 3 \* SRT_HS_EXT_HSREQ_WORDS

HandshakeAssumption ==
  Delays \subseteq Nat \X Nat /\ MaxBlocks \in Nat /\ MaxCut \in Nat

\* Blocks as a peer writes them: a spec word and a body, which for the other
\* commands may look like anything.
Extensions ==
  {<<<<cmd, 3>>, <<1, 5>>, <<0, flags>>, d>> : cmd \in {HsReq, HsRsp}, flags \in 0..3, d \in Delays}
Strange == {<<<<HsRsp, 2>>, <<1, 5>>, <<0, 3>>>>}
Others ==
  LET body == {<<HsRsp, 3>>, <<0, 2>>}
  IN  {<<<<OtherCmd, 0>>>>} \union {<<<<OtherCmd, 1>>, w>> : w \in body}
      \union {<<<<OtherCmd, 2>>, v, w>> : v, w \in body}
Blocks == Extensions \union Strange \union Others

VARIABLES
  words,    \* the extension area being walked, as it arrived
  at,       \* the next word, 0 between handshakes
  latency,  \* negotiated_latency_ms, 0 when nothing was learned
  declared  \* history: what the last response that declared it said

vars == <<words, at, latency, declared>>

-----------------------------------------------------------------------------
\* SRT_HS_OPT_TSBPDRCV is bit 1 of the flags.
Tsbpd(flags) == flags \div 2 % 2 = 1

\* An Option is a set, empty for None: a declared delay may be 0.
RcvSend(flags, delay) == IF Tsbpd(flags) THEN {delay[2]} ELSE {}
Rcv(flags, delay) == IF Tsbpd(flags) THEN {delay[1]} ELSE {}

UnwrapOr(option, x) == IF option = {} THEN x ELSE CHOOSE d \in option : TRUE

\* What the first handshake block, if it is whole, declares as a response.
Declares(blocks, size) ==
  LET mine == {k \in DOMAIN blocks : blocks[k][1][1] \in {HsReq, HsRsp}}
      k == CHOOSE n \in mine : \A o \in mine : n <= o
      whole == Len(FlattenSeq(SubSeq(blocks, 1, k))) <= size
      b == blocks[k]
  IN  IF mine = {} \/ ~whole \/ b[1][1] = HsReq \/ Len(b) <= HsReqWords \/ ~Tsbpd(b[3][2])
      THEN {} ELSE {b[4][1]}

Conclusion(h) == h.version5 /\ h.conclusion /\ h.hsreq

\* A handshake arrives and its fixed part is looked at.
Arrive(h, cut) ==
  LET all == FlattenSeq(h.blocks)
  IN  /\ at = 0 /\ cut <= Len(all)
      /\ IF Conclusion(h)
         THEN /\ words' = SubSeq(all, 1, Len(all) - cut) /\ at' = 1
              /\ declared' = UnwrapOr(Declares(h.blocks, Len(all) - cut), declared)
         ELSE UNCHANGED <<words, at, declared>>
      /\ UNCHANGED latency

PastBlock(n) == n + 1

Whole == at \in 1 .. Len(words) /\ at + words[at][2] <= Len(words)
Mine == words[at][1] \in {HsReq, HsRsp}

Leave == at' = 0 /\ words' = <<>> /\ UNCHANGED declared

SkipBlock ==
  /\ Whole /\ ~Mine
  /\ at' = at + PastBlock(words[at][2])
  /\ UNCHANGED <<words, latency, declared>>

\* The block that was looked for, kept if it is a response.
ReadBlock ==
  /\ Whole /\ Mine /\ words[at][2] >= HsReqWords
  /\ LET rcv == Rcv(words[at + 2][2], words[at + 3])
     IN  latency' = IF words[at][1] = HsRsp THEN UnwrapOr(rcv, latency) ELSE latency
  /\ Leave

\* No block is left, or it is cut off, or too short.
GiveUp ==
  /\ at # 0
  /\ Whole => Mine /\ words[at][2] < HsReqWords
  /\ Leave /\ UNCHANGED latency

Init == words = <<>> /\ at = 0 /\ latency = 0 /\ declared = 0

Handshakes ==
  [version5 : BOOLEAN, conclusion : BOOLEAN, hsreq : BOOLEAN, blocks : BoundedSeq(Blocks, MaxBlocks)]

Next ==
  \/ at = 0 /\ \E h \in Handshakes, cut \in 0..MaxCut : Arrive(h, cut)
  \/ SkipBlock \/ ReadBlock \/ GiveUp

Spec == Init /\ [][Next]_vars

-----------------------------------------------------------------------------
\* The walk never steps over the end of what arrived.
TypeOK == at \in 0 .. Len(words) + 1 /\ latency \in Nat /\ declared \in Nat

\* Between handshakes the sender works with the receive delay that the last response
\* declared, wherever its block stood among the others, and with nothing else: not
\* with a proposal, a send delay, an undeclared value, the body of another block or
\* a packet that was cut.
LatencyMeant == at = 0 => latency = declared
=============================================================================

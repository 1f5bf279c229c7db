--------------------------- MODULE ControlProofs ---------------------------
(***************************************************************************)
(* What the control plane tells a client, for any number of clients and    *)
(* any limits: the timeout stays within its limits, an answer holds until  *)
(* another client sets the field, and get_status agrees with it.           *)
(*                                                                         *)
(* An answer is prepared before it is sent, and a status is loaded field   *)
(* by field, so the invariant speaks of both halves: a result that nobody  *)
(* has overtaken is in force, and what a status has loaded so far is what  *)
(* its client was told.                                                    *)
(*                                                                         *)
(* Claims of the DNS-drift warning slot are an interval apart, for any     *)
(* number of tasks and any interval.  The compare-exchange is what makes   *)
(* it so: a task that is about to exchange has checked its own time        *)
(* against the value it loaded, and the exchange succeeds only if that     *)
(* value is still the last claim.                                          *)
(*                                                                         *)
(* No wakeup is lost at a socket that the event loop and a reader share,   *)
(* for any sizes of batches and buffers.  A guard is cleared only if the   *)
(* driver has delivered no event since it was taken, so the readiness that *)
(* is cleared is one the kernel does not have any more.                    *)
(***************************************************************************)
EXTENDS SharedAtomics, Sequences, TLAPS

Pending == [field : Fields \union {"none"}, value : Int, own : BOOLEAN]

Types ==
  /\ cfg \in [Fields -> Int]
  /\ pending \in [Clients -> Pending]
  /\ told \in [Clients -> [Requested -> Int]]
  /\ reading \in [Readers -> [Fields -> Int]]
  /\ asking \in SUBSET Clients

\* A client that is in a status call, or in none, has no result to be answered.
Calls ==
  /\ \A c \in Clients : pending[c].field = "none" => pending[c] = NoResult
  /\ \A c \in Clients : pending[c].field # "none" => pending[c].field \in Requested
  /\ \A c \in asking : pending[c] = NoResult
  /\ \A c \in Clients \ asking : reading[c] = NotLoaded

ResultInForce ==
  \A c \in Clients :
    pending[c].field # "none" /\ pending[c].own => cfg[pending[c].field] = pending[c].value

StatusAgrees ==
  \A c \in asking, f \in Requested :
    reading[c][f] # None /\ told[c][f] # None => reading[c][f] = told[c][f]

IInv == Types /\ TypeOK /\ Calls /\ ResultInForce /\ TrustReply /\ StatusAgrees

-----------------------------------------------------------------------------
(* What the constants give.                                                *)
LEMMA ConstantTypes ==
  /\ "none" \notin Fields /\ Requested \subseteq Fields /\ "latency" \notin Requested
  /\ Loop \in Readers /\ Loop \notin Clients /\ Clients \subseteq Readers
  /\ None \in Int /\ NotParsed \in Int
  /\ TimeoutMin \in Nat /\ TimeoutMax \in Nat /\ TimeoutMin <= TimeoutMax
  /\ Timeouts \subseteq Nat /\ Latencies \subseteq Nat
  /\ NoResult \in Pending /\ NoResult.field = "none"
  /\ NotLoaded \in [Fields -> Int] /\ \A f \in Fields : NotLoaded[f] = None
BY ControlAssumption DEF Requested, Loop, Readers, None, NotParsed, NoResult, Pending, NotLoaded

(* A value that is set is clamped into the limits of its field.            *)
LEMMA AppliedInForce ==
  ASSUME NEW f \in Requested, NEW v \in Args(f)
  PROVE  Applied(f, v) \in InForce(f) /\ Applied(f, v) \in Int
<1>1. CASE f = "timeout"
  <2>1. v \in Nat BY <1>1, ConstantTypes DEF Args
  <2> QED BY <1>1, <2>1, ConstantTypes DEF Applied, Clamp, InForce
<1>2. CASE f # "timeout"
  <2>1. v \in {0, 1} BY <1>2 DEF Args
  <2>2. f # "latency" BY ConstantTypes
  <2>3. InForce(f) = {0, 1} BY <1>2, <2>2 DEF InForce
  <2> QED BY <1>2, <2>1, <2>3 DEF Applied
<1> QED BY <1>1, <1>2

LEMMA InForceInt == \A f \in Fields : InForce(f) \subseteq Int
BY ConstantTypes DEF InForce

LEMMA InitIInv == Init => IInv
<1> SUFFICES ASSUME Init PROVE IInv OBVIOUS
<1>1. \A f \in Fields : cfg[f] \in InForce(f)
  <2> SUFFICES ASSUME NEW f \in Fields PROVE cfg[f] \in InForce(f) OBVIOUS
  <2>1. cfg[f] \in FromCli(f) BY DEF Init
  <2>2. CASE f = "latency" BY <2>1, <2>2 DEF FromCli, InForce
  <2>3. CASE f # "latency"
    <3>1. f \in Requested BY <2>3 DEF Requested
    <3>2. PICK typed \in Args(f) \union {None}, file \in Args(f) :
            cfg[f] = Applied(f, ApplyConfigFile(typed, file))
      BY <2>1, <2>3 DEF FromCli
    <3>3. ApplyConfigFile(typed, file) \in Args(f) BY DEF ApplyConfigFile
    <3> QED BY <3>1, <3>2, <3>3, AppliedInForce
  <2> QED BY <2>2, <2>3
<1>2. cfg \in [Fields -> Int]
  <2>1. cfg = [f \in Fields |-> cfg[f]] BY DEF Init
  <2> QED BY <1>1, <2>1, InForceInt
<1>3. Types BY <1>2, ConstantTypes DEF Init, Types
<1>4. TypeOK BY <1>1, ConstantTypes DEF Init, TypeOK
<1>5. Calls BY ConstantTypes DEF Init, Calls, Readers
<1>6. ResultInForce /\ TrustReply /\ StatusAgrees
  BY ConstantTypes DEF Init, ResultInForce, TrustReply, StatusAgrees
<1> QED BY <1>3, <1>4, <1>5, <1>6 DEF IInv

-----------------------------------------------------------------------------
(* A request: a refused one changes nothing; otherwise the field has a new *)
(* value, nobody is told of it yet, and results that waited are overtaken. *)
LEMMA HandleSetIInv ==
  ASSUME IInv, NEW c \in Clients, NEW f \in Requested, NEW v \in Args(f) \union {NotParsed},
         NEW id \in BOOLEAN, HandleSet(c, f, v, id)
  PROVE  IInv'
<1>1. Types /\ TypeOK /\ Calls /\ ResultInForce /\ TrustReply /\ StatusAgrees BY DEF IInv
<1>2. UNCHANGED <<reading, asking, snap>> /\ Idle(c) BY SMTT(30) DEF HandleSet
<1>3. CASE v = NotParsed
  <2>1. UNCHANGED <<cfg, pending, told>> BY <1>3 DEF HandleSet
  <2> QED BY <1>1, <1>2, <2>1
          DEF IInv, Types, TypeOK, Calls, ResultInForce, TrustReply, StatusAgrees
<1>4. CASE v # NotParsed
  <2> DEFINE a == Applied(f, v)
             res == [field |-> f, value |-> a, own |-> TRUE]
  <2>1. v \in Args(f) BY <1>4
  <2>2. a \in InForce(f) /\ a \in Int BY <2>1, AppliedInForce
  <2>3. /\ cfg' = [cfg EXCEPT ![f] = a]
        /\ told' = [d \in Clients |-> [told[d] EXCEPT ![f] = None]]
        /\ pending' = [d \in Clients |-> IF d = c /\ id THEN res ELSE Overtaken(d, f)]
    BY <1>4 DEF HandleSet, Becomes, Echo
  <2>4. res \in Pending /\ res.field = f /\ res.value = a
    BY <2>2, ConstantTypes DEF Pending
  <2> HIDE DEF a, res
  <2>5. f \in Fields /\ f # "none" BY ConstantTypes
  <2>6. \A d \in Clients : /\ Overtaken(d, f) \in Pending
                           /\ Overtaken(d, f).field = pending[d].field
                           /\ Overtaken(d, f).value = pending[d].value
                           /\ Overtaken(d, f).own => pending[d].own /\ pending[d].field # f
                           /\ pending[d].field = "none" => Overtaken(d, f) = pending[d]
    <3> SUFFICES ASSUME NEW d \in Clients
                 PROVE  /\ Overtaken(d, f) \in Pending
                        /\ Overtaken(d, f).field = pending[d].field
                        /\ Overtaken(d, f).value = pending[d].value
                        /\ Overtaken(d, f).own => pending[d].own /\ pending[d].field # f
                        /\ pending[d].field = "none" => Overtaken(d, f) = pending[d]
      BY Zenon
    <3>1. pending[d] \in Pending BY <1>1 DEF Types
    <3> QED BY <2>5, <3>1, Zenon DEF Overtaken, Pending
  <2>7. Types'
    <3>1. cfg' \in [Fields -> Int] BY <1>1, <2>2, <2>3, Zenon DEF Types
    <3>2. pending' \in [Clients -> Pending] BY <2>3, <2>4, <2>6
    <3>3. told' \in [Clients -> [Requested -> Int]] BY <1>1, <2>3, ConstantTypes DEF Types
    <3> QED BY <1>1, <1>2, <3>1, <3>2, <3>3 DEF Types
  <2>8. TypeOK' BY <1>1, <1>2, <2>2, <2>3 DEF TypeOK, Types
  <2>9. pending[c] = NoResult /\ c \notin asking BY <1>2 DEF Idle
  <2>10. Calls'
    <3>1. \A d \in Clients : pending'[d].field = "none" => pending'[d] = NoResult
      BY <1>1, <2>3, <2>4, <2>5, <2>6, SMTT(30) DEF Calls
    <3>2. \A d \in Clients : pending'[d].field # "none" => pending'[d].field \in Requested
      BY <1>1, <2>3, <2>4, <2>6, SMTT(30) DEF Calls
    <3>3. \A d \in asking : pending'[d] = NoResult
      BY <1>1, <2>3, <2>6, <2>9, ConstantTypes DEF Calls, Types
    <3> QED BY <1>1, <1>2, <3>1, <3>2, <3>3 DEF Calls
  <2>11. ResultInForce'
    <3> SUFFICES ASSUME NEW d \in Clients, pending'[d].field # "none", pending'[d].own
                 PROVE  cfg'[pending'[d].field] = pending'[d].value
      BY DEF ResultInForce
    <3>1. CASE d = c /\ id BY <1>1, <2>3, <2>4, <2>5, <3>1, SMTT(30) DEF Types
    <3>2. CASE ~(d = c /\ id)
      <4>1. pending'[d] = Overtaken(d, f) BY <2>3, <3>2
      <4>2. pending[d].own /\ pending[d].field # f /\ pending[d].field # "none"
        BY <2>6, <4>1
      <4>3. pending[d].field \in Fields BY <1>1, <4>2, ConstantTypes DEF Calls
      <4>4. cfg'[pending[d].field] = cfg[pending[d].field] BY <1>1, <2>3, <4>2, <4>3 DEF Types
      <4> QED BY <1>1, <2>6, <4>1, <4>2, <4>4 DEF ResultInForce
    <3> QED BY <3>1, <3>2
  <2>12. \A d \in Clients, g \in Requested : told'[d][g] = IF g = f THEN None ELSE told[d][g]
    BY <1>1, <2>3 DEF Types
  <2>13. TrustReply'
    <3>1. \A g \in Requested : g # f => cfg'[g] = cfg[g]
      BY <1>1, <2>3, ConstantTypes, SMTT(30) DEF Types
    <3> QED BY <1>1, <2>12, <3>1 DEF TrustReply
  <2>14. StatusAgrees' BY <1>1, <1>2, <2>12 DEF StatusAgrees, Types
  <2> QED BY <2>7, <2>8, <2>10, <2>11, <2>13, <2>14 DEF IInv
<1> QED BY <1>3, <1>4

(* An answer: the result was in force if nobody had overtaken it.          *)
LEMMA AnswerIInv ==
  ASSUME IInv, NEW c \in Clients, Answer(c)
  PROVE  IInv'
<1>1. Types /\ TypeOK /\ Calls /\ ResultInForce /\ TrustReply /\ StatusAgrees BY DEF IInv
<1> DEFINE f == pending[c].field
           x == IF pending[c].own THEN pending[c].value ELSE None
<1>2. /\ pending[c] # NoResult /\ told' = [told EXCEPT ![c][f] = x]
      /\ pending' = [pending EXCEPT ![c] = NoResult]
      /\ UNCHANGED <<cfg, reading, asking, snap>>
  BY DEF Answer
<1>3. pending[c] \in Pending BY <1>1 DEF Types
<1>4. f # "none" /\ f \in Requested /\ c \notin asking BY <1>1, <1>2 DEF Calls
<1>5. x \in Int /\ (x # None => cfg[f] = x)
  BY <1>1, <1>3, <1>4, ConstantTypes DEF Pending, ResultInForce
<1> HIDE DEF f, x
<1>6. \A d \in Clients, g \in Requested :
        told'[d][g] = IF d = c /\ g = f THEN x ELSE told[d][g]
  BY <1>1, <1>2, <1>4 DEF Types
<1>7. Types'
  <2>1. told' \in [Clients -> [Requested -> Int]] BY <1>1, <1>2, <1>4, <1>5 DEF Types
  <2> QED BY <1>1, <1>2, <2>1, ConstantTypes DEF Types
<1>8. TypeOK' BY <1>1, <1>2 DEF TypeOK
<1>9. Calls' BY <1>1, <1>2, ConstantTypes, SMTT(30) DEF Calls, Types
<1>10. ResultInForce' BY <1>1, <1>2, ConstantTypes DEF ResultInForce, Types
<1>11. TrustReply' BY <1>1, <1>2, <1>5, <1>6, SMTT(30) DEF TrustReply
<1>12. StatusAgrees' BY <1>1, <1>2, <1>4, <1>6 DEF StatusAgrees, Types
<1> QED BY <1>7, <1>8, <1>9, <1>10, <1>11, <1>12 DEF IInv

(* A load by a client in a status call, or by the event loop.              *)
LEMMA LoadIInv ==
  ASSUME IInv, NEW r \in Readers, NEW f \in Fields, r \in asking \/ r = Loop, Load(r, f)
  PROVE  IInv'
<1>1. Types /\ TypeOK /\ Calls /\ ResultInForce /\ TrustReply /\ StatusAgrees BY DEF IInv
<1>2. reading' = [reading EXCEPT ![r][f] = cfg[f]] /\ UNCHANGED <<cfg, pending, asking, snap, told>>
  BY SMTT(30) DEF Load
<1>3. \A s \in Readers, g \in Fields :
        reading'[s][g] = IF s = r /\ g = f THEN cfg[f] ELSE reading[s][g]
  BY <1>1, <1>2 DEF Types
<1>4. Types' BY <1>1, <1>2 DEF Types
<1>5. TypeOK' BY <1>1, <1>2, <1>3 DEF TypeOK
<1>6. Calls'
  <2>1. \A c \in Clients \ asking : reading'[c] = reading[c]
    BY <1>1, <1>2, ConstantTypes DEF Types
  <2> QED BY <1>1, <1>2, <2>1 DEF Calls
<1>7. ResultInForce' /\ TrustReply' BY <1>1, <1>2, SMTT(30) DEF ResultInForce, TrustReply
<1>8. StatusAgrees'
  BY <1>1, <1>2, <1>3, ConstantTypes DEF StatusAgrees, TrustReply, Types
<1> QED BY <1>4, <1>5, <1>6, <1>7, <1>8 DEF IInv

(* The end of a status call and of a snapshot forgets what it loaded.      *)
LEMMA ForgetIInv ==
  ASSUME IInv, NEW r \in Readers, reading' = [reading EXCEPT ![r] = NotLoaded],
         asking' = asking \ {r}, UNCHANGED <<cfg, pending, told>>
  PROVE  IInv'
<1>1. Types /\ TypeOK /\ Calls /\ ResultInForce /\ TrustReply /\ StatusAgrees BY DEF IInv
<1>2. Types' BY <1>1, ConstantTypes DEF Types
<1>3. \A s \in Readers : reading'[s] = IF s = r THEN NotLoaded ELSE reading[s]
  BY <1>1, SMTT(30) DEF Types
<1>4. TypeOK' BY <1>1, <1>3, ConstantTypes, SMTT(30) DEF TypeOK
<1>5. Calls' BY <1>1, <1>3, ConstantTypes, SMTT(30) DEF Calls
<1>6. ResultInForce' /\ TrustReply' BY <1>1 DEF ResultInForce, TrustReply
<1>7. StatusAgrees' BY <1>1, <1>3, ConstantTypes DEF StatusAgrees, Types
<1> QED BY <1>2, <1>4, <1>5, <1>6, <1>7 DEF IInv

LEMMA StepIInv == IInv /\ [Next]_vars => IInv'
<1> SUFFICES ASSUME IInv, [Next]_vars PROVE IInv' OBVIOUS
<1>1. Types /\ TypeOK /\ Calls /\ ResultInForce /\ TrustReply /\ StatusAgrees BY DEF IInv
<1>2. ASSUME NEW c \in Clients, NEW f \in Requested, NEW id \in BOOLEAN,
             NEW v \in Args(f) \union {NotParsed}, HandleSet(c, f, v, id)
      PROVE  IInv'
  BY <1>2, HandleSetIInv
<1>3. ASSUME NEW c \in Clients, Answer(c) PROVE IInv' BY <1>3, AnswerIInv
<1>4. ASSUME NEW c \in Clients, GetStatus(c) PROVE IInv'
  <2>1. /\ pending[c] = NoResult /\ c \notin asking /\ asking' = asking \union {c}
        /\ UNCHANGED <<cfg, pending, reading, snap, told>>
    BY <1>4 DEF GetStatus, Idle
  <2>2. reading[c] = NotLoaded BY <1>1, <2>1, SMTT(30) DEF Calls
  <2>3. Types' /\ TypeOK' BY <1>1, <2>1 DEF Types, TypeOK
  <2>4. Calls' BY <1>1, <2>1, SMTT(30) DEF Calls
  <2>5. ResultInForce' /\ TrustReply' BY <1>1, <2>1, SMTT(30) DEF ResultInForce, TrustReply
  <2>6. StatusAgrees' BY <1>1, <2>1, <2>2, ConstantTypes DEF StatusAgrees
  <2> QED BY <2>3, <2>4, <2>5, <2>6 DEF IInv
<1>5. ASSUME NEW c \in Clients, c \in asking, NEW f \in Fields, Load(c, f) PROVE IInv'
  BY <1>5, LoadIInv, ConstantTypes
<1>6. ASSUME NEW c \in Clients, AnswerStatus(c) PROVE IInv'
  BY <1>6, ForgetIInv, ConstantTypes, Zenon DEF AnswerStatus
<1>7. ASSUME NEW f \in Fields, Load(Loop, f) PROVE IInv' BY <1>7, LoadIInv, ConstantTypes
<1>8. CASE TakeSnapshot
  <2>1. asking = asking \ {Loop} BY <1>1, ConstantTypes DEF Types
  <2> QED BY <1>8, <2>1, ForgetIInv, ConstantTypes, Zenon DEF TakeSnapshot
<1>9. ASSUME NEW ms \in Latencies, SetNegotiatedLatency(ms) PROVE IInv'
  <2>1. /\ cfg' = [cfg EXCEPT !["latency"] = ms]
        /\ UNCHANGED <<pending, reading, asking, told>>
    BY <1>9 DEF SetNegotiatedLatency, Becomes
  <2>2. ms \in InForce("latency") /\ ms \in Int BY ConstantTypes DEF InForce
  <2>3. \A f \in Requested : cfg'[f] = cfg[f] BY <1>1, <2>1, ConstantTypes DEF Types
  <2>4. Types' BY <1>1, <2>1, <2>2, Zenon DEF Types
  <2>5. TypeOK' BY <1>1, <2>1, <2>2, SMTT(30) DEF TypeOK, Types
  <2>6. Calls' /\ StatusAgrees' BY <1>1, <2>1, SMTT(30) DEF Calls, StatusAgrees
  <2>7. ResultInForce' /\ TrustReply'
    BY <1>1, <2>1, <2>3, SMTT(30) DEF ResultInForce, TrustReply, Calls
  <2> QED BY <2>4, <2>5, <2>6, <2>7 DEF IInv
<1>10. CASE UNCHANGED vars
  BY <1>1, <1>10, Zenon DEF vars, IInv, Types, TypeOK, Calls, ResultInForce, TrustReply,
                            StatusAgrees, Loaded
<1> QED BY <1>2, <1>3, <1>4, <1>5, <1>6, <1>7, <1>8, <1>9, <1>10 DEF Next, LoopStep

LEMMA AlwaysIInv == Spec => []IInv
BY InitIInv, StepIInv, PTL DEF Spec

-----------------------------------------------------------------------------
(* The connection timeout stays within CONN_TIMEOUT_MS_MIN and _MAX, and   *)
(* every other field within its values, from the command line, the file    *)
(* and any requests of any clients (DynamicConfig, handle_method).         *)
THEOREM ConfigInRange == Spec => []TypeOK
<1>1. IInv => TypeOK BY DEF IInv
<1> QED BY <1>1, AlwaysIInv, PTL

(* What handle_method answers to a client is in force until another client *)
(* sets the same field.                                                    *)
THEOREM AnswersHold == Spec => []TrustReply
<1>1. IInv => TrustReply BY DEF IInv
<1> QED BY <1>1, AlwaysIInv, PTL

(* No step makes an answer untrue, and get_status, loaded field by field   *)
(* beside the writers, never contradicts what its client was told and      *)
(* nobody has changed since.                                               *)
THEOREM StatusAgreesWithAnswers == Spec => AnswersTrue
<1> DEFINE Shown == \A c \in asking \ asking' : \A f \in Requested :
                      told[c][f] # None => Status(c)[f] = told[c][f]
<1>1. IInv /\ [Next]_vars => [Shown]_vars
  <2> SUFFICES ASSUME IInv, Next, NEW c \in asking \ asking', NEW f \in Requested,
                      told[c][f] # None
               PROVE  Status(c)[f] = told[c][f]
    BY DEF AnswersTrue
  <2>1. c \in Clients /\ StatusAgrees BY SMTT(30) DEF IInv, Types
  <2>2. Loaded(c)
    BY Zenon DEF Next, LoopStep, HandleSet, Answer, GetStatus, Load, AnswerStatus, TakeSnapshot,
           SetNegotiatedLatency
  <2>3. reading[c][f] # None BY <2>2, ConstantTypes DEF Loaded
  <2> QED BY <2>1, <2>3, SMTT(30) DEF StatusAgrees, Status
<1>2. IInv /\ [Next]_vars => TrustReply' BY StepIInv DEF IInv
<1>3. [Shown]_vars /\ TrustReply' => [TrustReply' /\ Shown]_vars OBVIOUS
<1> QED BY <1>1, <1>2, <1>3, AlwaysIInv, PTL DEF Spec, AnswersTrue

-----------------------------------------------------------------------------
(* The DNS-drift warning slot.                                            *)

TaskState == [at : {"idle", "lookup", "load", "swap"}, now : Nat, seen : Nat]

DriftTypes ==
  /\ clock \in Nat /\ last \in Nat
  /\ check \in [Tasks -> TaskState]
  /\ claims \in Seq(Nat)

\* The slot holds the last claim, and zero only before the first.
SlotIsLastClaim ==
  IF claims = <<>> THEN last = 0 ELSE last # 0 /\ last = claims[Len(claims)]

\* A task that may exchange is an interval after what it loaded.
CheckedLoad ==
  \A t \in Tasks :
    check[t].at = "swap" /\ check[t].seen # 0 => check[t].now >= check[t].seen + Interval

\* Every claim is followed by a warning.
ClaimsWarn == claims # <<>> => warned # {}

DriftInv == DriftTypes /\ SlotIsLastClaim /\ CheckedLoad /\ ClaimsWarn /\ Drift!ClaimsSpaced

LEMMA DriftInit == Drift!Init => DriftInv
<1> SUFFICES ASSUME Drift!Init PROVE DriftInv OBVIOUS
<1>1. Drift!Idle \in TaskState BY DEF Drift!Idle, TaskState
<1>2. DriftTypes BY <1>1 DEF Drift!Init, DriftTypes
<1>3. SlotIsLastClaim BY SMTT(30) DEF Drift!Init, SlotIsLastClaim
<1>4. CheckedLoad BY DEF Drift!Init, CheckedLoad, Drift!Idle
<1>5. Drift!ClaimsSpaced /\ ClaimsWarn BY DEF Drift!Init, Drift!ClaimsSpaced, ClaimsWarn
<1> QED BY <1>2, <1>3, <1>4, <1>5 DEF DriftInv

(* A claim that is an interval after the last one keeps the claims spaced. *)
\* A claim that is d after b is d after whatever came before b.
LEMMA StillApart ==
  ASSUME NEW a \in Nat, NEW b \in Nat, NEW n \in Nat, NEW d \in Nat, b >= a, n >= b + d
  PROVE  n >= a + d
OBVIOUS

LEMMA AppendSpaced ==
  ASSUME NEW c \in Seq(Nat), NEW n \in Nat,
         \A i, j \in 1..Len(c) : i < j => c[j] >= c[i] + Interval,
         c # <<>> => n >= c[Len(c)] + Interval
  PROVE  \A i, j \in 1..Len(Append(c, n)) : i < j => Append(c, n)[j] >= Append(c, n)[i] + Interval
<1> SUFFICES ASSUME NEW i \in 1..Len(Append(c, n)), NEW j \in 1..Len(Append(c, n)), i < j
             PROVE  Append(c, n)[j] >= Append(c, n)[i] + Interval
    BY Zenon
<1>1. /\ Len(c) \in Nat /\ Len(Append(c, n)) = Len(c) + 1
      /\ \A k \in 1..Len(c) : Append(c, n)[k] = c[k] /\ c[k] \in Nat
      /\ Append(c, n)[Len(c) + 1] = n
  BY SMTT(30)
<1>2. Interval \in Nat BY DriftAssumption DEF Drift!IntervalAssumption
<1>3. CASE j \in 1..Len(c)
  BY <1>1, <1>3
<1>4. CASE j = Len(c) + 1
  <2>1. i \in 1..Len(c) /\ Len(c) \in 1..Len(c) BY <1>1, <1>4, SMTT(30)
  <2>2. c # <<>> BY <2>1
  <2>3. n >= c[Len(c)] + Interval BY <2>2
  <2>4. c[Len(c)] >= c[i]
    <3>1. c[i] \in Nat /\ c[Len(c)] \in Nat BY <1>1, <2>1
    <3>2. CASE i = Len(c) BY <3>1, <3>2
    <3>3. CASE i < Len(c)
      <4>1. c[Len(c)] >= c[i] + Interval BY <2>1, <3>3
      <4>2. \A x, y, d \in Nat : x >= y + d => x >= y
        OBVIOUS
      <4> QED BY <1>2, <3>1, <4>1, <4>2, Zenon
    <3> QED BY <1>1, <2>1, <3>2, <3>3
  <2>5. Append(c, n)[j] = n /\ Append(c, n)[i] = c[i] /\ c[i] \in Nat /\ c[Len(c)] \in Nat
    BY <1>1, <1>4, <2>1
  <2>6. n >= c[i] + Interval BY <1>2, <2>3, <2>4, <2>5, StillApart, Zenon
  <2> QED BY <2>5, <2>6, Zenon
<1>5. j \in 1..Len(c) \/ j = Len(c) + 1 BY <1>1, SMTT(30)
<1> QED BY <1>3, <1>4, <1>5

LEMMA DriftStep ==
  ASSUME DriftInv, [Drift!Next]_Drift!vars
  PROVE  DriftInv'
<1>1. DriftTypes /\ SlotIsLastClaim /\ CheckedLoad /\ ClaimsWarn /\ Drift!ClaimsSpaced
  BY DEF DriftInv
<1> DEFINE Rest == SlotIsLastClaim' /\ ClaimsWarn' /\ Drift!ClaimsSpaced'
<1>2. Drift!Idle \in TaskState /\ Drift!Idle.at = "idle" BY DEF Drift!Idle, TaskState
<1>3. Interval \in Nat /\ Interval > 1 BY DriftAssumption DEF Drift!IntervalAssumption
<1>4. ASSUME NEW t \in Tasks, Drift!SpawnCheck(t) PROVE DriftInv'
  <2>1. [at |-> "lookup", now |-> clock, seen |-> 0] \in TaskState BY <1>1 DEF DriftTypes, TaskState
  <2>2. DriftTypes' BY <1>1, <1>4, <2>1, SMTT(30) DEF DriftTypes, Drift!SpawnCheck
  <2>3. CheckedLoad' BY <1>1, <1>4, SMTT(30) DEF CheckedLoad, Drift!SpawnCheck, DriftTypes
  <2>4. Rest BY <1>1, <1>4 DEF Drift!SpawnCheck, SlotIsLastClaim, ClaimsWarn, Drift!ClaimsSpaced
  <2> QED BY <2>2, <2>3, <2>4 DEF DriftInv
<1>5. ASSUME NEW t \in Tasks, NEW fresh \in SUBSET Addrs, Drift!Resolved(t, fresh) PROVE DriftInv'
  <2>1. [check[t] EXCEPT !.at = "load"] \in TaskState BY <1>1, SMTT(30) DEF DriftTypes, TaskState
  <2>2. DriftTypes' BY <1>1, <1>2, <1>5, <2>1 DEF DriftTypes, Drift!Resolved
  <2>3. CheckedLoad'
    BY <1>1, <1>2, <1>5, SMTT(30) DEF CheckedLoad, Drift!Resolved, DriftTypes, TaskState
  <2>4. Rest BY <1>1, <1>5 DEF Drift!Resolved, SlotIsLastClaim, ClaimsWarn, Drift!ClaimsSpaced
  <2> QED BY <2>2, <2>3, <2>4 DEF DriftInv
<1>6. ASSUME NEW t \in Tasks, Drift!ClaimLoad(t) PROVE DriftInv'
  <2> DEFINE x == [check[t] EXCEPT !.at = "swap", !.seen = last]
  <2>1. x \in TaskState /\ x.seen = last /\ x.now = check[t].now
    BY <1>1, Zenon DEF DriftTypes, TaskState
  <2>2. check' = [check EXCEPT ![t] =
           IF Drift!UsedRecently(check[t].now, last) THEN Drift!Idle ELSE x]
    BY <1>6 DEF Drift!ClaimLoad
  <2> HIDE DEF x
  <2>3. DriftTypes' BY <1>1, <1>2, <1>6, <2>1, <2>2 DEF DriftTypes, Drift!ClaimLoad
  <2>4. ~Drift!UsedRecently(check[t].now, last) /\ last # 0 => check[t].now >= last + Interval
    BY <1>1, <1>3 DEF Drift!UsedRecently, Drift!Since, DriftTypes, TaskState
  <2>5. CheckedLoad' BY <1>1, <1>2, <2>1, <2>2, <2>4 DEF CheckedLoad, DriftTypes
  <2>6. Rest BY <1>1, <1>6 DEF Drift!ClaimLoad, SlotIsLastClaim, ClaimsWarn, Drift!ClaimsSpaced
  <2> QED BY <2>3, <2>5, <2>6 DEF DriftInv
<1>7. ASSUME NEW t \in Tasks, Drift!ClaimSwap(t) PROVE DriftInv'
  <2>1. CASE /\ Drift!MaySwap(t) /\ last' = (IF check[t].now = 0 THEN 1 ELSE check[t].now)
             /\ claims' = Append(claims, last') /\ check' = [check EXCEPT ![t] = Drift!Idle]
             /\ warned' = warned \union {<<t, clock>>}
    <3>1. check[t].now \in Nat /\ last' \in Nat /\ last' # 0 BY <1>1, <2>1 DEF DriftTypes, TaskState
    <3>2. DriftTypes' BY <1>1, <1>2, <1>7, <2>1, <3>1 DEF DriftTypes, Drift!ClaimSwap
    <3>3. SlotIsLastClaim' BY <1>1, <2>1, <3>1 DEF SlotIsLastClaim, DriftTypes
    <3>4. CheckedLoad' BY <1>1, <1>2, <2>1 DEF CheckedLoad, DriftTypes
    <3>5. claims # <<>> => last' >= claims[Len(claims)] + Interval
      <4> SUFFICES ASSUME claims # <<>> PROVE last' >= claims[Len(claims)] + Interval OBVIOUS
      <4>1. last # 0 /\ last = claims[Len(claims)] BY <1>1 DEF SlotIsLastClaim
      <4>2. check[t].seen = last /\ check[t].at = "swap"
        BY <1>7, <2>1 DEF Drift!MaySwap, Drift!ClaimSwap
      <4>3. check[t].now >= last + Interval BY <1>1, <4>1, <4>2 DEF CheckedLoad
      <4> QED BY <1>1, <1>3, <2>1, <3>1, <4>1, <4>3, SMTT(30) DEF DriftTypes
    <3>6. Drift!ClaimsSpaced'
      <4>1. claims \in Seq(Nat) BY <1>1 DEF DriftTypes
      <4>2. \A i, j \in 1..Len(claims) : i < j => claims[j] >= claims[i] + Interval
        BY <1>1 DEF Drift!ClaimsSpaced
      <4>3. \A i, j \in 1..Len(Append(claims, last')) :
               i < j => Append(claims, last')[j] >= Append(claims, last')[i] + Interval
        BY <3>1, <3>5, <4>1, <4>2, AppendSpaced, Zenon
      <4> QED BY <2>1, <4>3, Zenon DEF Drift!ClaimsSpaced
    <3>7. ClaimsWarn' BY <2>1, Zenon DEF ClaimsWarn
    <3> QED BY <3>2, <3>3, <3>4, <3>6, <3>7 DEF DriftInv
  <2>2. CASE check' = [check EXCEPT ![t].at = "load"] /\ UNCHANGED <<last, claims, warned>>
    <3>1. [check[t] EXCEPT !.at = "load"] \in TaskState BY <1>1, SMTT(30) DEF DriftTypes, TaskState
    <3>2. DriftTypes' BY <1>1, <1>7, <2>2, <3>1 DEF DriftTypes, Drift!ClaimSwap
    <3>3. CheckedLoad' BY <1>1, <2>2 DEF CheckedLoad, DriftTypes, TaskState
    <3>4. Rest BY <1>1, <2>2 DEF SlotIsLastClaim, ClaimsWarn, Drift!ClaimsSpaced
    <3> QED BY <3>2, <3>3, <3>4 DEF DriftInv
  <2> QED BY <1>7, <2>1, <2>2 DEF Drift!ClaimSwap
<1>8. CASE Drift!Elapse
  <2>1. DriftTypes' /\ CheckedLoad' BY <1>1, <1>8 DEF Drift!Elapse, DriftTypes, CheckedLoad
  <2>2. Rest BY <1>1, <1>8 DEF Drift!Elapse, SlotIsLastClaim, ClaimsWarn, Drift!ClaimsSpaced
  <2> QED BY <2>1, <2>2 DEF DriftInv
<1>9. CASE UNCHANGED Drift!vars
  <2>1. DriftTypes' /\ CheckedLoad' BY <1>1, <1>9 DEF Drift!vars, DriftTypes, CheckedLoad
  <2>2. Rest BY <1>1, <1>9 DEF Drift!vars, SlotIsLastClaim, ClaimsWarn, Drift!ClaimsSpaced
  <2> QED BY <2>1, <2>2 DEF DriftInv
<1> QED BY <1>4, <1>5, <1>6, <1>7, <1>8, <1>9 DEF Drift!Next

(* A task that found drift ends without a claim only when the slot was     *)
(* used, and then a warning was printed.                                   *)
LEMMA FirstDriftSpeaks ==
  ASSUME DriftInv, [Drift!Next]_Drift!vars,
         NEW t \in Tasks, check[t].at \in {"load", "swap"}, check'[t] = Drift!Idle
  PROVE  warned' # {}
<1>1. DriftTypes /\ SlotIsLastClaim /\ ClaimsWarn BY DEF DriftInv
<1>2. Drift!Idle.at = "idle" BY DEF Drift!Idle
<1>3. check'[t] # check[t] BY <1>2, SMTT(30)
<1>4. ASSUME NEW u \in Tasks, Drift!SpawnCheck(u) PROVE FALSE
  <2>1. u = t BY <1>1, <1>3, <1>4 DEF Drift!SpawnCheck, DriftTypes
  <2> QED BY <1>4, <2>1, SMTT(30) DEF Drift!SpawnCheck
<1>5. ASSUME NEW u \in Tasks, NEW fresh \in SUBSET Addrs, Drift!Resolved(u, fresh) PROVE FALSE
  <2>1. u = t BY <1>1, <1>3, <1>5 DEF Drift!Resolved, DriftTypes
  <2> QED BY <1>5, <2>1 DEF Drift!Resolved
<1>6. ASSUME NEW u \in Tasks, Drift!ClaimLoad(u) PROVE warned' # {}
  <2>1. u = t BY <1>1, <1>3, <1>6 DEF Drift!ClaimLoad, DriftTypes
  <2>2. Drift!UsedRecently(check[t].now, last)
    <3> SUFFICES ASSUME ~Drift!UsedRecently(check[t].now, last) PROVE FALSE OBVIOUS
    <3>1. check'[t] = [check[t] EXCEPT !.at = "swap", !.seen = last]
      BY <1>1, <1>6, <2>1 DEF Drift!ClaimLoad, DriftTypes
    <3>2. check'[t].at = "swap" BY <1>1, <3>1 DEF DriftTypes, TaskState
    <3> QED BY <1>2, <3>2
  <2>3. last # 0 BY <2>2 DEF Drift!UsedRecently
  <2>4. claims # <<>> BY <1>1, <2>3 DEF SlotIsLastClaim
  <2> QED BY <1>1, <1>6, <2>4 DEF ClaimsWarn, Drift!ClaimLoad
<1>7. ASSUME NEW u \in Tasks, Drift!ClaimSwap(u) PROVE warned' # {}
  <2>1. u = t BY <1>1, <1>3, <1>7 DEF Drift!ClaimSwap, DriftTypes
  <2>2. CASE warned' = warned \union {<<u, clock>>} BY <2>2, Zenon
  <2>3. CASE check' = [check EXCEPT ![u].at = "load"]
    <3>1. check'[t].at = "load" BY <1>1, <2>1, <2>3 DEF DriftTypes, TaskState
    <3> QED BY <1>2, <3>1
  <2> QED BY <1>7, <2>2, <2>3 DEF Drift!ClaimSwap
<1>8. CASE Drift!Elapse BY <1>3, <1>8 DEF Drift!Elapse
<1>9. CASE UNCHANGED Drift!vars BY <1>3, <1>9 DEF Drift!vars
<1> QED BY <1>4, <1>5, <1>6, <1>7, <1>8, <1>9, Zenon DEF Drift!Next

(* No two tasks claim the same slot, and no late task claims an earlier    *)
(* one, however claim_dns_drift_warning's loads and exchanges interleave;  *)
(* and the first drift that any of them finds is always printed.           *)
THEOREM ClaimsAnIntervalApart == Drift!Spec => ClaimsMeant
<1>1. DriftInv /\ [Drift!Next]_Drift!vars => DriftInv' BY DriftStep
<1>2. DriftInv' => Drift!ClaimsSpaced' BY DEF DriftInv
<1>3. DriftInv /\ [Drift!Next]_Drift!vars =>
        \A t \in Tasks : check[t].at \in {"load", "swap"} /\ check'[t] = Drift!Idle => warned' # {}
  BY FirstDriftSpeaks
<1> QED BY <1>1, <1>2, <1>3, DriftInit, PTL DEF Drift!Spec, ClaimsMeant, Drift!ClaimsMeant

-----------------------------------------------------------------------------
\* The readiness of an uplink's socket.

\* The driver's tick is never behind the one a guard holds.
ReadinessTypes ==
  /\ kbuf \in Nat /\ tick \in Nat /\ edge \in BOOLEAN
  /\ wTick \in 0 .. tick /\ rTick \in 0 .. tick

\* Wherever the two tasks stand, a writable or readable socket is known to be so or an
\* event is on its way; and a guard that is still current when it is cleared stands for
\* a socket that has not become ready since.
Signalled ==
  /\ "w" \in ready \/ edge \/ kbuf > 0
  /\ loop = "clear" /\ wTick = tick => edge \/ kbuf > 0
  /\ rxBuf # <<>> => "r" \in ready \/ edge
  /\ reader = "clear" /\ rTick = tick => rxBuf = <<>> \/ edge

WakeInv == ReadinessTypes /\ Signalled

\* Registering the socket counts as an event.
LEMMA WakeInit == Socket!Init => WakeInv
BY DEF Socket!Init, WakeInv, ReadinessTypes, Signalled

\* A step that leaves the descriptor and the kernel's buffers alone, and enters neither
\* clear_ready nor a new guard.
LEMMA QuietKeeps ==
  ASSUME WakeInv, UNCHANGED <<ready, tick, edge, kbuf, rxBuf, wTick, rTick>>,
         loop' = "clear" => loop = "clear", reader' = "clear" => reader = "clear"
  PROVE  WakeInv'
BY DEF WakeInv, ReadinessTypes, Signalled

\* The event loop's steps.
LEMMA SenderKeeps ==
  ASSUME WakeInv,
         \/ Socket!QueuePacket \/ Socket!FlushTimer
         \/ \E bps \in Bitrates : Socket!RecomputeBatchRegime(bps)
         \/ Socket!AwaitWritable \/ Socket!SendMmsg \/ Socket!SendWouldBlock
         \/ Socket!SendInterrupted \/ Socket!SendFails \/ Socket!SendClears
  PROVE  WakeInv'
<1>1. CASE Socket!QueuePacket
  <2>1. UNCHANGED <<ready, tick, edge, kbuf, rxBuf, wTick, rTick, reader>>
    BY <1>1 DEF Socket!QueuePacket, Socket!readVars, Socket!fdVars
  <2>2. loop' # "clear"
    BY <1>1 DEF Socket!QueuePacket, Socket!StartFlush
  <2> QED
    BY <2>1, <2>2, QuietKeeps
<1>2. CASE Socket!FlushTimer
  <2>1. UNCHANGED <<ready, tick, edge, kbuf, rxBuf, wTick, rTick, reader>>
    BY <1>2 DEF Socket!FlushTimer, Socket!readVars, Socket!fdVars
  <2>2. loop' # "clear"
    BY <1>2 DEF Socket!FlushTimer, Socket!StartFlush
  <2> QED
    BY <2>1, <2>2, QuietKeeps
<1>3. CASE \E bps \in Bitrates : Socket!RecomputeBatchRegime(bps)
  <2>1. UNCHANGED <<ready, tick, edge, kbuf, rxBuf, wTick, rTick, reader, loop>>
    BY <1>3 DEF Socket!RecomputeBatchRegime, Socket!readVars, Socket!fdVars
  <2> QED
    BY <2>1, QuietKeeps
<1>4. CASE Socket!AwaitWritable
  <2>1. /\ UNCHANGED <<ready, tick, edge, kbuf, rxBuf, rTick, reader>>
        /\ wTick' = tick /\ loop' = "call"
    BY <1>4 DEF Socket!AwaitWritable, Socket!readVars, Socket!fdVars
  <2> QED
    BY <2>1 DEF WakeInv, ReadinessTypes, Signalled
<1>5. CASE Socket!SendMmsg
  <2>1. UNCHANGED <<ready, tick, edge, rxBuf, wTick, rTick, reader>>
    BY <1>5 DEF Socket!SendMmsg, Socket!readVars, Socket!fdVars
  <2>2. loop' # "clear"
    BY <1>5 DEF Socket!SendMmsg, Socket!EndFlush
  <2>3. kbuf' \in Nat /\ kbuf' > 0
    <3>1. PICK n \in Nat : 1 <= n /\ kbuf' = kbuf + n
      BY <1>5 DEF Socket!SendMmsg
    <3> QED
      BY <3>1 DEF WakeInv, ReadinessTypes
  <2> QED
    BY <2>1, <2>2, <2>3 DEF WakeInv, ReadinessTypes, Signalled
<1>6. CASE Socket!SendWouldBlock
  <2>1. /\ UNCHANGED <<ready, tick, edge, kbuf, rxBuf, wTick, rTick, reader>>
        /\ kbuf = SendBuf /\ loop' = "clear"
    BY <1>6 DEF Socket!SendWouldBlock, Socket!readVars, Socket!fdVars
  <2>2. SendBuf > 0
    BY SocketAssumption DEF Socket!SizesAssumption
  <2> QED
    BY <2>1, <2>2 DEF WakeInv, ReadinessTypes, Signalled
<1>7. CASE Socket!SendInterrupted
  <2>1. /\ UNCHANGED <<ready, tick, edge, kbuf, rxBuf, wTick, rTick, reader>>
        /\ loop' = "await"
    BY <1>7 DEF Socket!SendInterrupted, Socket!SendRetry, Socket!readVars, Socket!fdVars
  <2> QED
    BY <2>1, QuietKeeps
<1>8. CASE Socket!SendFails
  <2>1. /\ UNCHANGED <<ready, tick, edge, kbuf, rxBuf, wTick, rTick, reader>>
        /\ loop' = "idle"
    BY <1>8 DEF Socket!SendFails, Socket!EndFlush, Socket!readVars, Socket!fdVars
  <2> QED
    BY <2>1, QuietKeeps
<1>9. CASE Socket!SendClears
  <2>1. /\ UNCHANGED <<tick, edge, kbuf, rxBuf, wTick, rTick, reader>>
        /\ loop = "clear" /\ loop' = "await"
        /\ ready' = IF tick = wTick THEN ready \ {"w"} ELSE ready
    BY <1>9 DEF Socket!SendClears, Socket!Cleared, Socket!readVars
  <2> QED
    BY <2>1 DEF WakeInv, ReadinessTypes, Signalled
<1> QED
  BY <1>1, <1>2, <1>3, <1>4, <1>5, <1>6, <1>7, <1>8, <1>9

\* The reader task's steps.
LEMMA ReaderKeeps ==
  ASSUME WakeInv,
         \/ Socket!AwaitReadable \/ Socket!RecvMmsg \/ Socket!RecvWouldBlock
         \/ Socket!RecvInterrupted \/ Socket!RecvFails \/ Socket!RecvClears
  PROVE  WakeInv'
<1>1. CASE Socket!AwaitReadable
  <2>1. /\ UNCHANGED <<ready, tick, edge, kbuf, rxBuf, wTick, loop>>
        /\ rTick' = tick /\ reader' = "call"
    BY <1>1 DEF Socket!AwaitReadable, Socket!sendVars, Socket!fdVars
  <2> QED
    BY <2>1 DEF WakeInv, ReadinessTypes, Signalled
<1>2. CASE Socket!RecvMmsg
  <2>1. /\ UNCHANGED <<ready, tick, edge, kbuf, wTick, rTick, loop>>
        /\ rxBuf # <<>> /\ reader' = "await"
    BY <1>2 DEF Socket!RecvMmsg, Socket!sendVars, Socket!fdVars
  <2> QED
    BY <2>1 DEF WakeInv, ReadinessTypes, Signalled
<1>3. CASE Socket!RecvWouldBlock
  <2>1. /\ UNCHANGED <<ready, tick, edge, kbuf, rxBuf, wTick, rTick, loop>>
        /\ rxBuf = <<>>
    BY <1>3 DEF Socket!RecvWouldBlock, Socket!sendVars, Socket!fdVars
  <2> QED
    BY <2>1 DEF WakeInv, ReadinessTypes, Signalled
<1>4. CASE Socket!RecvInterrupted \/ Socket!RecvFails
  <2>1. /\ UNCHANGED <<ready, tick, edge, kbuf, rxBuf, wTick, rTick, loop>>
        /\ reader' = "await"
    BY <1>4, Zenon DEF Socket!RecvInterrupted, Socket!RecvRetryAction, Socket!RecvFails,
                       Socket!sendVars, Socket!fdVars
  <2> QED
    BY <2>1, QuietKeeps
<1>5. CASE Socket!RecvClears
  <2>1. /\ UNCHANGED <<tick, edge, kbuf, rxBuf, wTick, rTick, loop>>
        /\ reader = "clear" /\ reader' = "await"
        /\ ready' = IF tick = rTick THEN ready \ {"r"} ELSE ready
    BY <1>5 DEF Socket!RecvClears, Socket!Cleared, Socket!sendVars
  <2> QED
    BY <2>1 DEF WakeInv, ReadinessTypes, Signalled
<1> QED
  BY <1>1, <1>2, <1>3, <1>4, <1>5

\* The kernel's and the driver's steps.
LEMMA KernelKeeps ==
  ASSUME WakeInv,
         \/ Socket!Transmit \/ Socket!Driver
         \/ \E d \in {0, Len(arrived) + 1} : Socket!Arrive(d)
  PROVE  WakeInv'
<1> SendBuf \in Nat \ {0, 1}
  BY SocketAssumption DEF Socket!SizesAssumption
<1>1. CASE Socket!Transmit
  <2>1. /\ UNCHANGED <<ready, tick, rxBuf, wTick, rTick, loop, reader>>
        /\ kbuf > 0 /\ kbuf' = kbuf - 1
        /\ edge' = (edge \/ 2 * kbuf' <= SendBuf)
    BY <1>1 DEF Socket!Transmit, Socket!sendVars, Socket!readVars
  <2>2. kbuf' \in Nat /\ (edge => edge') /\ (kbuf' = 0 => edge') /\ edge' \in BOOLEAN
    <3>1. kbuf' \in Nat /\ (kbuf' = 0 => 2 * kbuf' <= SendBuf)
      BY <2>1 DEF WakeInv, ReadinessTypes
    <3>2. edge' \in BOOLEAN /\ (edge => edge') /\ (2 * kbuf' <= SendBuf => edge')
      <4>1. edge' = (edge \/ 2 * kbuf' <= SendBuf)
        BY <2>1
      <4> QED
        BY <4>1, Zenon
    <3> QED
      BY <3>1, <3>2, Zenon
  <2> QED
    BY <2>1, <2>2 DEF WakeInv, ReadinessTypes, Signalled
<1>2. CASE Socket!Driver
  <2>1. /\ UNCHANGED <<kbuf, rxBuf, wTick, rTick, loop, reader>>
        /\ edge' = FALSE /\ tick' = tick + 1
        /\ ready' = ready \union (IF rxBuf # <<>> THEN {"r"} ELSE {})
                          \union (IF 2 * kbuf < SendBuf THEN {"w"} ELSE {})
    BY <1>2 DEF Socket!Driver, Socket!sendVars, Socket!readVars
  <2>2. (rxBuf # <<>> => "r" \in ready') /\ (kbuf = 0 => "w" \in ready')
    BY <2>1 DEF WakeInv, ReadinessTypes
  <2>3. ReadinessTypes' /\ wTick' # tick' /\ rTick' # tick'
    <3>1. /\ kbuf' \in Nat /\ tick' \in Nat
          /\ wTick' \in 0 .. tick' /\ rTick' \in 0 .. tick'
          /\ wTick' # tick' /\ rTick' # tick'
      BY <2>1 DEF WakeInv, ReadinessTypes
    <3>2. edge' \in BOOLEAN
      BY <2>1, Zenon
    <3> QED
      BY <3>1, <3>2 DEF ReadinessTypes
  <2>4. kbuf' = 0 \/ kbuf' > 0
    BY <2>3 DEF ReadinessTypes
  <2> QED
    BY <2>1, <2>2, <2>3, <2>4, Zenon DEF WakeInv, Signalled
<1>3. CASE \E d \in {0, Len(arrived) + 1} : Socket!Arrive(d)
  <2>1. UNCHANGED <<ready, tick, kbuf, wTick, rTick, loop, reader>> /\ edge' = TRUE
    BY <1>3 DEF Socket!Arrive, Socket!sendVars, Socket!readVars
  <2> QED
    BY <2>1 DEF WakeInv, ReadinessTypes, Signalled
<1> QED
  BY <1>1, <1>2, <1>3

\* Every step of the loop, the reader, the kernel and the driver.
LEMMA WakeStep == WakeInv /\ [Socket!Next]_Socket!vars => WakeInv'
<1> SUFFICES ASSUME WakeInv, [Socket!Next]_Socket!vars PROVE WakeInv'
  OBVIOUS
<1>1. CASE UNCHANGED Socket!vars
  <2>1. UNCHANGED <<ready, tick, edge, kbuf, rxBuf, wTick, rTick, loop, reader>>
    BY <1>1 DEF Socket!vars, Socket!sendVars, Socket!readVars, Socket!fdVars
  <2> QED
    BY <2>1, QuietKeeps
<1>2. CASE Socket!Next
  BY <1>2, SenderKeeps, ReaderKeeps, KernelKeeps, Zenon DEF Socket!Next
<1> QED
  BY <1>1, <1>2

\* clear_ready and EINTR (send_all_datagrams, poll_recv_batch): for any batch and buffer
\* sizes and any number of interrupts and errors, a flush never waits for an event that
\* is not to come, and a reader never sleeps beside a datagram.
THEOREM NoWakeupIsLost == Socket!Spec => []NoLostWakeup
<1>1. WakeInv => NoLostWakeup
  BY DEF WakeInv, Signalled, NoLostWakeup, Socket!NoLostWakeup
<1> QED
  BY <1>1, WakeInit, WakeStep, PTL DEF Socket!Spec
=============================================================================

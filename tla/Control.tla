------------------------------ MODULE Control ------------------------------
(***************************************************************************)
(* The runtime configuration: DynamicConfig, one atomic per field, written *)
(* by the clients of the control plane (connections of the control socket  *)
(* and the stdin thread, which all go through handle_method), by the       *)
(* uplink handler that learns the SRT latency, and read field by field by  *)
(* snapshot(), which the event loop takes anew before it handles an event  *)
(* and get_status takes in the thread of its client.                       *)
(*                                                                         *)
(* A mode is 0 (classic) or 1 (enhanced), a switch is 0 or 1, NotParsed is *)
(* a parameter that is missing or of the wrong kind.  stall_min_in_flight  *)
(* and stall_ack_stale_ms have no writer after the start and are left out. *)
(***************************************************************************)
EXTENDS Integers

CONSTANTS
  Clients,
  Fields,                   \* the fields that this instance sets
  TimeoutMin, TimeoutMax,   \* CONN_TIMEOUT_MS_MIN, CONN_TIMEOUT_MS_MAX
  Timeouts,                 \* timeouts asked for
  Latencies,                \* latencies the receiver declares
  Remember                  \* whether to keep the history that SnapshotMeant needs

NotParsed == -1
None == -2

ASSUME ControlAssumption ==
  /\ Fields \subseteq {"mode", "quality", "stall", "timeout", "latency"}
  /\ "loop" \notin Clients
  /\ TimeoutMin \in Nat /\ TimeoutMax \in Nat /\ TimeoutMin <= TimeoutMax
  /\ Timeouts \subseteq Nat /\ Latencies \subseteq Nat
  /\ Remember \in BOOLEAN

\* The values a field can have.
InForce(f) ==
  CASE f = "timeout" -> TimeoutMin..TimeoutMax
    [] f = "latency" -> {0} \union Latencies
    [] OTHER -> {0, 1}

Requested == Fields \ {"latency"}
Args(f) == IF f = "timeout" THEN Timeouts ELSE {0, 1}

\* The order in which snapshot() loads.
Order == [mode |-> 1, quality |-> 2, stall |-> 3, timeout |-> 4, latency |-> 5]

VARIABLES
  cfg,      \* DynamicConfig
  pending,  \* by client: the result that is about to be answered, if any, and
            \* (history) whether no other client has set the field since
  reading,  \* by reader and field: what its snapshot has loaded, None until then
  asking,   \* the clients whose get_status is under way
  snap,     \* the event loop's last snapshot
  told,     \* history: by client and field, the last answer, until another sets the field
  held      \* history: configurations since the event loop's snapshot began

vars == <<cfg, pending, reading, asking, snap, told, held>>

Loop == "loop"
Readers == Clients \union {Loop}
NoResult == [field |-> "none", value |-> None, own |-> TRUE]
Idle(c) == pending[c] = NoResult /\ c \notin asking

-----------------------------------------------------------------------------
(* Start: the command line, then the file, then the default *)

Clamp(v) == IF v < TimeoutMin THEN TimeoutMin ELSE IF v > TimeoutMax THEN TimeoutMax ELSE v

Applied(f, v) == IF f = "timeout" THEN Clamp(v) ELSE v

ApplyConfigFile(typed, file) == IF typed # None THEN typed ELSE file

FromCli(f) ==
  IF f = "latency" THEN {0}
  ELSE {Applied(f, ApplyConfigFile(typed, file)) : typed \in Args(f) \union {None}, file \in Args(f)}

-----------------------------------------------------------------------------
(* handle_method *)

\* The result of d, after another client's store to f.
Overtaken(d, f) ==
  IF pending[d].field = f THEN [pending[d] EXCEPT !.own = FALSE] ELSE pending[d]

\* The configuration becomes g.
Becomes(g) ==
  /\ cfg' = g
  /\ held' = IF Remember THEN held \union {g} ELSE held

Echo(f, v) == Applied(f, v)

\* set_mode, set_quality, set_stall_deselect and set_conn_timeout, as a request
\* (with an id) or a notification; what does not parse is answered with an error.
HandleSet(c, f, v, id) ==
  /\ Idle(c)
  /\ IF v = NotParsed
     THEN UNCHANGED <<cfg, held, pending, told>>
     ELSE /\ Becomes([cfg EXCEPT ![f] = Applied(f, v)])
          /\ told' = [d \in Clients |-> [told[d] EXCEPT ![f] = None]]
          /\ pending' = [d \in Clients |->
                           IF d = c /\ id THEN [field |-> f, value |-> Echo(f, v), own |-> TRUE]
                           ELSE Overtaken(d, f)]
  /\ UNCHANGED <<reading, asking, snap>>

Answer(c) ==
  /\ pending[c] # NoResult
  /\ told' = [told EXCEPT ![c][pending[c].field] = IF pending[c].own THEN pending[c].value ELSE None]
  /\ pending' = [pending EXCEPT ![c] = NoResult]
  /\ UNCHANGED <<cfg, reading, asking, snap, held>>

-----------------------------------------------------------------------------
(* snapshot *)

NotLoaded == [f \in Fields |-> None]
Loaded(r) == \A f \in Fields : reading[r][f] # None

Load(r, f) ==
  /\ reading[r][f] = None
  /\ \A g \in Fields : Order[g] < Order[f] => reading[r][g] # None
  /\ reading' = [reading EXCEPT ![r][f] = cfg[f]]
  /\ UNCHANGED <<cfg, pending, asking, snap, told, held>>

GetStatus(c) ==
  /\ Idle(c)
  /\ asking' = asking \union {c}
  /\ UNCHANGED <<cfg, pending, reading, snap, told, held>>

\* Answered from what the event loop last read.
StatusCached(c) == snap
Status(c) == reading[c]

AnswerStatus(c) ==
  /\ c \in asking /\ Loaded(c)
  /\ asking' = asking \ {c}
  /\ reading' = [reading EXCEPT ![c] = NotLoaded]
  /\ UNCHANGED <<cfg, pending, snap, told, held>>

-----------------------------------------------------------------------------
(* The event loop *)

TakeSnapshot ==
  /\ Loaded(Loop)
  /\ snap' = reading[Loop]
  /\ reading' = [reading EXCEPT ![Loop] = NotLoaded]
  /\ held' = IF Remember THEN {cfg} ELSE held
  /\ UNCHANGED <<cfg, pending, asking, told>>

\* The handler of an uplink packet meets a handshake, under the snapshot taken.
SetNegotiatedLatency(ms) ==
  /\ "latency" \in Fields /\ reading[Loop] = NotLoaded
  /\ Becomes([cfg EXCEPT !["latency"] = ms])
  /\ UNCHANGED <<pending, reading, asking, snap, told>>

LoopStep == (\E f \in Fields : Load(Loop, f)) \/ TakeSnapshot

-----------------------------------------------------------------------------
Init ==
  /\ \E g \in [Fields -> UNION {FromCli(f) : f \in Fields}] :
       /\ \A f \in Fields : g[f] \in FromCli(f)
       /\ cfg = g /\ snap = g /\ held = {g}
  /\ pending = [c \in Clients |-> NoResult]
  /\ reading = [r \in Readers |-> NotLoaded]
  /\ asking = {}
  /\ told = [c \in Clients |-> [f \in Requested |-> None]]

Next ==
  \/ \E c \in Clients :
       \/ \E f \in Requested, id \in BOOLEAN : \E v \in Args(f) \union {NotParsed} : HandleSet(c, f, v, id)
       \/ Answer(c)
       \/ GetStatus(c)
       \/ c \in asking /\ \E f \in Fields : Load(c, f)
       \/ AnswerStatus(c)
  \/ LoopStep
  \/ \E ms \in Latencies : SetNegotiatedLatency(ms)

Spec == Init /\ [][Next]_vars

-----------------------------------------------------------------------------
\* The timeout in force is within its limits, however it was set.
TypeOK ==
  /\ \A f \in Fields : cfg[f] \in InForce(f)
  /\ \A r \in Readers, f \in Fields : reading[r][f] \in InForce(f) \union {None}
  /\ asking \subseteq Clients

\* A client can trust its last answer about a field until another client sets the
\* field: the value is in force, clamped as it was, whatever requests of its own
\* were refused since.
TrustReply ==
  \A c \in Clients, f \in Requested : told[c][f] # None => cfg[f] = told[c][f]

\* Every step leaves the answers true, and get_status, which loads field by field
\* while others write, shows a client what it was told of its own settings.
AnswersTrue ==
  [][/\ TrustReply'
     /\ \A c \in asking \ asking' : \A f \in Requested :
          told[c][f] # None => Status(c)[f] = told[c][f]]_vars

\* A snapshot is a configuration that was in force while it was taken: "Create a
\* snapshot of current configuration".
SnapshotMeant ==
  [][snap' # snap => snap' \in held]_vars
=============================================================================

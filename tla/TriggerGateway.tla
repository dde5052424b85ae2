--------------------------- MODULE TriggerGateway ---------------------------
(***************************************************************************)
(* The trigger gateway (app/trigger/src/main.rs): PLC, level-2 and manual  *)
(* triggers arrive over HTTP, TCP and UDP, are authenticated, admitted and *)
(* forwarded to the production API.  The HTTP and UDP loops serve one      *)
(* request at a time, every TCP connection has its own thread; all share   *)
(* one mutex over mode, admission and the table of nonces.                 *)
(*                                                                         *)
(* A message is a model value with a transport, an event, a nonce and the  *)
(* time its sender stamped it.  Networks may deliver it late and twice.    *)
(* A delivery comes with a signature or with the operator's token; HMAC,   *)
(* hex, token and header parsing are the flags of the two checks.          *)
(***************************************************************************)
EXTENDS Integers, FiniteSets

CONSTANTS
  HttpLoop, UdpLoop, TcpConnection,  \* serving threads
  TriggerMessage,                    \* the messages senders may sign
  AuthRequired, ModeMutation,        \* SecurityConfig
  AuthWindow,                        \* auth_window_seconds
  MaxReplayEntries,                  \* MAX_REPLAY_ENTRIES
  SenderAhead,                       \* how far a sender's clock may be ahead
  MaxSent,                           \* bound: messages in play
  MaxClock                           \* bound: seconds observed

TriggerThread == {HttpLoop, UdpLoop} \cup TcpConnection
TriggerEvent == {"steel-in", "steel-out", "manual-in", "manual-out"}
Unseen == 0 - 1

ASSUME TriggerAssumption ==
  /\ \A m \in TriggerMessage : /\ m.transport \in {"http", "tcp", "udp"}
                               /\ m.event \in TriggerEvent
                               /\ m.event \in {"manual-in", "manual-out"} => m.transport = "http"
  /\ {AuthRequired, ModeMutation} \subseteq BOOLEAN
  /\ {AuthWindow, MaxReplayEntries, SenderAhead, MaxSent, MaxClock} \subseteq Nat
  /\ IsFiniteSet(TcpConnection)

Nonce == {m.nonce : m \in TriggerMessage}

VARIABLES
  gwMode,      \* GatewayState.mode
  gwAccepting, gwInFlight,
  nonces,      \* replay_nonces: when a nonce was seen
  gwClock,     \* unix_seconds of the gateway
  stamps,      \* timestamp of each message, once its sender has signed it
  gw,          \* per thread: step, message, the mode and the time it has read,
               \* what the delivery is authorized by
  forwarded,   \* history: how often each message reached the production API by its signature
  lateEntry,   \* history: messages admitted after the drain
  gwLatest,    \* history: the latest time the nonces were purged by
  outOfOrder   \* history: messages accepted by a time before that, or before their stamp

gwHistory == <<gwLatest, outOfOrder>>
triggerVars == <<gwMode, gwAccepting, gwInFlight, nonces, gwClock, stamps, gw, forwarded, lateEntry,
                 gwLatest, outOfOrder>>

GwIdle == [pc |-> "idle", msg |-> CHOOSE m \in TriggerMessage : TRUE, mode |-> "api", now |-> 0,
           by |-> "signature"]

TriggerInit ==
  /\ gwMode \in {"api", "manual"}
  /\ gwAccepting = TRUE
  /\ gwInFlight = 0
  /\ nonces = [n \in Nonce |-> Unseen]
  /\ gwClock = 0
  /\ stamps = [m \in TriggerMessage |-> Unseen]
  /\ gw = [t \in TriggerThread |-> GwIdle]
  /\ forwarded = [m \in TriggerMessage |-> 0]
  /\ lateEntry = {}
  /\ gwLatest = 0 /\ outOfOrder = {}

CompletionTarget(m) == m.event \in {"steel-out", "manual-out"}
ManualPath(m) == m.event \in {"manual-in", "manual-out"}

\* handle_client runs in the accept loop itself.
Serves(t, m) ==
  \/ m.transport = "http" /\ t = HttpLoop
  \/ m.transport = "udp" /\ t = UdpLoop
  \/ m.transport = "tcp" /\ t \in TcpConnection

\* A message arrives, possibly again.  The HTTP handler reads the mode first;
\* every handler reads the clock before it waits for the mutex.  The mode that
\* the other transports put into the payload is left out.
Deliver(t, m, by) ==
  /\ gw[t].pc = "idle" /\ Serves(t, m) /\ stamps[m] # Unseen
  /\ ManualPath(m) => by = "operator"
  /\ by = "operator" => m.transport = "http"
  /\ gw' = [gw EXCEPT ![t] = [pc |-> IF by = "operator" THEN "operator" ELSE "auth",
                              msg |-> m, mode |-> IF m.transport = "http" THEN gwMode ELSE "api",
                              now |-> IF by = "operator" THEN 0 ELSE gwClock, by |-> by]]
  /\ UNCHANGED <<gwMode, gwAccepting, gwInFlight, nonces, gwClock, stamps, forwarded, lateEntry, gwHistory>>

GwDone(t) == gw' = [gw EXCEPT ![t] = GwIdle]
InWindow(ts, now) == ts - now <= AuthWindow /\ now - ts <= AuthWindow
Retained(now) == [n \in Nonce |-> IF nonces[n] # Unseen /\ nonces[n] >= now - AuthWindow
                                  THEN nonces[n] ELSE Unseen]

\* The nonce is looked up and never stored.
AuthenticateForgets(t, genuine) ==
  LET m == gw[t].msg
      fresh == genuine /\ InWindow(stamps[m], gw[t].now) /\ Retained(gw[t].now)[m.nonce] = Unseen
  IN /\ gw[t].pc = "auth"
     /\ IF ~AuthRequired \/ fresh THEN gw' = [gw EXCEPT ![t].pc = "admit"] ELSE GwDone(t)
     /\ UNCHANGED <<gwMode, gwAccepting, gwInFlight, nonces, gwClock, stamps, forwarded, lateEntry, gwHistory>>

\* authenticate_message, with the time read at the delivery: time window and
\* signature, then the nonces are purged and this one looked up and stored,
\* all under the lock.  A request that must not be authenticated passes at once.
Authenticate(t, genuine) ==
  LET m == gw[t].msg
      now == gw[t].now
      valid == genuine /\ InWindow(stamps[m], now)
      kept == Retained(now)
      fresh == /\ valid /\ kept[m.nonce] = Unseen
               /\ Cardinality({n \in Nonce : kept[n] # Unseen}) < MaxReplayEntries
  IN /\ gw[t].pc = "auth"
     /\ IF ~AuthRequired
        THEN gw' = [gw EXCEPT ![t].pc = "admit"] /\ UNCHANGED <<nonces, gwHistory>>
        ELSE /\ nonces' = IF ~valid THEN nonces
                          ELSE IF fresh THEN [kept EXCEPT ![m.nonce] = now] ELSE kept
             /\ gwLatest' = IF valid /\ now > gwLatest THEN now ELSE gwLatest
             /\ outOfOrder' = IF fresh /\ (now < gwLatest \/ now < stamps[m])
                              THEN outOfOrder \cup {m} ELSE outOfOrder
             /\ IF fresh THEN gw' = [gw EXCEPT ![t].pc = "admit"] ELSE GwDone(t)
     /\ UNCHANGED <<gwMode, gwAccepting, gwInFlight, gwClock, stamps, forwarded, lateEntry>>

\* authorize_operator_request, for the manual controls and for any trigger that
\* carries the operator's token; for a manual control the mode read when the
\* request came in must be manual.
OperatorCheck(t, authorized) ==
  /\ gw[t].pc = "operator"
  /\ IF authorized /\ (ManualPath(gw[t].msg) => gw[t].mode = "manual")
     THEN gw' = [gw EXCEPT ![t].pc = "admit"] ELSE GwDone(t)
  /\ UNCHANGED <<gwMode, gwAccepting, gwInFlight, nonces, gwClock, stamps, forwarded, lateEntry, gwHistory>>

\* admit_trigger: closed to everything but the completion of a material.
AdmitTrigger(t) ==
  LET m == gw[t].msg IN
  /\ gw[t].pc = "admit"
  /\ IF gwAccepting \/ CompletionTarget(m)
     THEN /\ gwInFlight' = gwInFlight + 1
          /\ gw' = [gw EXCEPT ![t].pc = "forward"]
          /\ lateEntry' = IF gwAccepting THEN lateEntry ELSE lateEntry \cup {m}
     ELSE GwDone(t) /\ UNCHANGED <<gwInFlight, lateEntry>>
  /\ UNCHANGED <<gwMode, gwAccepting, nonces, gwClock, stamps, forwarded, gwHistory>>

\* post_json reaches the service or not; a lost answer reads like an offline
\* service.  The admission guard is dropped with the answer.
Forward(t) ==
  /\ gw[t].pc = "forward"
  /\ \E reached \in BOOLEAN :
       forwarded' = [forwarded EXCEPT ![gw[t].msg] =
                       IF reached /\ gw[t].by = "signature" /\ @ < 2 THEN @ + 1 ELSE @]
  /\ gwInFlight' = IF gwInFlight > 0 THEN gwInFlight - 1 ELSE 0
  /\ GwDone(t)
  /\ UNCHANGED <<gwMode, gwAccepting, nonces, gwClock, stamps, lateEntry, gwHistory>>

-----------------------------------------------------------------------------
(* Operator requests of the HTTP loop, senders and time.                     *)

\* POST /api/trigger/mode.
SetCurrentMode(m) ==
  /\ gw[HttpLoop].pc = "idle" /\ ModeMutation
  /\ gwMode' = m
  /\ UNCHANGED <<gwAccepting, gwInFlight, nonces, gwClock, stamps, gw, forwarded, lateEntry, gwHistory>>

\* POST /api/trigger/drain.
EnterDrain ==
  /\ gw[HttpLoop].pc = "idle"
  /\ gwAccepting' = FALSE
  /\ UNCHANGED <<gwMode, gwInFlight, nonces, gwClock, stamps, gw, forwarded, lateEntry, gwHistory>>

SenderSigns(m, ahead) ==
  /\ stamps[m] = Unseen
  /\ Cardinality({n \in TriggerMessage : stamps[n] # Unseen}) < MaxSent
  /\ stamps' = [stamps EXCEPT ![m] = gwClock + ahead]
  /\ UNCHANGED <<gwMode, gwAccepting, gwInFlight, nonces, gwClock, gw, forwarded, lateEntry, gwHistory>>

GwTick ==
  /\ gwClock < MaxClock
  /\ gwClock' = gwClock + 1
  /\ UNCHANGED <<gwMode, gwAccepting, gwInFlight, nonces, stamps, gw, forwarded, lateEntry, gwHistory>>

TriggerNext ==
  \/ \E t \in TriggerThread :
       \/ \E m \in TriggerMessage, by \in {"signature", "operator"} : Deliver(t, m, by)
       \/ \E b \in BOOLEAN : Authenticate(t, b) \/ OperatorCheck(t, b)
       \/ AdmitTrigger(t) \/ Forward(t)
  \/ \E m \in {"api", "manual"} : SetCurrentMode(m)
  \/ EnterDrain \/ GwTick
  \/ \E m \in TriggerMessage, ahead \in 0 .. SenderAhead : SenderSigns(m, ahead)

TriggerSpec == TriggerInit /\ [][TriggerNext]_triggerVars

-----------------------------------------------------------------------------
(* Properties.                                                               *)

\* in_flight is the number of triggers being forwarded, so the drained flag
\* of admission_status_json is exact.
TriggerInFlightExact ==
  gwInFlight = Cardinality({t \in TriggerThread : gw[t].pc = "forward"})

\* Once the gateway drains, only the completion of a material still enters,
\* however long before the drain a trigger was received and authenticated.
DrainAdmitsCompletionsOnly == \A m \in lateEntry : CompletionTarget(m)

\* A signed message that the network delivers more than once, late or over two
\* connections at the same time reaches the production API at most once by its
\* signature, as long as the times its deliveries are checked by are no older
\* than the last purge of the nonces and no earlier than its stamp.  Both
\* conditions are the code's: a thread that waits for the mutex across a purge
\* checks by an old time, and a stamp ahead of the gateway's clock outlives its
\* nonce (authenticate_message).
ForwardedOnce ==
  AuthRequired => \A m \in TriggerMessage \ outOfOrder : forwarded[m] <= 1

\* A manual control is forwarded only while the gateway is in manual mode: no
\* change of mode comes between the check and the forwarding, because the
\* HTTP loop serves one connection at a time.
ManualOnlyInManual ==
  \A t \in TriggerThread :
    gw[t].pc \in {"operator", "admit", "forward"} /\ ManualPath(gw[t].msg) => gw[t].mode = gwMode

\* A signed trigger goes to the production API once while times are in order,
\* a manual control under the mode it was let in by, and the drain knows of
\* every one of them.
TriggerSafety ==
  /\ TriggerInFlightExact
  /\ DrainAdmitsCompletionsOnly
  /\ ForwardedOnce
  /\ ManualOnlyInManual
=============================================================================

----------------------------- MODULE ServerLink -----------------------------
(***************************************************************************)
(* The one websocket of the bot (bot/src/net/server_link.ts), what the     *)
(* session makes of its statuses (bot/src/net/session.ts, on_status), and  *)
(* the gate a character's pass goes through before it sends a transaction: *)
(* the session's link flag and the projection's freshness                  *)
(* (bot/src/state/store.ts, selectors.ts).                                 *)
(*                                                                         *)
(* Every action is one event of the JavaScript loop: a frame, a close, a   *)
(* timer, the end of a signature.  The current socket has a state; of the  *)
(* sockets that were given up while open nothing matters except that their *)
(* frames still arrive, so `abandoned` is the set of the states they are   *)
(* in.  The server is external: it challenges a socket, accepts it,        *)
(* answers the pings of an accepted socket, closes it for any of the       *)
(* reasons the link tells apart, or falls silent.                          *)
(***************************************************************************)
EXTENDS Naturals

CONSTANTS
  BACKOFF_CAP,       (* the longest back-off, in units of the first one      *)
  MIN_PACKETS_SEEN,  (* how many packets make a projection                   *)
  MaxTimers          (* a bound of the model: a signature fails only while   *)
                     (* fewer retries than this are pending                  *)

ASSUME LinkAssumption ==
  /\ BACKOFF_CAP \in Nat \ {0} /\ MIN_PACKETS_SEEN \in Nat \ {0}
  /\ MaxTimers \in Nat \ {0}

VARIABLES
  socket,        (* the current socket                                       *)
  silent,        (* its peer is gone and no close has been seen yet          *)
  abandoned,     (* the states of the sockets replaced while open            *)
  signing,       (* signatures awaited, for the current or another socket    *)
  retry_ms,      (* the next back-off                                        *)
  retry_timer,   (* the timer schedule() remembers is pending                *)
  orphans,       (* how many timers are pending that it no longer remembers  *)
  latency,       (* latency_timer is set                                     *)
  pending_probe, (* the ping whose pong is awaited, by its socket            *)
  link_status,   (* the last status reported                                 *)
  disposed,
  link_accepted, stopped,                     (* the session's               *)
  connected, frozen, lag, clock, packets_seen (* the projection's            *)

link_vars == <<socket, silent, abandoned, signing>>
timer_vars == <<retry_ms, retry_timer, orphans>>
probe_vars == <<latency, pending_probe>>
session_vars == <<link_status, link_accepted, stopped>>
store_vars == <<connected, frozen, lag, clock, packets_seen>>
server == <<link_vars, timer_vars, probe_vars, session_vars, store_vars, disposed>>

OpenStates == {"open", "challenged", "answered", "accepted"}
Kinds == {"connecting", "awaiting_signature", "authenticating", "accepted", "latency",
          "rejected", "replaced", "violation", "failed", "disposed"}
Terminal == {"rejected", "replaced"}

Counts ==
  /\ retry_ms \in 1 .. BACKOFF_CAP /\ orphans \in 0 .. MaxTimers
  /\ packets_seen \in 0 .. MIN_PACKETS_SEEN

Sockets ==
  /\ socket \in OpenStates \cup {"none"} /\ silent \in BOOLEAN
  /\ abandoned \subseteq OpenStates /\ signing \subseteq {"current", "other"}

Probing ==
  /\ retry_timer \in {"none", "pending"}
  /\ latency \in BOOLEAN /\ pending_probe \in {"none", "current", "other"}
  /\ pending_probe # "none" => latency

Reported ==
  /\ link_status \in Kinds /\ disposed \in BOOLEAN
  /\ link_accepted \in BOOLEAN /\ stopped \in BOOLEAN

Projected ==
  /\ connected \in BOOLEAN /\ frozen \in {"unknown", "yes", "no"}
  /\ lag \in {"unknown", "low", "high"} /\ clock \in {"none", "live", "expired"}

(* Every variable holds a value of its kind; a probe is awaited only while
   the latency timer runs. *)
LinkTypeOK == Counts /\ Sockets /\ Probing /\ Reported /\ Projected

LinkInit ==
  /\ socket = "open" /\ silent = FALSE /\ abandoned = {} /\ signing = {}
  /\ retry_ms = 1 /\ retry_timer = "none" /\ orphans = 0
  /\ latency = FALSE /\ pending_probe = "none"
  /\ link_status = "connecting" /\ link_accepted = FALSE /\ stopped = FALSE
  /\ connected = FALSE /\ frozen = "unknown" /\ lag = "unknown"
  /\ clock = "none" /\ packets_seen = 0
  /\ disposed = FALSE

-----------------------------------------------------------------------------
(* The pieces the handlers are made of. *)

(* A status, and what the session makes of it. *)
Report(kind) ==
  /\ link_status' = kind
  /\ link_accepted' = (kind \in {"accepted", "latency"})
  /\ stopped' = (stopped \/ kind \in Terminal)

(* A retry is scheduled; a timer that is pending already is forgotten and
   not cleared.  Probing ends. *)
Schedule ==
  /\ latency' = FALSE /\ pending_probe' = "none"
  /\ retry_timer' = "pending"
  /\ orphans' = IF retry_timer = "none" THEN orphans ELSE orphans + 1

BackOff == retry_ms' = IF 2 * retry_ms < BACKOFF_CAP THEN 2 * retry_ms ELSE BACKOFF_CAP

ScheduleRetry == Report("failed") /\ BackOff /\ Schedule

(* A packet the projection folds; counting stops at what the gate asks for. *)
Fold == packets_seen' = IF packets_seen < MIN_PACKETS_SEEN THEN packets_seen + 1
                                                           ELSE packets_seen

(* Frames and closes of the current socket reach a link in use; those of any
   other socket are dropped by `socket !== next`. *)
Heard == socket \in OpenStates /\ ~silent /\ ~disposed

(* What was under way on the current socket is of another one now. *)
SignaturesGoStale == signing' = IF signing = {} THEN {} ELSE {"other"}
ProbeOfAnother == IF pending_probe = "current" THEN "other" ELSE pending_probe

-----------------------------------------------------------------------------
(* Connecting and authenticating. *)

(* A mutant. *)
Connect_AfterDispose ==
  /\ Report("connecting") /\ socket' = "open" /\ silent' = FALSE /\ SignaturesGoStale
  /\ pending_probe' = ProbeOfAnother
  /\ UNCHANGED <<abandoned, retry_ms, latency, store_vars, disposed>>

(* A timer fires and open() makes a new socket, whatever became of the old
   one; a link that was disposed reports and stops there. *)
Connect ==
  /\ Report("connecting")
  /\ IF disposed
       THEN UNCHANGED <<socket, silent, abandoned, signing, pending_probe>>
       ELSE /\ socket' = "open" /\ silent' = FALSE
            /\ abandoned' = IF socket = "none" THEN abandoned ELSE abandoned \cup {socket}
            /\ SignaturesGoStale
            /\ pending_probe' = ProbeOfAnother
  /\ UNCHANGED <<retry_ms, latency, store_vars, disposed>>

RetryFires == retry_timer = "pending" /\ retry_timer' = "none" /\ UNCHANGED orphans /\ Connect
OrphanFires == orphans > 0 /\ orphans' = orphans - 1 /\ UNCHANGED retry_timer /\ Connect

(* The challenge arrives: sign_and_answer starts. *)
Challenge ==
  /\ Heard /\ socket = "open"
  /\ socket' = "challenged" /\ signing' = signing \cup {"current"}
  /\ Report("authenticating")
  /\ UNCHANGED <<silent, abandoned, timer_vars, probe_vars, store_vars, disposed>>

SignatureSent ==
  /\ "current" \in signing /\ ~disposed /\ socket = "challenged"
  /\ signing' = signing \ {"current"} /\ socket' = "answered"
  /\ UNCHANGED <<silent, abandoned, timer_vars, probe_vars, session_vars, store_vars, disposed>>

(* The local signature fails: a retry is scheduled, and the socket is left
   open. *)
SignatureFails ==
  /\ "current" \in signing /\ ~disposed
  /\ orphans < MaxTimers /\ (retry_timer = "pending" => orphans + 1 < MaxTimers)
  /\ signing' = signing \ {"current"}
  /\ ScheduleRetry
  /\ UNCHANGED <<socket, silent, abandoned, store_vars, disposed>>

(* The signature of a socket that is not the current one any more, or of a
   link that was disposed, changes nothing however it ends. *)
StaleSignature ==
  /\ \E s \in signing : (s = "other" \/ disposed) /\ signing' = signing \ {s}
  /\ UNCHANGED <<socket, silent, abandoned, timer_vars, probe_vars, session_vars, store_vars,
                 disposed>>

(* connection_accepted, on the socket s says it came from. *)
AcceptedFrame ==
  /\ retry_ms' = 1
  /\ Report("accepted")
  /\ latency' = TRUE /\ pending_probe' = "current"
  /\ connected' = TRUE /\ Fold
  /\ UNCHANGED <<silent, signing, retry_timer, orphans, frozen, lag, clock, disposed>>

(* A mutant: frames of a socket that was replaced are handled. *)
Accepted_AnySocket ==
  \/ Heard /\ socket = "answered" /\ socket' = "accepted" /\ AcceptedFrame /\ UNCHANGED abandoned
  \/ "answered" \in abandoned /\ ~disposed /\ AcceptedFrame /\ UNCHANGED <<socket, abandoned>>

Accepted ==
  /\ Heard /\ socket = "answered" /\ socket' = "accepted"
  /\ AcceptedFrame /\ UNCHANGED abandoned

-----------------------------------------------------------------------------
(* The link in use. *)

Delivers == Heard /\ socket = "accepted"

(* server_info: a sample that is no newer keeps the clock, an invalid one
   takes it away; the server may not know the indexer's lag. *)
ServerInfo ==
  /\ Delivers
  /\ clock' \in {"live", clock, "none"} /\ lag' \in {"unknown", "low", "high"} /\ Fold
  /\ UNCHANGED <<link_vars, timer_vars, probe_vars, session_vars, connected, frozen, disposed>>

GameStatePacket ==
  /\ Delivers
  /\ frozen' \in {"yes", "no"} /\ Fold
  /\ UNCHANGED <<link_vars, timer_vars, probe_vars, session_vars, connected, lag, clock, disposed>>

OtherPacket ==
  /\ Delivers /\ Fold
  /\ UNCHANGED <<link_vars, timer_vars, probe_vars, session_vars, connected, frozen, lag, clock,
                 disposed>>

(* The latency timer pings whatever socket is open. *)
Probe ==
  /\ latency /\ socket \in OpenStates /\ pending_probe' = "current"
  /\ UNCHANGED <<link_vars, timer_vars, latency, session_vars, store_vars, disposed>>

Pong ==
  /\ Delivers /\ pending_probe = "current" /\ pending_probe' = "none"
  /\ Report("latency")
  /\ UNCHANGED <<link_vars, timer_vars, latency, store_vars, disposed>>

(* Thirty seconds without a newer observation of the chain's time. *)
ClockExpires ==
  /\ clock = "live" /\ clock' = "expired"
  /\ UNCHANGED <<link_vars, timer_vars, probe_vars, session_vars, connected, frozen, lag,
                 packets_seen, disposed>>

-----------------------------------------------------------------------------
(* The ends of a socket. *)

(* A mutant: a close is handled, and its retry scheduled, for a socket that
   was closed before. *)
Closed_Twice ==
  /\ socket \in OpenStates /\ ~disposed
  /\ socket' \in {"none", socket} /\ silent' = FALSE /\ SignaturesGoStale
  /\ UNCHANGED <<abandoned, store_vars, disposed>>

Closed ==
  /\ socket \in OpenStates /\ ~disposed
  /\ socket' = "none" /\ silent' = FALSE /\ SignaturesGoStale
  /\ UNCHANGED <<abandoned, store_vars, disposed>>

(* The peer is gone without a close: nothing arrives, until TCP gives up. *)
FallsSilent ==
  /\ Heard /\ silent' = TRUE
  /\ UNCHANGED <<socket, abandoned, signing, timer_vars, probe_vars, session_vars, store_vars,
                 disposed>>

(* INVALID_SIGNATURE, INVALID_PACKET; or the account was seated elsewhere.
   Terminal: nothing is scheduled, and nothing pending is cleared.  (After a
   takeover the session lets the process live two seconds more.) *)
CloseTerminal(kind) ==
  /\ Heard /\ Closed /\ Report(kind)
  /\ pending_probe' = ProbeOfAnother
  /\ UNCHANGED <<timer_vars, latency>>

(* A mutant. *)
CloseViolation_NoRetry ==
  /\ Heard /\ socket = "accepted" /\ Closed /\ Report("violation")
  /\ pending_probe' = ProbeOfAnother /\ UNCHANGED <<timer_vars, latency>>

(* SPEED, RATE_LIMIT: a slow retry. *)
CloseViolation ==
  /\ Heard /\ socket = "accepted" /\ Closed
  /\ Report("violation") /\ Schedule /\ UNCHANGED retry_ms

(* Any other close. *)
CloseFailed == Closed /\ ScheduleRetry

(* The end of the daemon: only the timer that is remembered is cleared. *)
Dispose ==
  /\ ~disposed /\ disposed' = TRUE
  /\ latency' = FALSE /\ pending_probe' = "none" /\ retry_timer' = "none"
  /\ socket' = "none" /\ silent' = FALSE /\ SignaturesGoStale
  /\ Report("disposed")
  /\ UNCHANGED <<abandoned, retry_ms, orphans, store_vars>>

Close == \/ \E kind \in Terminal : CloseTerminal(kind)
         \/ CloseViolation
         \/ CloseFailed

LinkNext == \/ RetryFires \/ OrphanFires
            \/ Challenge \/ SignatureSent \/ SignatureFails \/ StaleSignature \/ Accepted
            \/ ServerInfo \/ GameStatePacket \/ OtherPacket \/ Probe \/ Pong \/ ClockExpires
            \/ FallsSilent \/ Close \/ Dispose

LinkSpec == LinkInit /\ [][LinkNext]_server

(* Timers fire and time passes; the server answers a socket it heard of, and
   neither it nor the signer fails for ever.  Nobody promises that the close
   of a peer that fell silent is ever seen. *)
LinkFairness ==
  /\ WF_server(RetryFires) /\ WF_server(OrphanFires) /\ WF_server(ClockExpires)
  /\ SF_server(Challenge) /\ SF_server(SignatureSent) /\ SF_server(Accepted)

LinkFairSpec == LinkSpec /\ LinkFairness

-----------------------------------------------------------------------------
(* The gates of a pass. *)

(* A mutant. *)
Fresh_NoClock == connected /\ frozen = "no" /\ (lag = "low" => packets_seen = MIN_PACKETS_SEEN)

Fresh ==
  /\ connected /\ frozen = "no"
  /\ \/ lag = "unknown"
     \/ lag = "low" /\ clock = "live" /\ packets_seen = MIN_PACKETS_SEEN

MayAct == link_accepted /\ ~stopped /\ Fresh

-----------------------------------------------------------------------------
(* The characters play only while the server has this very socket
   authenticated: the flag run_character reads (set by `accepted` and by every
   later `latency` report) falls whenever the current socket is another one,
   also when an orphaned timer replaces a socket in use. *)
AcceptedIsAuthenticated == link_accepted => socket = "accepted"

(* After dispose() the link is dead for good, whatever timers and signatures
   are still pending: no socket is opened and no character plays. *)
DisposeIsFinal == disposed => socket = "none" /\ ~link_accepted

(* The retries pending are bounded by the faults of the signer: closes alone
   never make more than one timer run per socket. *)
TimersBounded == retry_timer = "pending" /\ socket # "none" => orphans < MaxTimers

(* A peer that falls silent (half-open TCP: the link pings but never times a
   pong out) does not leave the characters playing on the last rows: the
   freshness gate closes by itself.  With the indexing lag unknown the code
   holds no gate. *)
SilentLinkStopsPlay == (silent /\ MayAct /\ lag # "unknown") ~> ~MayAct

(* Unless it was stopped, disposed or the peer is silent, the link comes back
   again and again, whatever the reason it was closed for. *)
LinkServed == []<>(socket = "accepted" \/ silent \/ stopped \/ disposed)


=============================================================================

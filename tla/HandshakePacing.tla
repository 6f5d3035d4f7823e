-------------------------- MODULE HandshakePacing --------------------------
(***************************************************************************)
(* When the initiating end speaks (paqetz, tunnel.rs): the decisions of    *)
(* PeerState::wants_handshake, ::revive, ::stuck and ::presumed_dead, the  *)
(* timer loop that acts on them, and the events that reset its clocks.     *)
(* What is sent, and the keys it makes, is in PeerSessions.                *)
(*                                                                         *)
(* One unit of time is one round of the timer loop (TICK).  A deadline is  *)
(* kept as the ticks left to it and a moment past as the ticks since it,   *)
(* each only up to the largest value the code compares it with: the code   *)
(* looks at nothing else, so time need not be bounded.                     *)
(***************************************************************************)
EXTENDS Integers

CONSTANTS
    REKEY_TIMEOUT, REKEY_TIMEOUT_JITTER,    \* between two handshakes
    REKEY_ATTEMPT_TIME, RETRY_WHEN_GONE,    \* a run of them, and the rest after it
    REJOIN_AFTER,                           \* after a goodbye
    PRESUMED_DEAD,                          \* silence while sending
    REKEY_AFTER_TIME, REKEY_JITTER, REJECT_AFTER_TIME,
    SYN_RETRY, SYN_RETRY_MAX, SYN_FRESH,
    Unanswered,     \* Rotation::unanswered
    Rotates,        \* rotation is enabled and the pool has two ports or more
    RealHandshake   \* the carrier is opened by a SYN that waits for its answer

ASSUME PacingAssumption ==
    /\ {REKEY_TIMEOUT, REKEY_TIMEOUT_JITTER, REKEY_ATTEMPT_TIME, RETRY_WHEN_GONE, REJOIN_AFTER,
        PRESUMED_DEAD, REKEY_AFTER_TIME, REJECT_AFTER_TIME, SYN_RETRY, SYN_RETRY_MAX,
        SYN_FRESH, Unanswered} \subseteq Nat \ {0}
    /\ REKEY_TIMEOUT <= RETRY_WHEN_GONE /\ REKEY_TIMEOUT <= REJECT_AFTER_TIME
    /\ REKEY_JITTER \in 0 .. REKEY_AFTER_TIME
    /\ {Rotates, RealHandshake} \subseteq BOOLEAN

None == -1
Least(a, b) == IF a < b THEN a ELSE b
Most(a, b)  == IF a > b THEN a ELSE b

VARIABLES
    session,            \* ticks since it was made, or None
    pending,            \* a handshake awaits its reply
    carrier,            \* none, idle (no SYN yet), syn (sent), ready
    retry_at, resume_at, rekey_at, syn_retry_at,    \* ticks left
    last_handshake, last_receive, opened_at,        \* ticks since
    attempt_started,    \* ticks since, or None
    unheard,            \* last_send is later than last_receive
    unanswered, syn_tries,
    kpc, wpc,           \* where the timer thread and the wire thread stand
    flight,             \* what of this end's is on the path: msg1, syn
    quiet,              \* history: ticks without an attempt, or a word from the
                        \* peer, while an attempt is wanted
    apart, excused      \* history: ticks since the last msg1, and what has happened since

clocks  == <<retry_at, resume_at, rekey_at, syn_retry_at, last_handshake, last_receive, opened_at,
             attempt_started>>
history == <<quiet, apart, excused>>
vars    == <<session, pending, carrier, clocks, unheard, unanswered, syn_tries, kpc, wpc, flight,
             history>>

MaxTries == 4   \* SYNs after which syn_backoff stays as it is

LongestRetry == REKEY_TIMEOUT + REKEY_TIMEOUT_JITTER - 1

\* The longest the end may go without trying: the longest of its waits, and the
\* tick in which the wait is noticed to be over.
LongestQuiet == Most(Most(RETRY_WHEN_GONE, LongestRetry), Most(REJOIN_AFTER, SYN_RETRY_MAX)) + 1

TypeOK ==
    /\ session \in 0 .. REJECT_AFTER_TIME \cup {None}
    /\ pending \in BOOLEAN
    /\ carrier \in {"none", "idle", "syn", "ready"}
    /\ retry_at \in 0 .. LongestRetry
    /\ resume_at \in 0 .. REJOIN_AFTER
    /\ rekey_at \in 0 .. REKEY_AFTER_TIME + REKEY_JITTER
    /\ syn_retry_at \in 0 .. SYN_RETRY_MAX
    /\ last_handshake \in 0 .. RETRY_WHEN_GONE
    /\ last_receive \in 0 .. PRESUMED_DEAD
    /\ opened_at \in 0 .. SYN_FRESH
    /\ attempt_started \in 0 .. REKEY_ATTEMPT_TIME \cup {None}
    /\ unheard \in BOOLEAN
    /\ unanswered \in 0 .. Unanswered
    /\ syn_tries \in 0 .. MaxTries
    /\ kpc \in {"handshake", "rotate", "open", "sleep"}
    /\ wpc \in {"idle", "handshake"}
    /\ flight \subseteq {"msg1", "syn"}
    /\ quiet \in 0 .. LongestQuiet + 1
    /\ apart \in 0 .. REKEY_TIMEOUT
    /\ excused \in BOOLEAN

-----------------------------------------------------------------------------
(* The decisions of PeerState. *)

exhausted == attempt_started = REKEY_ATTEMPT_TIME

\* Mutant of revive: a run that gives up is over for good.
NeverRevives(s) == FALSE

revive(s) == exhausted /\ s = None /\ last_handshake >= RETRY_WHEN_GONE

presumed_dead == unheard /\ last_receive >= PRESUMED_DEAD

stuck == unanswered >= Unanswered /\ last_receive >= PRESUMED_DEAD

waited == retry_at = 0

\* Mutant of wants_handshake: a rekey that is due is not paced.
WantsUnpaced(s) ==
    /\ resume_at = 0
    /\ \/ s = None /\ exhausted /\ revive(s)
       \/ s = None /\ ~exhausted /\ (~pending \/ waited)
       \/ s # None /\ (rekey_at = 0 \/ (waited /\ presumed_dead))

wants_handshake(s) ==
    /\ resume_at = 0
    /\ \/ s = None /\ exhausted /\ revive(s)
       \/ s = None /\ ~exhausted /\ (~pending \/ waited)
       \/ s # None /\ waited /\ (rekey_at = 0 \/ presumed_dead)

\* retire_expired: what is left of the session.
Unexpired == IF session = REJECT_AFTER_TIME THEN None ELSE session

\* Mutant of syn_backoff: no upper limit.
BackoffUncapped(tries) == SYN_RETRY * 2 ^ Least(tries - 1, 3)

\* syn_backoff doubles the wait, three times at most and up to its limit.
syn_backoff(tries) == Least(SYN_RETRY * 2 ^ Least(tries - 1, 3), SYN_RETRY_MAX)

\* A carrier that waits for no answer can carry at once.
Fresh == IF RealHandshake THEN "idle" ELSE "ready"

\* The carrier a handshake goes over, made if there is none yet.
Connection == IF carrier = "none" THEN Fresh ELSE carrier

knock_due == syn_retry_at = 0 /\ (session # None \/ wants_handshake(session))

Knocks(c) == syn_retry_at = 0 /\ c \in {"idle", "syn"}

\* knock() on carrier c, opened o ticks ago, in a run begun r ticks ago, with f
\* on the path: a SYN if one is owed and due.  A SYN repeated too long is
\* replaced by a new one.
knock(c, o, r, f) ==
    IF Knocks(c)
    THEN /\ carrier' = "syn"
         /\ opened_at' = IF c = "idle" \/ o >= SYN_FRESH THEN 0 ELSE o
         /\ syn_tries' = Least(syn_tries + 1, MaxTries)
         /\ syn_retry_at' = syn_backoff(syn_tries')
         /\ last_handshake' = 0
         /\ attempt_started' = IF r = None THEN 0 ELSE r
         /\ flight' = f \cup {"syn"}
         /\ quiet' = 0
    ELSE /\ carrier' = c
         /\ opened_at' = o
         /\ attempt_started' = r
         /\ flight' = f
         /\ UNCHANGED <<syn_tries, syn_retry_at, last_handshake, quiet>>

-----------------------------------------------------------------------------
Init ==
    /\ session = None /\ pending = FALSE /\ carrier = "none"
    /\ retry_at = 0 /\ resume_at = 0 /\ rekey_at = 0 /\ syn_retry_at = 0
    /\ last_handshake = RETRY_WHEN_GONE /\ last_receive = PRESUMED_DEAD /\ opened_at = SYN_FRESH
    /\ attempt_started = None
    /\ unheard = FALSE /\ unanswered = 0 /\ syn_tries = 0
    /\ kpc = "handshake" /\ wpc = "idle" /\ flight = {}
    /\ quiet = 0 /\ apart = REKEY_TIMEOUT /\ excused = FALSE

\* K sleeps, and every clock moves on.  What W has begun it finishes within the
\* tick.
Tick ==
    /\ kpc = "sleep" /\ wpc = "idle"
    /\ kpc' = "handshake"
    /\ session' = IF session = None THEN None ELSE Least(session + 1, REJECT_AFTER_TIME)
    /\ retry_at' = Most(retry_at - 1, 0)
    /\ resume_at' = Most(resume_at - 1, 0)
    /\ rekey_at' = Most(rekey_at - 1, 0)
    /\ syn_retry_at' = Most(syn_retry_at - 1, 0)
    /\ last_handshake' = Least(last_handshake + 1, RETRY_WHEN_GONE)
    /\ last_receive' = Least(last_receive + 1, PRESUMED_DEAD)
    /\ opened_at' = Least(opened_at + 1, SYN_FRESH)
    /\ attempt_started' = IF attempt_started = None THEN None
                          ELSE Least(attempt_started + 1, REKEY_ATTEMPT_TIME)
    /\ quiet' = IF session # None /\ ~presumed_dead THEN 0
                ELSE Least(quiet + 1, LongestQuiet + 1)
    /\ apart' = Least(apart + 1, REKEY_TIMEOUT)
    /\ UNCHANGED <<pending, carrier, unheard, unanswered, syn_tries, wpc, flight, excused>>

\* maybe_handshake, in K on every tick and in W when a carrier opens.
maybe_handshake(thread) ==
    /\ \/ thread = "K" /\ kpc = "handshake" /\ kpc' = "rotate" /\ UNCHANGED wpc
       \/ thread = "W" /\ wpc = "handshake" /\ wpc' = "idle" /\ UNCHANGED kpc
    /\ session' = Unexpired
    /\ UNCHANGED <<resume_at, rekey_at, last_receive, unheard>>
    /\ \/ /\ ~wants_handshake(Unexpired)
          /\ UNCHANGED <<pending, carrier, retry_at, syn_retry_at, last_handshake, opened_at,
                         attempt_started, unanswered, syn_tries, flight, quiet, apart, excused>>
       \/ /\ wants_handshake(Unexpired)
          /\ LET c == Connection
                 r == IF revive(Unexpired) THEN None ELSE attempt_started
             IN  \/ /\ c # "ready"
                    /\ knock(c, opened_at, r, flight)
                    /\ unanswered' = Least(unanswered + (IF Knocks(c) THEN 1 ELSE 0), Unanswered)
                    /\ UNCHANGED <<pending, retry_at, apart, excused>>
                 \/ /\ c = "ready"
                    /\ carrier' = c
                    /\ pending' = TRUE
                    /\ last_handshake' = 0
                    /\ retry_at' \in REKEY_TIMEOUT .. LongestRetry
                    /\ attempt_started' = IF r = None THEN 0 ELSE r
                    /\ unanswered' = Least(unanswered + 1, Unanswered)
                    /\ flight' = flight \cup {"msg1"}
                    /\ quiet' = 0 /\ apart' = 0 /\ excused' = FALSE
                    /\ UNCHANGED <<syn_retry_at, opened_at, syn_tries>>

\* maybe_rotate: a move, because the tuple is stuck or, with a session, for any
\* of the other reasons (schedule, volume, silence).  The new carrier may have
\* been opened ahead of it, answered or not.
maybe_rotate ==
    /\ kpc = "rotate"
    /\ kpc' = "open"
    /\ \/ /\ ~(Rotates /\ stuck)
          /\ UNCHANGED <<session, pending, carrier, clocks, unanswered, syn_tries, flight, quiet,
                         excused>>
       \/ /\ Rotates /\ (stuck \/ session # None)
          /\ \E c \in IF RealHandshake THEN {"idle", "syn", "ready"} ELSE {"ready"},
                o \in 0 .. SYN_FRESH :
                /\ knock(c, o, attempt_started,
                         IF c = "syn" THEN flight \cup {"syn"} ELSE flight)
                /\ unanswered' = IF Knocks(c) THEN 1 ELSE 0
          /\ retry_at' = IF stuck THEN 0 ELSE retry_at
          /\ excused' = (excused \/ stuck)
          /\ UNCHANGED <<session, pending, resume_at, rekey_at, last_receive>>
    /\ UNCHANGED <<unheard, wpc, apart>>

\* maybe_open: a SYN nothing has answered is repeated.
maybe_open ==
    /\ kpc = "open"
    /\ kpc' = "sleep"
    /\ \/ /\ knock_due
          /\ knock(carrier, opened_at, attempt_started, flight)
          /\ unanswered' = Least(unanswered + (IF Knocks(carrier) THEN 1 ELSE 0), Unanswered)
       \/ /\ ~knock_due
          /\ UNCHANGED <<carrier, opened_at, syn_retry_at, last_handshake, attempt_started,
                         unanswered, syn_tries, flight, quiet>>
    /\ UNCHANGED <<session, pending, retry_at, resume_at, rekey_at, last_receive, unheard, wpc,
                   apart, excused>>

-----------------------------------------------------------------------------
(* What reaches this end. *)

\* handle_syn_ack: the connection is open, and a handshake with no session to
\* wait for goes at once.
handle_syn_ack ==
    /\ wpc = "idle"
    /\ "syn" \in flight
    /\ flight' = flight \ {"syn"}
    /\ \/ /\ carrier = "syn"
          /\ carrier' = "ready"
          /\ syn_tries' = 0 /\ syn_retry_at' = 0
          /\ unanswered' = 0
          /\ retry_at' = 0
          /\ excused' = TRUE
          /\ wpc' = IF session = None THEN "handshake" ELSE "idle"
       \/ /\ carrier # "syn"
          /\ UNCHANGED <<carrier, syn_tries, syn_retry_at, unanswered, retry_at, excused, wpc>>
    /\ UNCHANGED <<session, pending, resume_at, rekey_at, last_handshake, last_receive, opened_at,
                   attempt_started, unheard, kpc, quiet, apart>>

\* handle_msg2: install and established.
handle_msg2 ==
    /\ wpc = "idle"
    /\ "msg1" \in flight /\ pending
    /\ flight' = flight \ {"msg1"}
    /\ pending' = FALSE
    /\ session' = 0
    /\ rekey_at' \in REKEY_AFTER_TIME - REKEY_JITTER .. REKEY_AFTER_TIME + REKEY_JITTER
    /\ last_receive' = 0
    /\ unheard' = FALSE
    /\ attempt_started' = None
    /\ resume_at' = 0
    /\ unanswered' = 0
    /\ quiet' = 0
    /\ UNCHANGED <<carrier, retry_at, syn_retry_at, last_handshake, opened_at, syn_tries, kpc, wpc,
                   apart, excused>>

\* handle_transport: an authenticated packet.
Hear ==
    /\ wpc = "idle"
    /\ session # None /\ session < REJECT_AFTER_TIME
    /\ last_receive' = 0
    /\ unheard' = FALSE
    /\ quiet' = 0
    /\ UNCHANGED <<session, pending, carrier, retry_at, resume_at, rekey_at, syn_retry_at,
                   last_handshake, opened_at, attempt_started, unanswered, syn_tries, kpc, wpc,
                   flight, apart, excused>>

\* handle_transport on a Bye: farewell.
farewell ==
    /\ wpc = "idle"
    /\ session # None /\ session < REJECT_AFTER_TIME
    /\ session' = None
    /\ pending' = FALSE
    /\ last_receive' = 0
    /\ unheard' = FALSE
    /\ attempt_started' = None
    /\ resume_at' = REJOIN_AFTER
    /\ quiet' = 0
    /\ excused' = TRUE
    /\ UNCHANGED <<carrier, retry_at, rekey_at, syn_retry_at, last_handshake, opened_at, unanswered,
                   syn_tries, kpc, wpc, flight, apart>>

\* T, seal_into: data to send.  With no session it restarts a run that gave up;
\* sent, it asks a question the peer has to answer.
SendData ==
    /\ \/ /\ session = None
          /\ attempt_started' = None
          /\ UNCHANGED unheard
       \/ /\ session # None /\ session < REJECT_AFTER_TIME /\ carrier = "ready"
          /\ unheard' = (unheard \/ last_receive > 0)
          /\ UNCHANGED attempt_started
    /\ UNCHANGED <<session, pending, carrier, retry_at, resume_at, rekey_at, syn_retry_at,
                   last_handshake, last_receive, opened_at, unanswered, syn_tries, kpc, wpc, flight,
                   quiet, apart, excused>>

\* The path loses what this end sent, or the answer to it.
Lose(m) ==
    /\ m \in flight
    /\ flight' = flight \ {m}
    /\ UNCHANGED <<session, pending, carrier, clocks, unheard, unanswered, syn_tries, kpc, wpc,
                   history>>

Next == \/ Tick \/ maybe_handshake("K") \/ maybe_handshake("W") \/ maybe_rotate \/ maybe_open
        \/ handle_syn_ack \/ handle_msg2 \/ Hear \/ farewell \/ SendData
        \/ \E m \in flight : Lose(m)

Spec == Init /\ [][Next]_vars

\* The threads run; a path that is offered a message again and again carries
\* one, and its answer, in time.
FairSpec == /\ Spec
            /\ WF_vars(Tick) /\ WF_vars(maybe_rotate) /\ WF_vars(maybe_open)
            /\ WF_vars(maybe_handshake("K")) /\ WF_vars(maybe_handshake("W"))
            /\ SF_vars(handle_syn_ack /\ carrier = "syn") /\ SF_vars(handle_msg2)

-----------------------------------------------------------------------------
\* With no session, or one whose peer has stopped answering, the initiator never
\* goes longer without a SYN or a handshake than the longest of its waits
\* (wants_handshake, revive, knock_due): no sequence of give-ups, goodbyes,
\* expiries and carrier moves leaves it silent for good.
NeverSilent == quiet <= LongestQuiet

\* Two handshakes are at least REKEY_TIMEOUT apart, unless a goodbye, a
\* connection that opened or a move off a stuck tuple came between them
\* (wants_handshake: "paced by `waited` like every other path here").
Paced ==
    [][(\E t \in {"K", "W"} : maybe_handshake(t)) /\ wants_handshake(Unexpired) /\ Connection = "ready"
       => apart >= REKEY_TIMEOUT \/ excused]_vars

\* A tunnel that is down comes back, if the path carries one of the handshakes
\* sent at it: the client keeps sending them.
Recovers == session = None ~> session # None
=============================================================================
